----------------------------- MODULE OnChainSend -----------------------------
(***************************************************************************)
(* On-chain payments, which Bria batches and broadcasts, and the events of *)
(* Bria that bring the ledger up to date.                                  *)
(*                                                                         *)
(*   app/payments/send-on-chain.ts            executePaymentViaOnChain     *)
(*   services/ledger/facade/onchain-send.ts   the updates of the ledger    *)
(*   servers/event-handlers/bria.ts           the payout events            *)
(*   app/wallets/settle-payout-txn.ts, register-broadcasted-payout-txn.ts  *)
(*   app/on-chain/                            transfers to cold storage    *)
(*                                                                         *)
(* A payment has one journal and one payout, both named after it.  The     *)
(* event PayoutCommitted is left out: its handler does nothing.            *)
(***************************************************************************)
EXTENDS BriaStream

CONSTANTS
    Payments, Wallets, None,
    Rebalances,     \* the payouts of rebalanceToColdWallet
    WalletOf,       \* [Payments -> Wallets]
    Amount, Fee,    \* [Payments -> Nat], the fees are debited with the amount
    FeeDiffers,     \* the payments whose miner fee is not the one estimated
    InitBalance,    \* [Wallets -> Nat]
    MaxTransfers,   \* bound on the journals of one transfer to cold storage
    SendFaults      \* "lostAnswer": submitPayout ends with an error, but Bria took it;
                    \* "revert": an error of revertOnChainPayment;
                    \* "loseLock": the lock of a wallet expires

Payouts == Payments \cup Rebalances

ASSUME SendAssumption ==
    /\ None \notin Payments /\ Payments \cap Rebalances = {}
    /\ WalletOf \in [Payments -> Wallets]
    /\ Amount \in [Payments -> Nat] /\ Fee \in [Payments -> Nat]
    /\ FeeDiffers \subseteq Payments
    /\ InitBalance \in [Wallets -> Nat] /\ MaxTransfers \in Nat
    /\ SendFaults \subseteq {"lostAnswer", "revert", "loseLock"}

VARIABLES
    pc, lock, aborted,  \* the requests and the locks of the wallets
    balance,            \* the balance of each wallet
    recorded,           \* the payments with a journal
    pending,            \* those whose transactions have pending: true
    voided,             \* those whose journal is voided
    payoutId, txId,     \* those whose transactions have the payout id, the hash
    reconciled,         \* number of journals that correct the fee of a payment
    pendingFee,         \* the payments with such a journal that is pending
    coldTransfers,      \* number of journals of a transfer to cold storage
    bria                \* the state of each payout in Bria

requestVars == <<pc, lock, aborted>>
ledgerVars == <<balance, recorded, pending, voided, payoutId, txId, reconciled,
                pendingFee, coldTransfers>>
vars == <<streamVars, requestVars, ledgerVars, bria>>

-----------------------------------------------------------------------------
Locked == {"checkBalance", "record", "queue", "revert"}
Event(type, p) == [type |-> type, of |-> p]
Debit(p) == Amount[p] + Fee[p]

Goto(p, label) == pc' = [pc EXCEPT ![p] = label]
Release(p) ==
    lock' = IF lock[WalletOf[p]] = p THEN [lock EXCEPT ![WalletOf[p]] = None] ELSE lock
Leave(p) == Goto(p, "done") /\ Release(p)
Credit(p, n) == balance' = [balance EXCEPT ![WalletOf[p]] = @ + n]
Void(p) == voided' = voided \cup {p} /\ Credit(p, Debit(p))

Init ==
    /\ StreamInit
    /\ pc = [p \in Payments |-> "idle"]
    /\ lock = [w \in Wallets |-> None]
    /\ aborted = [p \in Payments |-> FALSE]
    /\ balance = InitBalance
    /\ recorded = {} /\ pending = {} /\ voided = {} /\ payoutId = {} /\ txId = {}
    /\ pendingFee = {}
    /\ reconciled = [p \in Payments |-> 0]
    /\ coldTransfers = [r \in Rebalances |-> 0]
    /\ bria = [p \in Payouts |-> "none"]

(***************************************************************************)
(* payOnChainByWalletId, executePaymentViaOnChain.                         *)
(***************************************************************************)
PayOnChain(p) ==
    /\ pc[p] = "idle"
    /\ Goto(p, "lock")
    /\ UNCHANGED <<streamVars, lock, aborted, ledgerVars, bria>>

AcquireLock(p) ==
    /\ pc[p] = "lock"
    /\ lock[WalletOf[p]] = None
    /\ lock' = [lock EXCEPT ![WalletOf[p]] = p]
    /\ aborted' = [aborted EXCEPT ![p] = FALSE]
    /\ Goto(p, "checkBalance")
    /\ UNCHANGED <<streamVars, ledgerVars, bria>>

LockUnavailable(p) ==
    /\ pc[p] = "lock"
    /\ lock[WalletOf[p]] # None
    /\ Goto(p, "done")
    /\ UNCHANGED <<streamVars, lock, aborted, ledgerVars, bria>>

\* Mutant: the fees are not checked with the amount.
CheckBalanceWithoutFee(p) ==
    /\ pc[p] = "checkBalance"
    /\ \/ /\ balance[WalletOf[p]] >= Amount[p] /\ ~aborted[p]
          /\ Goto(p, "record") /\ UNCHANGED lock
       \/ Leave(p)
    /\ UNCHANGED <<streamVars, aborted, ledgerVars, bria>>

\* getMinerFeeAndPaymentFlow, checkBalanceForSend, signal.aborted, the price; the request
\* also ends with an error of any of the services it asks.
CheckBalance(p) ==
    /\ pc[p] = "checkBalance"
    /\ \/ /\ balance[WalletOf[p]] >= Debit(p) /\ ~aborted[p]
          /\ Goto(p, "record") /\ UNCHANGED lock
       \/ Leave(p)
    /\ UNCHANGED <<streamVars, aborted, ledgerVars, bria>>

SendFault(kind) == kind \in SendFaults /\ faults < MaxFaults /\ faults' = faults + 1

RecordSend(p) ==
    /\ pc[p] = "record"
    /\ recorded' = recorded \cup {p} /\ pending' = pending \cup {p}
    /\ Credit(p, -Debit(p))
    /\ Goto(p, "queue")
    /\ UNCHANGED <<streamVars, lock, aborted, voided, payoutId, txId, reconciled, pendingFee,
                   coldTransfers, bria>>

\* Bria takes a payout (external).
Submit(p) ==
    /\ bria' = [bria EXCEPT ![p] = "queued"]
    /\ Emit(Event("submitted", p))
    /\ UNCHANGED <<connection, slot, persisted>>

\* queuePayoutToAddress: taken, refused, or taken with an answer that is lost.
QueuePayout(p) ==
    /\ pc[p] = "queue"
    /\ \/ Submit(p) /\ Leave(p) /\ UNCHANGED faults
       \/ Goto(p, "revert") /\ UNCHANGED <<lock, bria, streamVars>>
       \/ /\ SendFault("lostAnswer")
          /\ Submit(p) /\ Goto(p, "revert") /\ UNCHANGED lock
    /\ UNCHANGED <<aborted, ledgerVars>>

\* Mutant: the balance is put right also when the journal is voided already.
RevertAgain(p) ==
    /\ pc[p] = "revert"
    /\ pending' = pending \ {p}
    /\ Void(p)
    /\ Leave(p)
    /\ UNCHANGED <<streamVars, aborted, recorded, payoutId, txId, reconciled, pendingFee,
                   coldTransfers, bria>>

\* revertOnChainPayment: the pending flag first, then the void, which is an error if the
\* event of a cancelled payout came first.
Revert(p) ==
    /\ pc[p] = "revert"
    /\ pending' = pending \ {p}
    /\ IF p \in voided THEN UNCHANGED <<voided, balance>> ELSE Void(p)
    /\ Leave(p)
    /\ UNCHANGED <<streamVars, aborted, recorded, payoutId, txId, reconciled, pendingFee,
                   coldTransfers, bria>>

\* An error of either of its two writes.
RevertFails(p) ==
    /\ SendFault("revert")
    /\ pc[p] = "revert"
    /\ pending' \in {pending, pending \ {p}}
    /\ Leave(p)
    /\ UNCHANGED <<log, connection, slot, persisted, aborted, balance, recorded, voided, payoutId,
                   txId, reconciled, pendingFee, coldTransfers, bria>>

LoseLock(w) ==
    /\ SendFault("loseLock")
    /\ lock[w] # None
    /\ lock' = [lock EXCEPT ![w] = None]
    /\ aborted' = [aborted EXCEPT ![lock[w]] = TRUE]
    /\ UNCHANGED <<log, connection, slot, persisted, pc, ledgerVars, bria>>

(***************************************************************************)
(* Bria (external), and the cron job that moves funds to cold storage.     *)
(***************************************************************************)
RebalanceToColdWallet(r) ==
    /\ bria[r] = "none"
    /\ Submit(r)
    /\ UNCHANGED <<faults, requestVars, ledgerVars>>

BriaStep(p, from, to) ==
    /\ bria[p] = from
    /\ bria' = [bria EXCEPT ![p] = to]
    /\ Emit(Event(to, p))
    /\ UNCHANGED <<connection, slot, persisted, faults, requestVars, ledgerVars>>
Cancel(p) == BriaStep(p, "queued", "cancelled")
Broadcast(p) == BriaStep(p, "queued", "broadcast")
Settle(p) == BriaStep(p, "broadcast", "settled")

(***************************************************************************)
(* briaEventHandler.  A handler returns true, or an error after which the  *)
(* event is asked for again.                                               *)
(***************************************************************************)
Handling(k, type) == At(k, "handle") /\ EventOf(k).type = type
Payout(k) == EventOf(k).of
Continue(k, step) == Step(k, step) /\ UNCHANGED <<log, connection, persisted>>
Returns(k) == Continue(k, "persist")
HandlerUnchanged == UNCHANGED <<faults, requestVars, bria>>

\* Mutant: every payout is taken for a payment.
PayoutSubmittedUnchecked(k) ==
    /\ Handling(k, "submitted")
    /\ payoutId' = payoutId \cup {Payout(k)}
    /\ Returns(k)
    /\ UNCHANGED <<balance, recorded, pending, voided, txId, reconciled, pendingFee, coldTransfers>>
    /\ HandlerUnchanged

\* setOnChainTxPayoutId: a payout without a journal is passed over.
PayoutSubmitted(k) ==
    /\ Handling(k, "submitted")
    /\ payoutId' = payoutId \cup ({Payout(k)} \cap recorded)
    /\ Returns(k)
    /\ UNCHANGED <<balance, recorded, pending, voided, txId, reconciled, pendingFee, coldTransfers>>
    /\ HandlerUnchanged

\* recordOnChainSendRevert.  Voiding a voided journal is an error of the ledger, and the
\* pending flag stays as it is.
PayoutCancelled(k) ==
    /\ Handling(k, "cancelled")
    /\ IF Payout(k) \in recorded
       THEN IF Payout(k) \in voided
            THEN Retry(k) /\ UNCHANGED <<voided, balance>>
            ELSE Void(Payout(k)) /\ Returns(k)
       ELSE Returns(k) /\ UNCHANGED <<voided, balance>>
    /\ UNCHANGED <<recorded, pending, payoutId, txId, reconciled, pendingFee, coldTransfers>>
    /\ HandlerUnchanged

\* The fee of a voided payment is not found in the ledger when the void took its payout id
\* (the metadata that MainBook.void copies is external), and counts as zero.
FeeMayDiffer(p) == p \in FeeDiffers \cup voided

\* Mutant: the fee is corrected without asking whether it was before.
PayoutBroadcastUnchecked(k) ==
    /\ Handling(k, "broadcast") /\ Payout(k) \in Payments
    /\ txId' = txId \cup ({Payout(k)} \cap payoutId)
    /\ \/ Payout(k) \in payoutId /\ FeeMayDiffer(Payout(k)) /\ Continue(k, "reconcile")
       \/ ~(Payout(k) \in payoutId \cap FeeDiffers) /\ Returns(k)
    /\ UNCHANGED <<balance, recorded, pending, voided, payoutId, reconciled, pendingFee,
                   coldTransfers>>
    /\ HandlerUnchanged

\* registerBroadcastedPayout: setOnChainTxIdByPayoutId, which passes over a payout whose
\* id is not in the ledger, then the comparison of the fees.
PayoutBroadcast(k) ==
    /\ Handling(k, "broadcast") /\ Payout(k) \in Payments
    /\ txId' = txId \cup ({Payout(k)} \cap payoutId)
    /\ \/ Payout(k) \in payoutId /\ FeeMayDiffer(Payout(k)) /\ Continue(k, "checkReconciled")
       \/ ~(Payout(k) \in payoutId \cap FeeDiffers) /\ Returns(k)
    /\ UNCHANGED <<balance, recorded, pending, voided, payoutId, reconciled, pendingFee,
                   coldTransfers>>
    /\ HandlerUnchanged

\* isOnChainFeeReconciliationRecorded
CheckReconciled(k) ==
    /\ At(k, "checkReconciled")
    /\ Continue(k, IF reconciled[Payout(k)] > 0 THEN "persist" ELSE "reconcile")
    /\ UNCHANGED ledgerVars
    /\ HandlerUnchanged

\* recordReceiveOnChainFeeReconciliation
Reconcile(k) ==
    /\ At(k, "reconcile")
    /\ reconciled' = [reconciled EXCEPT ![Payout(k)] = @ + 1]
    /\ pendingFee' = pendingFee \cup {Payout(k)}
    /\ Returns(k)
    /\ UNCHANGED <<balance, recorded, pending, voided, payoutId, txId, coldTransfers>>
    /\ HandlerUnchanged

\* recordHotToColdTransfer, once more for an event that is handled again.
ColdBroadcast(k) ==
    /\ Handling(k, "broadcast") /\ Payout(k) \in Rebalances
    /\ coldTransfers[Payout(k)] < MaxTransfers
    /\ coldTransfers' = [coldTransfers EXCEPT ![Payout(k)] = @ + 1]
    /\ Returns(k)
    /\ UNCHANGED <<balance, recorded, pending, voided, payoutId, txId, reconciled, pendingFee>>
    /\ HandlerUnchanged

\* Mutant: updateOne in place of updateMany.
PayoutSettledOne(k) ==
    /\ Handling(k, "settled")
    /\ Returns(k)
    /\ pending' = pending \ ({Payout(k)} \cap payoutId)
    /\ UNCHANGED <<balance, recorded, voided, payoutId, txId, reconciled, pendingFee, coldTransfers>>
    /\ HandlerUnchanged

\* settlePayout: nothing to settle is passed over; without the hash of the transaction the
\* notification is an error, after the ledger was updated.
PayoutSettled(k) ==
    /\ Handling(k, "settled")
    /\ IF Payout(k) \in (payoutId \cap (pending \cup pendingFee)) \ txId
       THEN Retry(k) ELSE Returns(k)
    /\ pending' = pending \ ({Payout(k)} \cap payoutId)
    /\ pendingFee' = pendingFee \ ({Payout(k)} \cap payoutId)
    /\ UNCHANGED <<balance, recorded, voided, payoutId, txId, reconciled, coldTransfers>>
    /\ HandlerUnchanged

-----------------------------------------------------------------------------
Request(p) == AcquireLock(p) \/ LockUnavailable(p) \/ CheckBalance(p) \/ RecordSend(p)
              \/ QueuePayout(p) \/ Revert(p) \/ RevertFails(p)
Handle(k) == PayoutSubmitted(k) \/ PayoutCancelled(k) \/ PayoutBroadcast(k) \/ CheckReconciled(k)
             \/ Reconcile(k) \/ ColdBroadcast(k) \/ PayoutSettled(k)

Next ==
    \/ \E p \in Payments : PayOnChain(p) \/ Request(p)
    \/ \E r \in Rebalances : RebalanceToColdWallet(r)
    \/ \E p \in Payouts : Cancel(p) \/ Broadcast(p) \/ Settle(p)
    \/ \E k \in Slots : Handle(k)
    \/ StreamStep /\ UNCHANGED <<requestVars, ledgerVars, bria>>
    \/ \E w \in Wallets : LoseLock(w)

Spec == Init /\ [][Next]_vars
\* As for the stream, and the handlers of the events go on.
StreamGoes(A) == A /\ UNCHANGED <<requestVars, ledgerVars, bria>>
Fairness ==
    /\ \A k \in Slots : WF_vars(Handle(k)) /\ WF_vars(StreamGoes(Persist(k)))
    /\ WF_vars(StreamGoes(\E k \in Slots : Deliver(k)))
    /\ WF_vars(StreamGoes(Connect))
FairSpec == Spec /\ Fairness

-----------------------------------------------------------------------------
\* Every variable has the values its declaration describes.
TypeOK ==
    /\ StreamTypeOK
    /\ pc \in [Payments -> {"idle", "lock", "done"} \cup Locked]
    /\ lock \in [Wallets -> Payments \cup {None}]
    /\ aborted \in [Payments -> BOOLEAN]
    /\ balance \in [Wallets -> Int]
    /\ recorded \subseteq Payments /\ pending \subseteq recorded /\ voided \subseteq recorded
    /\ payoutId \subseteq recorded /\ txId \subseteq payoutId
    /\ reconciled \in [Payments -> Nat] /\ pendingFee \subseteq payoutId
    /\ coldTransfers \in [Rebalances -> Nat]
    /\ bria \in [Payouts -> {"none", "queued", "cancelled", "broadcast", "settled"}]

\* No wallet is overdrawn by on-chain payments (checkBalanceForSend, recordSendOnChain).
BalanceNonNegative == \A w \in Wallets : balance[w] >= 0

\* The ledger shows every event that was persisted, whatever was handled twice or at the
\* same time: the payout id, the void, the transfer to cold storage.  The handlers of the
\* broadcast and of the settled payout rely on the events before them.  If none of those
\* was overtaken, there are also the hash, one correction of the fee if it is due (a second
\* one only if the broadcast arrived again while it was handled), and the end of the
\* pending state (of the correction too, unless the payment was given back because an
\* answer of Bria was lost).
LedgerFollowsBria ==
    \A i \in persisted :
        LET type == log[i].type
            p == log[i].of
            inOrder == \A j \in 1..i : log[j].of = p => j \notin overtaken
        IN  /\ p \in Rebalances /\ type = "broadcast" => coldTransfers[p] > 0
            /\ p \in Payments =>
              /\ type = "submitted" => p \in payoutId
              /\ type = "cancelled" => p \in voided
              /\ type = "broadcast" /\ inOrder =>
                   /\ p \in txId
                   /\ p \in FeeDiffers => reconciled[p] >= 1
                   /\ reconciled[p] <= 1 \/ i \in doubled
              /\ type = "settled" /\ inOrder =>
                   p \notin pending /\ (p \notin pendingFee \/ p \in voided)

\* A payment is given back once: each wallet has what it had at first less the payments
\* that were recorded and not given back.  When an answer of Bria is lost, the request
\* (revertOnChainPayment) and the event of a cancelled payout (recordOnChainSendRevert)
\* both void the journal, and the event may be handled several times.
GivenBackOnce ==
    \A w \in Wallets :
        balance[w] = InitBalance[w]
                     - MapThenSumSet(Debit, {p \in recorded \ voided : WalletOf[p] = w})

\* What Bria has settled does not stay pending, and what it has cancelled is given back.
PayoutsEventuallyFollowed ==
    \A p \in Payments :
        /\ bria[p] = "settled" ~> p \notin pending \cup pendingFee
        /\ bria[p] = "cancelled" ~> p \in voided
==============================================================================
