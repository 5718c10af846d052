------------------------------ MODULE LnReceive ------------------------------
(***************************************************************************)
(* Receiving over Lightning with hold invoices, and paying such an invoice *)
(* from another wallet of the bank.                                        *)
(*                                                                         *)
(*   app/wallets/add-invoice-for-wallet.ts          addInvoice             *)
(*   app/wallets/handle-held-invoices.ts            the cron and trigger   *)
(*   app/wallets/update-single-pending-invoice.ts   updatePendingInvoice   *)
(*   app/wallets/decline-single-pending-invoice.ts  declineHeldInvoice     *)
(*   app/wallets/cancel-invoice-for-wallet.ts       cancelInvoiceForWallet *)
(*   app/payments/send-lightning.ts   executePaymentViaIntraledger         *)
(*                                                                         *)
(* A handler is one run after the other of handleHeldInvoiceByPaymentHash, *)
(* or of the processor that handleHeldInvoices gives to runInParallel.     *)
(* Every await on the node, the database or the lock ends a step.  Amounts *)
(* are left out, but for a payment of less than one sat.                   *)
(***************************************************************************)
EXTENDS Integers

CONSTANTS
    Hashes, Handlers, Cancels, Senders, Wallets, None,
    HashOf,         \* [Cancels \cup Senders -> Hashes], the invoice of a request
    WalletOf,       \* [Senders -> Wallets], the wallet that pays
    UsdInvoices,    \* the invoices of USD wallets, declined when they are old
    DustPaid,       \* the invoices paid with less than one sat
    Interruptible,  \* the labels where a process may be interrupted
    MayLoseLock,    \* whether a lock may be lost
    MaxFaults

Procs == Handlers \cup Cancels \cup Senders
Keys == Hashes \cup Wallets

VARIABLES
    pc,         \* where each process is
    current,    \* the invoice each process works on
    result,     \* what a handler has seen in the node, then its result
    lock,       \* the holder of the lock of each payment hash and wallet
    aborted,    \* signal.aborted of the lock a process took last
    lnd,        \* the invoice in the node
    stored,     \* the invoices in the wallet_invoices collection
    paid,       \* those with paid: true
    completed,  \* those with processingCompleted: true
    old,        \* the invoices past their expiration
    receipts,   \* number of journals of recordReceiveOffChain of each invoice
    transfers,  \* the requests that wrote a journal of recordIntraledger
    faults      \* number of faults so far

vars == <<pc, current, result, lock, aborted, lnd, stored, paid, completed, old, receipts,
          transfers, faults>>
locks == <<lock, aborted>>
invoiceVars == <<stored, paid, completed>>
journals == <<receipts, transfers>>

-----------------------------------------------------------------------------
HandlerLocked == {"refetch", "settle", "markPaid", "record"}
CancelLocked == {"checkStatus", "checkUnpaid", "cancel", "markCompleted"}
SenderLocked == {"checkRecorded", "checkBalance", "recordIntraledger", "cancelPaid", "markPaid"}
Locked == HandlerLocked \cup CancelLocked \cup SenderLocked
PCs == {"idle", "lookup", "declineLookup", "decline", "lock", "finish", "finishDecline", "done"}
       \cup Locked

LndStates == {"none", "open", "held", "settled", "canceled", "removed"}
Results == {"none", "held", "settled", "canceled", "paid", "notPaid"}

ASSUME ConstantsAssumption ==
    /\ None \notin Procs
    /\ Handlers \cap (Cancels \cup Senders) = {} /\ Cancels \cap Senders = {}
    /\ Hashes \cap Wallets = {}
    /\ HashOf \in [Cancels \cup Senders -> Hashes]
    /\ WalletOf \in [Senders -> Wallets]
    /\ UsdInvoices \subseteq Hashes
    /\ DustPaid \subseteq Hashes
    /\ Interruptible \subseteq PCs
    /\ MayLoseLock \in BOOLEAN
    /\ MaxFaults \in Nat

\* lockPaymentHash, or lockWalletId for a sender.
Key(p) == IF p \in Senders THEN WalletOf[p] ELSE current[p]
AfterLockAcquired(p) ==
    IF p \in Handlers THEN "refetch" ELSE IF p \in Cancels THEN "checkStatus" ELSE "checkRecorded"

Goto(p, label) == pc' = [pc EXCEPT ![p] = label]
Answer(t, r) == result' = [result EXCEPT ![t] = r]
Release(p) == lock' = IF lock[Key(p)] = p THEN [lock EXCEPT ![Key(p)] = None] ELSE lock
LeaveFor(p, label) == Goto(p, label) /\ Release(p)
\* Early returns: a handler waits for its next call, a request is answered.
Rest(p) == IF p \in Handlers THEN "idle" ELSE "done"
Leave(p) == LeaveFor(p, Rest(p))

\* The repository's markAsPaid and markAsProcessingCompleted.
MarkAsPaid(h) == paid' = paid \cup {h} /\ completed' = completed \cup {h} /\ UNCHANGED stored
MarkAsProcessingCompleted(h) == completed' = completed \cup {h} /\ UNCHANGED <<stored, paid>>

\* cancelInvoice: an invoice that is settled or not found is left as it is.
CancelInLnd(h) ==
    lnd' = IF lnd[h] \in {"open", "held"} THEN [lnd EXCEPT ![h] = "canceled"] ELSE lnd
\* isLnTxRecorded: none of the journals of this module has pending: true.
IsLnTxRecorded(h) == receipts[h] > 0 \/ \E s \in transfers : HashOf[s] = h
\* WalletInvoiceChecker(walletInvoice).shouldDecline()
ShouldDecline(h) == h \in UsdInvoices /\ h \in old

Init ==
    /\ pc = [p \in Procs |-> "idle"]
    /\ current = [p \in Procs |-> IF p \in Handlers THEN None ELSE HashOf[p]]
    /\ result = [t \in Handlers |-> "none"]
    /\ lock = [k \in Keys |-> None]
    /\ aborted = [p \in Procs |-> FALSE]
    /\ lnd = [h \in Hashes |-> "none"]
    /\ stored = {} /\ paid = {} /\ completed = {} /\ old = {}
    /\ receipts = [h \in Hashes |-> 0]
    /\ transfers = {}
    /\ faults = 0

-----------------------------------------------------------------------------
(***************************************************************************)
(* addInvoice: the invoice is registered in the node, then stored.  Only   *)
(* then is its payment request returned, so only then can it be paid.      *)
(***************************************************************************)
RegisterInvoice(h) ==
    /\ lnd[h] = "none"
    /\ lnd' = [lnd EXCEPT ![h] = "open"]
    /\ UNCHANGED <<pc, current, result, locks, invoiceVars, old, journals, faults>>

PersistInvoice(h) ==
    /\ lnd[h] # "none" /\ h \notin stored
    /\ stored' = stored \cup {h}
    /\ UNCHANGED <<pc, current, result, locks, lnd, paid, completed, old, journals, faults>>

(***************************************************************************)
(* handleHeldInvoices and handleHeldInvoiceByPaymentHash.  The wallet      *)
(* invoice read here is what the handler goes by until it has the lock.    *)
(***************************************************************************)
\* An invoice of yieldPending, or one that the node reports as held.  With a completed
\* invoice updatePendingInvoice changes nothing; declineHeldInvoice does not check it.
HandleHeldInvoice(t, h) ==
    /\ pc[t] = "idle"
    /\ h \in stored
    /\ IF ShouldDecline(h)
       THEN (h \notin completed \/ lnd[h] = "held") /\ Goto(t, "declineLookup")
       ELSE h \notin completed /\ Goto(t, "lookup")
    /\ current' = [current EXCEPT ![t] = h]
    /\ Answer(t, "none")
    /\ UNCHANGED <<locks, lnd, invoiceVars, old, journals, faults>>

\* Mutant: the state of the invoice in the node is taken for the result.
LookupUnclassified(t) ==
    /\ pc[t] = "lookup"
    /\ Answer(t, lnd[current[t]])
    /\ Goto(t, IF lnd[current[t]] \in {"held", "settled"} THEN "lock" ELSE "finish")
    /\ UNCHANGED <<current, locks, lnd, invoiceVars, old, journals, faults>>

\* Mutant: an invoice that an earlier handler has settled is not gone on with.
LookupHeldOnly(t) ==
    /\ pc[t] = "lookup"
    /\ IF lnd[current[t]] = "held"
       THEN /\ Answer(t, "held")
            /\ Goto(t, IF current[t] \in DustPaid THEN "declineLookup" ELSE "lock")
       ELSE Answer(t, "notPaid") /\ Goto(t, "finish")
    /\ UNCHANGED <<current, locks, lnd, invoiceVars, old, journals, faults>>

\* processPendingInvoice up to the lock.  An amount of no sat goes to the decline path,
\* whose result is then used by updatePendingInvoice.
Lookup(t) ==
    LET inLnd == lnd[current[t]]
    IN  /\ pc[t] = "lookup"
        /\ \/ /\ inLnd \in {"removed", "canceled"}
              /\ Answer(t, "canceled") /\ Goto(t, "finish")
           \/ /\ inLnd = "open"
              /\ Answer(t, "notPaid") /\ Goto(t, "finish")
           \/ /\ inLnd \in {"held", "settled"}
              /\ Answer(t, inLnd)
              /\ Goto(t, IF current[t] \in DustPaid THEN "declineLookup" ELSE "lock")
        /\ UNCHANGED <<current, locks, lnd, invoiceVars, old, journals, faults>>

\* processPendingInvoiceForDecline, called by declineHeldInvoice (with no result yet) or
\* by processPendingInvoice.  An invoice that is not held is cancelled all the same: the
\* notPaid() of that branch is not returned.
AfterDecline(t) == IF result[t] = "none" THEN "finishDecline" ELSE "finish"
DeclineLookup(t) ==
    LET inLnd == lnd[current[t]]
    IN  /\ pc[t] = "declineLookup"
        /\ \/ inLnd = "removed" /\ Answer(t, "canceled") /\ Goto(t, AfterDecline(t))
           \/ inLnd = "settled" /\ Answer(t, "paid") /\ Goto(t, AfterDecline(t))
           \/ inLnd \in {"open", "held", "canceled"} /\ Goto(t, "decline") /\ UNCHANGED result
        /\ UNCHANGED <<current, locks, lnd, invoiceVars, old, journals, faults>>

Decline(t) ==
    /\ pc[t] = "decline"
    /\ CancelInLnd(current[t])
    /\ Answer(t, "paid") /\ Goto(t, AfterDecline(t))
    /\ UNCHANGED <<current, locks, invoiceVars, old, journals, faults>>

\* Mutant: the wallet invoice is not read again under the lock.
RefetchSkipped(t) ==
    /\ pc[t] = "refetch"
    /\ Goto(t, IF result[t] = "settled" THEN "markPaid" ELSE "settle") /\ UNCHANGED <<lock, result>>
    /\ UNCHANGED <<current, aborted, lnd, invoiceVars, old, journals, faults>>

\* lockedUpdatePendingInvoiceSteps up to the settlement in the node.
Refetch(t) ==
    /\ pc[t] = "refetch"
    /\ IF current[t] \in completed
       THEN /\ Answer(t, IF current[t] \in paid THEN "paid" ELSE "canceled")
            /\ LeaveFor(t, "finish")
       ELSE /\ Goto(t, IF result[t] = "settled" THEN "markPaid" ELSE "settle")
            /\ UNCHANGED <<lock, result>>
    /\ UNCHANGED <<current, aborted, lnd, invoiceVars, old, journals, faults>>

\* Mutant: the error of settleInvoice is ignored.
SettleIgnoringErrors(t) ==
    /\ pc[t] = "settle"
    /\ lnd' = IF lnd[current[t]] = "held" THEN [lnd EXCEPT ![current[t]] = "settled"] ELSE lnd
    /\ Goto(t, "markPaid")
    /\ UNCHANGED <<current, result, locks, invoiceVars, old, journals, faults>>

\* settleInvoice: true if it is already settled, an error if it was cancelled meanwhile.
Settle(t) ==
    /\ pc[t] = "settle"
    /\ IF lnd[current[t]] \in {"held", "settled"}
       THEN lnd' = [lnd EXCEPT ![current[t]] = "settled"] /\ Goto(t, "markPaid") /\ UNCHANGED lock
       ELSE Leave(t) /\ UNCHANGED lnd
    /\ UNCHANGED <<current, result, aborted, invoiceVars, old, journals, faults>>

MarkPaid(t) ==
    /\ pc[t] = "markPaid"
    /\ MarkAsPaid(current[t])
    /\ Goto(t, "record")
    /\ UNCHANGED <<current, result, locks, lnd, old, journals, faults>>

\* recordReceiveOffChain, the end of the locked section.
RecordReceive(t) ==
    /\ pc[t] = "record"
    /\ receipts' = [receipts EXCEPT ![current[t]] = @ + 1]
    /\ Answer(t, "paid")
    /\ LeaveFor(t, "finish")
    /\ UNCHANGED <<current, aborted, lnd, invoiceVars, old, transfers, faults>>

\* The end of updatePendingInvoice, which has no lock any more.
Finish(t) ==
    /\ pc[t] = "finish"
    /\ \/ result[t] = "paid" /\ MarkAsPaid(current[t])
       \/ result[t] = "canceled" /\ MarkAsProcessingCompleted(current[t])
       \/ result[t] = "notPaid" /\ UNCHANGED invoiceVars
    /\ Goto(t, "idle")
    /\ UNCHANGED <<current, result, locks, lnd, old, journals, faults>>

\* The end of declineHeldInvoice: an invoice declined is not marked.
FinishDecline(t) ==
    /\ pc[t] = "finishDecline"
    /\ IF result[t] = "canceled"
       THEN MarkAsProcessingCompleted(current[t]) ELSE UNCHANGED invoiceVars
    /\ Goto(t, "idle")
    /\ UNCHANGED <<current, result, locks, lnd, old, journals, faults>>

(***************************************************************************)
(* The locks.                                                              *)
(***************************************************************************)
AcquireLock(p) ==
    /\ pc[p] = "lock"
    /\ lock[Key(p)] = None
    /\ lock' = [lock EXCEPT ![Key(p)] = p]
    /\ aborted' = [aborted EXCEPT ![p] = FALSE]
    /\ Goto(p, AfterLockAcquired(p))
    /\ UNCHANGED <<current, result, lnd, invoiceVars, old, journals, faults>>

\* Every retry found the lock taken: ResourceAttemptsRedlockServiceError.
LockUnavailable(p) ==
    /\ pc[p] = "lock"
    /\ lock[Key(p)] # None
    /\ Goto(p, Rest(p))
    /\ UNCHANGED <<current, result, locks, lnd, invoiceVars, old, journals, faults>>

(***************************************************************************)
(* cancelInvoiceForWallet.                                                 *)
(***************************************************************************)
\* Mutant: the invoice is cancelled without the lock of its hash.
RequestCancelUnlocked(c) ==
    /\ pc[c] = "idle"
    /\ Goto(c, "checkStatus")
    /\ UNCHANGED <<current, result, locks, lnd, invoiceVars, old, journals, faults>>

RequestCancel(c) ==
    /\ pc[c] = "idle"
    /\ Goto(c, "lock")
    /\ UNCHANGED <<current, result, locks, lnd, invoiceVars, old, journals, faults>>

\* InvoiceAlreadyProcessedError if it is completed or expired.
CheckStatus(c) ==
    /\ pc[c] = "checkStatus"
    /\ IF current[c] \notin stored \/ current[c] \in completed \cup old
       THEN Leave(c) ELSE Goto(c, "checkUnpaid") /\ UNCHANGED lock
    /\ UNCHANGED <<current, result, aborted, lnd, invoiceVars, old, journals, faults>>

CheckUnpaid(c) ==
    /\ pc[c] = "checkUnpaid"
    /\ IF lnd[current[c]] \in {"held", "settled", "removed"}
       THEN Leave(c) ELSE Goto(c, "cancel") /\ UNCHANGED lock
    /\ UNCHANGED <<current, result, aborted, lnd, invoiceVars, old, journals, faults>>

Cancel(c) ==
    /\ pc[c] = "cancel"
    /\ CancelInLnd(current[c])
    /\ Goto(c, "markCompleted")
    /\ UNCHANGED <<current, result, locks, invoiceVars, old, journals, faults>>

MarkCompleted(c) ==
    /\ pc[c] = "markCompleted"
    /\ MarkAsProcessingCompleted(current[c])
    /\ Leave(c)
    /\ UNCHANGED <<current, result, aborted, lnd, old, journals, faults>>

(***************************************************************************)
(* A payment of the invoice from another wallet of the bank                *)
(* (executePaymentViaIntraledger, lockedPaymentViaIntraledgerSteps).       *)
(***************************************************************************)
\* recipientDetailsFromInvoice refuses a paid invoice, unless the payment flow exists
\* from an earlier fee probe.
PayInvoice(s) ==
    /\ pc[s] = "idle"
    /\ current[s] \in stored
    /\ \/ current[s] \in paid /\ Goto(s, "done")
       \/ Goto(s, "lock")
    /\ UNCHANGED <<current, result, locks, lnd, invoiceVars, old, journals, faults>>

\* Mutant: the ledger is not asked whether the hash is already paid.
CheckRecordedSkipped(s) ==
    /\ pc[s] = "checkRecorded"
    /\ Goto(s, "checkBalance")
    /\ UNCHANGED <<current, result, locks, lnd, invoiceVars, old, journals, faults>>

CheckRecorded(s) ==
    /\ pc[s] = "checkRecorded"
    /\ IF IsLnTxRecorded(current[s]) THEN Leave(s) ELSE Goto(s, "checkBalance") /\ UNCHANGED lock
    /\ UNCHANGED <<current, result, aborted, lnd, invoiceVars, old, journals, faults>>

\* The balance, the prices, then the check of signal.aborted.
CheckBalance(s) ==
    /\ pc[s] = "checkBalance"
    /\ \/ Leave(s)
       \/ ~aborted[s] /\ Goto(s, "recordIntraledger") /\ UNCHANGED lock
    /\ UNCHANGED <<current, result, aborted, lnd, invoiceVars, old, journals, faults>>

RecordIntraledger(s) ==
    /\ pc[s] = "recordIntraledger"
    /\ transfers' = transfers \cup {s}
    /\ Goto(s, "cancelPaid")
    /\ UNCHANGED <<current, result, locks, lnd, invoiceVars, old, receipts, faults>>

CancelPaid(s) ==
    /\ pc[s] = "cancelPaid"
    /\ CancelInLnd(current[s])
    /\ Goto(s, "markPaid")
    /\ UNCHANGED <<current, result, locks, invoiceVars, old, journals, faults>>

MarkPaidIntraledger(s) ==
    /\ pc[s] = "markPaid"
    /\ MarkAsPaid(current[s])
    /\ Leave(s)
    /\ UNCHANGED <<current, result, aborted, lnd, old, journals, faults>>

(***************************************************************************)
(* The node and the clock (external): a payment of the invoice arrives and *)
(* is held; a held payment that nobody claims times out; the invoice       *)
(* expires; the node drops a cancelled invoice.                            *)
(***************************************************************************)
LndStep(h, from, to) ==
    /\ lnd[h] = from
    /\ lnd' = [lnd EXCEPT ![h] = to]
    /\ UNCHANGED <<pc, current, result, locks, invoiceVars, old, journals, faults>>
HtlcArrives(h) == h \in stored /\ LndStep(h, "open", "held")
HtlcTimeout(h) == LndStep(h, "held", "canceled")
LndExpire(h) == h \in old /\ LndStep(h, "open", "canceled")
LndRemove(h) == LndStep(h, "canceled", "removed")

Age(h) ==
    /\ h \in stored \ old
    /\ old' = old \cup {h}
    /\ UNCHANGED <<pc, current, result, locks, lnd, invoiceVars, journals, faults>>

(***************************************************************************)
(* Faults, at most MaxFaults of them.                                      *)
(***************************************************************************)
Fault == faults < MaxFaults /\ faults' = faults + 1

\* A call returns an error or the process stops; its lock is released or expires.
Interrupt(p) ==
    /\ Fault
    /\ pc[p] \in Interruptible \ {"idle", "done"}
    /\ IF pc[p] \in Locked THEN Leave(p) ELSE Goto(p, Rest(p)) /\ UNCHANGED lock
    /\ UNCHANGED <<current, result, aborted, lnd, invoiceVars, old, journals>>

\* The lock could not be extended in time: it is free and its holder's signal aborted.
LoseLock(k) ==
    /\ Fault
    /\ MayLoseLock
    /\ lock[k] # None
    /\ lock' = [lock EXCEPT ![k] = None]
    /\ aborted' = [aborted EXCEPT ![lock[k]] = TRUE]
    /\ UNCHANGED <<pc, current, result, lnd, invoiceVars, old, journals>>

-----------------------------------------------------------------------------
Add(h) == RegisterInvoice(h) \/ PersistInvoice(h)
Handle(t) == Lookup(t) \/ DeclineLookup(t) \/ Decline(t) \/ Refetch(t) \/ Settle(t)
             \/ MarkPaid(t) \/ RecordReceive(t) \/ Finish(t) \/ FinishDecline(t)
CancelInvoice(c) == CheckStatus(c) \/ CheckUnpaid(c) \/ Cancel(c) \/ MarkCompleted(c)
SendIntraledger(s) == CheckRecorded(s) \/ CheckBalance(s) \/ RecordIntraledger(s)
                      \/ CancelPaid(s) \/ MarkPaidIntraledger(s)
Environment(h) == HtlcArrives(h) \/ HtlcTimeout(h) \/ LndExpire(h) \/ LndRemove(h) \/ Age(h)

Next ==
    \/ \E h \in Hashes : Add(h) \/ Environment(h)
    \/ \E t \in Handlers : Handle(t) \/ \E h \in Hashes : HandleHeldInvoice(t, h)
    \/ \E c \in Cancels : RequestCancel(c) \/ CancelInvoice(c)
    \/ \E s \in Senders : PayInvoice(s) \/ SendIntraledger(s)
    \/ \E p \in Procs : AcquireLock(p) \/ LockUnavailable(p) \/ Interrupt(p)
    \/ \E k \in Keys : LoseLock(k)

\* A process that has started goes on, the cron job comes back to every pending invoice
\* and a retry finds a free lock at last.  Nobody has to pay, to cancel or to time out.
Fairness ==
    /\ \A t \in Handlers : WF_vars(Handle(t)) /\ \A h \in Hashes : SF_vars(HandleHeldInvoice(t, h))
    /\ \A c \in Cancels : WF_vars(CancelInvoice(c))
    /\ \A s \in Senders : WF_vars(SendIntraledger(s))
    /\ \A p \in Procs : SF_vars(AcquireLock(p))

Spec == Init /\ [][Next]_vars
FairSpec == Spec /\ Fairness

-----------------------------------------------------------------------------
\* Every variable has the values its declaration describes.
TypeOK ==
    /\ pc \in [Procs -> PCs]
    /\ current \in [Procs -> Hashes \cup {None}]
    /\ result \in [Handlers -> Results]
    /\ lock \in [Keys -> Procs \cup {None}]
    /\ aborted \in [Procs -> BOOLEAN]
    /\ lnd \in [Hashes -> LndStates]
    /\ stored \subseteq Hashes /\ paid \subseteq Hashes
    /\ completed \subseteq Hashes /\ old \subseteq Hashes
    /\ receipts \in [Hashes -> Nat]
    /\ transfers \subseteq Senders
    /\ faults \in 0..MaxFaults

\* A wallet is credited only with what the node has claimed: the receipt of a hash is
\* recorded after settleInvoice, and never for an invoice that was cancelled meanwhile.
CreditedOnlyIfSettled == \A h \in Hashes : receipts[h] > 0 => lnd[h] = "settled"

\* The flags of a stored invoice are true.  One closed as unpaid (cancelled by its owner,
\* expired or not found) was not claimed in the node: no money is kept without a handler
\* left to credit it.  With no interruption after markAsPaid and no payment of less than a
\* sat, one marked paid has its journal, or the handler about to write it has the lock.
FlagsTruthful ==
    /\ \A h \in completed \ paid : lnd[h] # "settled"
    /\ \A h \in paid : \/ IsLnTxRecorded(h)
                       \/ \E t \in Handlers :
                             pc[t] = "record" /\ current[t] = h /\ lock[h] = t

\* One wallet never pays the same invoice twice within the bank: isLnTxRecorded, asked
\* under the lock of the wallet, sees the journal of the first payment.
NoSecondTransfer ==
    \A r, s \in transfers : HashOf[r] = HashOf[s] /\ WalletOf[r] = WalletOf[s] => r = s

\* The stage of an invoice as the specification of what a receipt promises sees it.
Stage(h) ==
    IF receipts[h] > 0 THEN IF receipts[h] = 1 THEN "credited" ELSE "creditedTwice"
    ELSE IF lnd[h] = "settled" THEN "claimed"
    ELSE IF lnd[h] \in {"canceled", "removed"} THEN "closed" ELSE "waiting"
Abstract == INSTANCE Receipt WITH receipt <- [h \in Hashes |-> Stage(h)]
\* The handlers, cancellations, senders and the node implement Receipt: an invoice moves
\* from waiting to claimed to credited, or to closed, and never back or past a stage.
ImplementsReceipt == Abstract!Spec

\* A payment is not held for ever: a handler claims it, or declines it, at last; and a
\* claimed one is credited at last, also when handlers were interrupted before.
HeldEventuallyEnds ==
    \A h \in Hashes : /\ lnd[h] = "held" ~> lnd[h] # "held"
                      /\ lnd[h] = "settled" ~> receipts[h] > 0
==============================================================================
