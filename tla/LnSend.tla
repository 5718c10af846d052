------------------------------- MODULE LnSend -------------------------------
(***************************************************************************)
(* Sending a Lightning payment to an external node, and the jobs that      *)
(* resolve the payments left pending.                                      *)
(*                                                                         *)
(*   app/payments/send-lightning.ts           executePaymentViaLn          *)
(*   app/payments/update-pending-payments.ts  updatePendingPayments        *)
(*   app/payments/reimburse-fee.ts, reimburse-failed-usd.ts                *)
(*   services/ledger/facade, services/ledger  journals and pending flags   *)
(*   services/lock                            the lock of a wallet         *)
(*   services/lnd                             the calls to the node        *)
(*                                                                         *)
(* An attempt is one run of executePaymentViaLn; its journal is named      *)
(* after it.  Two attempts with the same hash are a retry, or two wallets  *)
(* that pay one invoice.  An updater is one run after the other of         *)
(* updatePendingPaymentsByWalletId, started by the cron job or by a        *)
(* payment event of the node.  Every await on the ledger, the lock or the  *)
(* node ends a step.  Amounts are in one unit (the price is 1:1).          *)
(***************************************************************************)
EXTENDS Integers, FiniteSets, LnPaymentState

CONSTANTS
    Attempts, Updaters, Hashes, Wallets, None,
    HashOf,         \* [Attempts -> Hashes]
    WalletOf,       \* [Attempts -> Wallets], the sender
    Amount,         \* [Attempts -> Nat], btcPaymentAmount
    MaxFee,         \* [Attempts -> Nat], btcProtocolAndBankFee, debited up front
    RouteKnown,     \* attempts with a rawRoute: the fee is known in advance
    ZeroDisplayFee, \* attempts whose fee is 0 in the display currency
    UsdWallets,     \* the wallets in USD, the others are in BTC
    BtcWalletOf,    \* [Wallets -> Wallets], the BTC wallet of the same account
    InitBalance,    \* [Wallets -> Nat]
    FaultKinds,     \* the faults that may happen, and how many of them
    MaxFaults

Procs == Attempts \cup Updaters

ASSUME ConstantsAssumption ==
    /\ None \notin Procs
    /\ Attempts \cap Updaters = {}
    /\ HashOf \in [Attempts -> Hashes]
    /\ WalletOf \in [Attempts -> Wallets]
    /\ Amount \in [Attempts -> Nat]
    /\ MaxFee \in [Attempts -> Nat]
    /\ RouteKnown \subseteq Attempts
    /\ ZeroDisplayFee \subseteq Attempts
    /\ UsdWallets \subseteq Wallets
    /\ BtcWalletOf \in [Wallets -> Wallets]
    /\ InitBalance \in [Wallets -> Nat]
    /\ FaultKinds \subseteq {"interrupt", "dropConnection", "loseLock"}
    /\ MaxFaults \in Nat

VARIABLES
    pc,       \* where each process is
    lock,     \* the holder of the lock of each wallet, in Redis
    aborted,  \* signal.aborted of the lock a process took last
    current,  \* the payment a process works on
    todo,     \* what is left of the updater's listPendingPayments
    outcome,  \* the answer of the node a process acts on
    ledger,   \* the entries of the payments, oldest first
    pending,  \* the payments whose transactions have pending: true
    balance,  \* the balance of each wallet
    bundle,   \* bundle_completion_state of each payment
    lnd,      \* the latest payment of each hash in the node
    faults    \* number of faults so far

vars == <<pc, lock, aborted, current, todo, outcome, ledger, pending, balance,
          bundle, lnd, faults>>
jobVars == <<current, todo>>
ledgerVars == <<ledger, pending, balance, bundle>>

-----------------------------------------------------------------------------
Locked == {"check", "balance", "flow", "prepare", "record", "pay", "wait", "settle", "revert",
           "reimburse", "finish"}
PCs == {"idle", "lock", "next", "done"} \cup Locked

Kinds == {"payment", "void", "feeReimbursement", "usdReimbursement"}
Entries == [kind : Kinds, of : Attempts]
LndPayments == [status : {"none", "inflight", "settled", "failed"},
                by : Attempts \cup {None}, fee : Nat]
Outcomes == [status : {"none", "settled", "failed", "alreadyPaid", "timeout"},
             by : Attempts \cup {None}, fee : Nat]

Answer(status, by, fee) == [status |-> status, by |-> by, fee |-> fee]
NoAnswer == Answer("none", None, 0)

HashOfProc(p) == HashOf[current[p]]
WalletOfProc(p) == WalletOf[current[p]]
Debit(a) == Amount[a] + MaxFee[a]

PendingFor(h) == {a \in pending : HashOf[a] = h}
HasEntry(kind, a) == \E i \in DOMAIN ledger : ledger[i] = [kind |-> kind, of |-> a]
EntriesOf(h) == {i \in DOMAIN ledger : HashOf[ledger[i].of] = h}
\* isLnTxRecorded: the ledger has transactions of the hash, none of them pending.
IsLnTxRecorded(h) == EntriesOf(h) # {} /\ PendingFor(h) = {}

Append1(kind, a) == ledger' = Append(ledger, [kind |-> kind, of |-> a])
Credit(w, n) == balance' = [balance EXCEPT ![w] = @ + n]

Goto(p, label) == pc' = [pc EXCEPT ![p] = label]
\* The end of the callback of lockWalletId: an attempt returns to its caller, an
\* updater takes the next payment of its list.
AfterLock(p) == IF p \in Attempts THEN "done" ELSE "next"
\* redlock releases the lock only if it still holds the value of this process.
Release(p) ==
    lock' = IF lock[WalletOfProc(p)] = p
            THEN [lock EXCEPT ![WalletOfProc(p)] = None] ELSE lock
Leave(p) == Goto(p, AfterLock(p)) /\ Release(p)

-----------------------------------------------------------------------------
Init ==
    /\ pc = [p \in Procs |-> "idle"]
    /\ lock = [w \in Wallets |-> None]
    /\ aborted = [p \in Procs |-> FALSE]
    /\ current = [p \in Procs |-> IF p \in Attempts THEN p ELSE None]
    /\ todo = [u \in Updaters |-> {}]
    /\ outcome = [p \in Procs |-> NoAnswer]
    /\ ledger = <<>>
    /\ pending = {}
    /\ balance = InitBalance
    /\ bundle = [a \in Attempts |-> NoState]
    /\ lnd = [h \in Hashes |-> NoAnswer]
    /\ faults = 0

(***************************************************************************)
(* The lock of a wallet (LockService().lockWalletId).                      *)
(***************************************************************************)
AcquireLock(p) ==
    /\ pc[p] = "lock"
    /\ lock[WalletOfProc(p)] = None
    /\ lock' = [lock EXCEPT ![WalletOfProc(p)] = p]
    /\ aborted' = [aborted EXCEPT ![p] = FALSE]
    /\ Goto(p, "check")
    /\ UNCHANGED <<jobVars, outcome, ledgerVars, lnd, faults>>

\* Every retry found the lock taken: ResourceAttemptsRedlockServiceError.
LockUnavailable(p) ==
    /\ pc[p] = "lock"
    /\ lock[WalletOfProc(p)] # None
    /\ Goto(p, AfterLock(p))
    /\ UNCHANGED <<lock, aborted, jobVars, outcome, ledgerVars, lnd, faults>>

(***************************************************************************)
(* An attempt (executePaymentViaLn, lockedPaymentViaLnSteps).              *)
(***************************************************************************)
\* Validation, payment flow and limits precede the lock and change nothing here.
PayInvoice(a) ==
    /\ pc[a] = "idle"
    /\ Goto(a, "lock")
    /\ UNCHANGED <<lock, aborted, jobVars, outcome, ledgerVars, lnd, faults>>

\* Mutant: the pending payments of the hash are not looked for.
CheckInTransitSkipped(a) ==
    /\ pc[a] = "check"
    /\ Goto(a, "balance")
    /\ UNCHANGED <<lock, aborted, jobVars, outcome, ledgerVars, lnd, faults>>

\* getTransactionsByHash: LnPaymentRequestInTransitError if one is pending.
CheckInTransit(a) ==
    /\ pc[a] = "check"
    /\ IF PendingFor(HashOf[a]) # {} THEN Leave(a) ELSE Goto(a, "balance") /\ UNCHANGED lock
    /\ UNCHANGED <<aborted, jobVars, outcome, ledgerVars, lnd, faults>>

\* Mutant: the fee that is debited with the amount is not checked.
CheckBalanceWithoutFee(a) ==
    /\ pc[a] = "balance"
    /\ IF balance[WalletOf[a]] < Amount[a]
       THEN Leave(a) ELSE Goto(a, "prepare") /\ UNCHANGED lock
    /\ UNCHANGED <<aborted, jobVars, outcome, ledgerVars, lnd, faults>>

\* getWalletBalanceAmount and checkBalanceForSend.
CheckBalance(a) ==
    /\ pc[a] = "balance"
    /\ IF balance[WalletOf[a]] < Debit(a)
       THEN Leave(a) ELSE Goto(a, "prepare") /\ UNCHANGED lock
    /\ UNCHANGED <<aborted, jobVars, outcome, ledgerVars, lnd, faults>>

\* The display price, then the check of signal.aborted.
PrepareSend(a) ==
    /\ pc[a] = "prepare"
    /\ IF aborted[a] THEN Leave(a) ELSE Goto(a, "record") /\ UNCHANGED lock
    /\ UNCHANGED <<aborted, jobVars, outcome, ledgerVars, lnd, faults>>

RecordSend(a) ==
    /\ pc[a] = "record"
    /\ Append1("payment", a)
    /\ pending' = pending \cup {a}
    /\ Credit(WalletOf[a], -Debit(a))
    /\ Goto(a, "pay")
    /\ UNCHANGED <<lock, aborted, jobVars, outcome, bundle, lnd, faults>>

\* The call to the node.  It takes a payment whose hash it does not know or whose
\* last payment failed, and refuses one in flight or already settled.  It may also
\* be refused before it reaches the node (verifyMaxFee, no route).
PayStart(a) ==
    /\ pc[a] = "pay"
    /\ \/ /\ lnd[HashOf[a]].status \in {"none", "failed"}
          /\ lnd' = [lnd EXCEPT ![HashOf[a]] = Answer("inflight", a, 0)]
          /\ Goto(a, "wait")
          /\ UNCHANGED outcome
       \/ /\ outcome' = [outcome EXCEPT ![a] = Answer("failed", a, 0)]
          /\ Goto(a, "settle")
          /\ UNCHANGED lnd
       \/ /\ lnd[HashOf[a]].status = "settled"
          /\ outcome' = [outcome EXCEPT ![a] = Answer("alreadyPaid", a, 0)]
          /\ Goto(a, "settle")
          /\ UNCHANGED lnd
    /\ UNCHANGED <<lock, aborted, jobVars, ledgerVars, faults>>

\* The node answers.  When another attempt has taken over the hash, this one failed.
PayResult(a) ==
    LET payment == lnd[HashOf[a]]
    IN  /\ pc[a] = "wait"
        /\ payment.by = a => payment.status # "inflight"
        /\ outcome' = [outcome EXCEPT ![a] =
              IF payment.by = a THEN payment ELSE Answer("failed", a, 0)]
        /\ Goto(a, "settle")
        /\ UNCHANGED <<lock, aborted, jobVars, ledgerVars, lnd, faults>>

\* The retries of a lock take about 6 seconds (retryCount, retryDelay), less than
\* TIMEOUT_PAYMENT and than the time to live of a lock.  When an attempt has held the
\* lock for that long, an updater that waits for it with an answer on the same hash
\* got that answer after the attempt was sent.
WaitersAreFresh(a) ==
    \A u \in Updaters :
        pc[u] = "lock" /\ HashOfProc(u) = HashOf[a] /\ WalletOfProc(u) = WalletOf[a]
            => outcome[u].by = a

\* Mutant: a timeout is an error like the others.
PayTimeoutAsFailure(a) ==
    /\ pc[a] = "wait"
    /\ WaitersAreFresh(a)
    /\ outcome' = [outcome EXCEPT ![a] = Answer("failed", a, 0)]
    /\ Goto(a, "settle")
    /\ UNCHANGED <<lock, aborted, jobVars, ledgerVars, lnd, faults>>

\* TIMEOUT_PAYMENT passed first: LnPaymentPendingError.
PayTimeout(a) ==
    /\ pc[a] = "wait"
    /\ WaitersAreFresh(a)
    /\ outcome' = [outcome EXCEPT ![a] = Answer("timeout", a, 0)]
    /\ Goto(a, "finish")
    /\ UNCHANGED <<lock, aborted, jobVars, ledgerVars, lnd, faults>>

(***************************************************************************)
(* The last steps of an attempt and of an updater.                         *)
(***************************************************************************)
\* The node did not make this payment: it failed, or what the node paid for the
\* hash is another version of it.
Unpaid(p) ==
    \/ outcome[p].status \in {"failed", "alreadyPaid"}
    \/ p \in Updaters /\ Amount[outcome[p].by] # Amount[current[p]]

NextStep(p) == IF Unpaid(p) THEN "revert"
               ELSE IF current[p] \in RouteKnown THEN "finish"
               ELSE "reimburse"

\* Mutant: modifiedCount is not looked at.
SettlePendingUnchecked(p) ==
    /\ pc[p] = "settle"
    /\ pending' = pending \ PendingFor(HashOfProc(p))
    /\ Goto(p, NextStep(p))
    /\ UNCHANGED <<lock, aborted, jobVars, outcome, ledger, balance, bundle, lnd, faults>>

\* settlePendingLnSend clears the flag of every transaction of the hash.
SettlePending(p) ==
    /\ pc[p] = "settle"
    /\ IF PendingFor(HashOfProc(p)) = {}
       THEN Leave(p) /\ UNCHANGED pending
       ELSE /\ pending' = pending \ PendingFor(HashOfProc(p))
            /\ Goto(p, NextStep(p))
            /\ UNCHANGED lock
    /\ UNCHANGED <<aborted, jobVars, outcome, ledger, balance, bundle, lnd, faults>>

\* recordLnSendRevert and revertLightningPayment void the journal, once.  An
\* updater pays a USD payment back to the BTC wallet of the account instead.
Revert(p) ==
    LET a == current[p]
        w == WalletOf[a]
    IN  /\ pc[p] = "revert"
        /\ \/ /\ p \in Attempts \/ w \notin UsdWallets
              /\ IF HasEntry("void", a)
                 THEN Leave(p) /\ UNCHANGED <<ledger, balance>>
                 ELSE /\ Append1("void", a)
                      /\ Credit(w, Debit(a))
                      /\ Goto(p, "finish")
                      /\ UNCHANGED lock
           \/ /\ p \in Updaters /\ w \in UsdWallets
              /\ Append1("usdReimbursement", a)
              /\ Credit(BtcWalletOf[w], Debit(a))
              /\ Goto(p, "finish")
              /\ UNCHANGED lock
        /\ UNCHANGED <<aborted, jobVars, outcome, pending, bundle, lnd, faults>>

\* reimburseFee, after the updater's check of the display amounts, which takes a
\* fee of 0 for a missing one.
ReimburseFee(p) ==
    LET a == current[p]
        difference == MaxFee[a] - outcome[p].fee
    IN  /\ pc[p] = "reimburse"
        /\ IF p \in Updaters /\ a \in ZeroDisplayFee
           THEN Leave(p) /\ UNCHANGED <<ledger, balance>>
           ELSE /\ Goto(p, "finish")
                /\ IF difference > 0
                   THEN /\ Append1("feeReimbursement", a)
                        /\ Credit(WalletOf[a], difference)
                   ELSE UNCHANGED <<ledger, balance>>
                /\ UNCHANGED lock
        /\ UNCHANGED <<aborted, jobVars, outcome, pending, bundle, lnd, faults>>

\* The wallet on which an entry is a transaction, its type and its side.
EntryWallet(e) == IF e.kind = "usdReimbursement" THEN BtcWalletOf[WalletOf[e.of]]
                  ELSE WalletOf[e.of]
TxnOf(e) == [type |-> IF e.kind = "feeReimbursement" THEN "lnFeeReimbursement"
                      ELSE "payment",
             debit |-> e.kind = "payment",
             pending |-> e.kind = "payment" /\ e.of \in pending]
\* getTransactionsForWalletsByPaymentHash on the wallets of the account, newest first.
BundleOf(a) ==
    LET mine == SelectSeq(ledger, LAMBDA e :
                    /\ HashOf[e.of] = HashOf[a]
                    /\ BtcWalletOf[EntryWallet(e)] = BtcWalletOf[WalletOf[a]])
    IN  [i \in 1..Len(mine) |-> TxnOf(mine[Len(mine) + 1 - i])]

\* Mutant: updateLnPaymentState is not called.
FinishWithoutState(p) ==
    /\ pc[p] = "finish"
    /\ Leave(p)
    /\ UNCHANGED <<aborted, jobVars, outcome, ledgerVars, lnd, faults>>

\* updateLnPaymentState: a bundle with no state leaves the stored one alone.
Finish(p) ==
    LET a == current[p]
        state == Determine(BundleOf(a))
    IN  /\ pc[p] = "finish"
        /\ bundle' = IF state = InvalidBundle THEN bundle
                     ELSE [bundle EXCEPT ![a] = state]
        /\ Leave(p)
        /\ UNCHANGED <<aborted, jobVars, outcome, ledger, pending, balance, lnd, faults>>

(***************************************************************************)
(* An updater (updatePendingPaymentsByWalletId, updatePendingPayment,      *)
(* lockedPendingPaymentSteps).                                             *)
(***************************************************************************)
ListPending(u, w) ==
    /\ pc[u] = "idle"
    /\ \E a \in pending : WalletOf[a] = w
    /\ todo' = [todo EXCEPT ![u] = {a \in pending : WalletOf[a] = w}]
    /\ Goto(u, "next")
    /\ UNCHANGED <<lock, aborted, current, outcome, ledgerVars, lnd, faults>>

Lookup(u, a, ended) ==
    LET payment == lnd[HashOf[a]]
    IN  /\ pc[u] = "next"
        /\ a \in todo[u]
        /\ todo' = [todo EXCEPT ![u] = @ \ {a}]
        /\ IF payment.status \in ended
           THEN /\ current' = [current EXCEPT ![u] = a]
                /\ outcome' = [outcome EXCEPT ![u] = payment]
                /\ Goto(u, "lock")
           ELSE UNCHANGED <<current, outcome, pc>>
        /\ UNCHANGED <<lock, aborted, ledgerVars, lnd, faults>>

\* Mutant: a failed payment does not go on.
LookupPaymentSettled(u, a) == Lookup(u, a, {"settled"})

\* lookupPayment, before the lock: only a settled or a failed payment goes on.
LookupPayment(u, a) == Lookup(u, a, {"settled", "failed"})

EndList(u) ==
    /\ pc[u] = "next"
    /\ todo[u] = {}
    /\ Goto(u, "idle")
    /\ UNCHANGED <<lock, aborted, jobVars, outcome, ledgerVars, lnd, faults>>

\* isLnTxRecorded: "payment has already been processed".
CheckPending(u) ==
    /\ pc[u] = "check"
    /\ IF IsLnTxRecorded(HashOfProc(u)) THEN Leave(u) ELSE Goto(u, "flow") /\ UNCHANGED lock
    /\ UNCHANGED <<aborted, jobVars, outcome, ledgerVars, lnd, faults>>

\* The stored payment flow or, if it has expired, the one rebuilt from the only
\* pending payment of the hash with this amount.
Rebuildable(a) ==
    Cardinality({b \in PendingFor(HashOf[a]) : Amount[b] = Amount[a]}) = 1
FindFlow(u) ==
    /\ pc[u] = "flow"
    /\ \/ Goto(u, "settle") /\ UNCHANGED lock
       \/ ~Rebuildable(current[u]) /\ Leave(u)
    /\ UNCHANGED <<aborted, jobVars, outcome, ledgerVars, lnd, faults>>

(***************************************************************************)
(* The node settles or fails what is in flight (external).                 *)
(***************************************************************************)
LndSettle(h) ==
    /\ lnd[h].status = "inflight"
    /\ \E fee \in 0..MaxFee[lnd[h].by] :
          /\ lnd[h].by \in RouteKnown => fee = MaxFee[lnd[h].by]
          /\ lnd' = [lnd EXCEPT ![h] = Answer("settled", @.by, fee)]
    /\ UNCHANGED <<pc, lock, aborted, jobVars, outcome, ledgerVars, faults>>

LndFail(h) ==
    /\ lnd[h].status = "inflight"
    /\ lnd' = [lnd EXCEPT ![h] = Answer("failed", @.by, 0)]
    /\ UNCHANGED <<pc, lock, aborted, jobVars, outcome, ledgerVars, faults>>

(***************************************************************************)
(* Faults, each within MaxFaults.                                          *)
(***************************************************************************)
Fault(kind) == kind \in FaultKinds /\ faults < MaxFaults /\ faults' = faults + 1

\* A call of the locked section returns an error or the process stops: the steps
\* that are left are not taken, and the lock is released or expires.  Only a stop of
\* the process comes between the record of a payment and the answer of the node.
Interrupt(p) ==
    /\ Fault("interrupt")
    /\ pc[p] \in Locked
    /\ pc[p] \in {"pay", "wait"} => WaitersAreFresh(p)
    /\ Leave(p)
    /\ UNCHANGED <<aborted, jobVars, outcome, ledgerVars, lnd>>

\* The connection to the node fails while the payment is in flight:
\* OffChainServiceUnavailableError, taken for a failed payment.
DropConnection(a) ==
    /\ Fault("dropConnection")
    /\ pc[a] = "wait"
    /\ outcome' = [outcome EXCEPT ![a] = Answer("failed", a, 0)]
    /\ Goto(a, "settle")
    /\ UNCHANGED <<lock, aborted, jobVars, ledgerVars, lnd>>

\* The lock could not be extended in time: it is free again and the signal of its
\* holder is aborted.
LoseLock(w) ==
    /\ Fault("loseLock")
    /\ lock[w] # None
    /\ lock' = [lock EXCEPT ![w] = None]
    /\ aborted' = [aborted EXCEPT ![lock[w]] = TRUE]
    /\ UNCHANGED <<pc, jobVars, outcome, ledgerVars, lnd>>

-----------------------------------------------------------------------------
Send(a) == CheckInTransit(a) \/ CheckBalance(a) \/ PrepareSend(a) \/ RecordSend(a) \/ PayStart(a)
           \/ PayResult(a) \/ PayTimeout(a)
Update(u) == EndList(u) \/ CheckPending(u) \/ FindFlow(u)
             \/ \E a \in Attempts : LookupPayment(u, a)
Resolve(p) == SettlePending(p) \/ Revert(p) \/ ReimburseFee(p) \/ Finish(p)

Next ==
    \/ \E a \in Attempts : PayInvoice(a) \/ Send(a) \/ DropConnection(a)
    \/ \E u \in Updaters : Update(u) \/ \E w \in Wallets : ListPending(u, w)
    \/ \E p \in Procs : AcquireLock(p) \/ LockUnavailable(p) \/ Resolve(p) \/ Interrupt(p)
    \/ \E h \in Hashes : LndSettle(h) \/ LndFail(h)
    \/ \E w \in Wallets : LoseLock(w)

\* A process goes on and the node ends what is in flight.  The cron job comes back
\* to every wallet with a pending payment, and a retry finds a free lock at last.
Fairness ==
    /\ \A a \in Attempts : WF_vars(Send(a))
    /\ \A u \in Updaters : WF_vars(Update(u))
    /\ \A u \in Updaters, w \in Wallets : SF_vars(ListPending(u, w))
    /\ \A p \in Procs : WF_vars(Resolve(p)) /\ SF_vars(AcquireLock(p))
    /\ \A h \in Hashes : WF_vars(LndSettle(h) \/ LndFail(h))

Spec == Init /\ [][Next]_vars
FairSpec == Spec /\ Fairness

-----------------------------------------------------------------------------
\* Every variable has the values its declaration describes.
TypeOK ==
    /\ pc \in [Procs -> PCs]
    /\ lock \in [Wallets -> Procs \cup {None}]
    /\ aborted \in [Procs -> BOOLEAN]
    /\ current \in [Procs -> Attempts \cup {None}]
    /\ todo \in [Updaters -> SUBSET Attempts]
    /\ outcome \in [Procs -> Outcomes]
    /\ ledger \in Seq(Entries)
    /\ pending \subseteq Attempts
    /\ balance \in [Wallets -> Int]
    /\ bundle \in [Attempts -> LnPaymentStates \cup {NoState}]
    /\ lnd \in [Hashes -> LndPayments]
    /\ faults \in 0..MaxFaults

\* No wallet is ever overdrawn: the balance checked by checkBalanceForSend is still
\* there when recordSendOffChain debits it, several awaits later.
BalanceNonNegative == \A w \in Wallets : balance[w] >= 0

\* A hash has at most one pending payment, which reconstructPendingPaymentFlow and
\* LnPaymentStateDeterminator take for granted.
OnePendingPerHash == \A a, b \in pending : HashOf[a] = HashOf[b] => a = b

\* One wallet pays a hash, one attempt pays it.
SingleSender == \A a, b \in Attempts : HashOf[a] = HashOf[b] => WalletOf[a] = WalletOf[b]
SingleAttempt == \A a, b \in Attempts : HashOf[a] = HashOf[b] => a = b

Recorded(a) == HasEntry("payment", a)
Places(kinds, a) == {i \in DOMAIN ledger : ledger[i].of = a /\ ledger[i].kind \in kinds}
Count(kinds, a) == Cardinality(Places(kinds, a))
Refunds(a) == Count({"void", "usdReimbursement"}, a)
PaidByLnd(a) == lnd[HashOf[a]].status = "settled" /\ lnd[HashOf[a]].by = a
\* Nobody is in the middle of resolving a payment of this hash.
Idle(a, labels) == \A p \in Procs : pc[p] \in labels => HashOfProc(p) # HashOf[a]
Resolved(a) == Recorded(a) /\ a \notin pending /\ Idle(a, {"revert", "reimburse"})

\* A resolved payment is charged exactly what the node paid: one that the node did
\* not make is given back once, by voiding or by the USD reimbursement, one that it
\* made is never given back, and the unused part of its fee is reimbursed once.
ChargedExactly ==
    \A a \in Attempts : Resolved(a) =>
        IF PaidByLnd(a)
        THEN /\ Refunds(a) = 0
             /\ Count({"feeReimbursement"}, a) =
                   IF a \in RouteKnown \/ lnd[HashOf[a]].fee = MaxFee[a] THEN 0 ELSE 1
        ELSE Refunds(a) = 1 /\ Count({"feeReimbursement"}, a) = 0

\* What is given back is never paid: a refunded payment is not in flight and does
\* not settle later (recordLnSendRevert, revertLightningPayment,
\* reimburseFailedUsdPayment).
RefundedNeverPaid ==
    \A a \in Attempts : Refunds(a) > 0 /\ lnd[HashOf[a]].by = a =>
        lnd[HashOf[a]].status = "failed"

\* No fault makes the bank pay twice: a payment is given back at most once, or has
\* its unused fee reimbursed at most once, and never both, because whoever credits
\* the wallet has first cleared the pending flag (settlePendingLnSend).
AtMostOneCredit ==
    \A a \in Attempts : Count(Kinds \ {"payment"}, a) <= 1

\* The status that the transaction history shows for a resolved payment is what
\* happened to it at the node (updateLnPaymentState, statusFromTxn).
StatusTruthful ==
    \A a \in Attempts : Resolved(a) /\ Idle(a, {"finish"}) =>
        StatusFromTxn(bundle[a], FALSE) = IF PaidByLnd(a) THEN "Success" ELSE "Failure"

\* settlePendingLnSend never clears the pending flag of a payment that is in flight.
PendingWhileInFlight ==
    [][\A a \in pending \ pending' :
          lnd[HashOf[a]].by = a => lnd[HashOf[a]].status # "inflight"]_vars

\* Every pending payment that has reached the node is resolved at last, by its attempt or,
\* after a timeout, an error or a stop of the process, by an updater.
PendingEventuallyResolved ==
    \A a \in Attempts : a \in pending /\ lnd[HashOf[a]].by = a ~> Resolved(a)
=============================================================================
