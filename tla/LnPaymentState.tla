--------------------------- MODULE LnPaymentState ---------------------------
(***************************************************************************)
(* LnPaymentStateDeterminator (domain/ledger/ln-payment-state.ts): the     *)
(* completion state of the bundle of ledger transactions that one account  *)
(* has for one payment hash.                                               *)
(*                                                                         *)
(* A bundle is the sequence of its transactions, newest first, as the code *)
(* leaves it after sortTxnsByTimestampDesc.  A transaction keeps what the  *)
(* determinator looks at: its type, whether it is a debit, and whether it  *)
(* is pending.                                                             *)
(***************************************************************************)
EXTENDS Naturals, Sequences

Txns == [type : {"payment", "lnFeeReimbursement", "invoice"},
         debit : BOOLEAN, pending : BOOLEAN]

SuccessStates == {"success", "successWithReimbursement", "successAfterRetry",
                  "successWithReimbursementAfterRetry"}
FailedStates == {"failed", "failedAfterRetry", "failedAfterSuccess",
                 "failedAfterSuccessWithReimbursement"}
PendingStates == {"pending", "pendingAfterRetry"}
LnPaymentStates == SuccessStates \cup FailedStates \cup PendingStates

\* The value of an InvalidLnPaymentTxnsBundleError.
InvalidBundle == "invalidBundle"

OfType(txns, type) == SelectSeq(txns, LAMBDA t : t.type = type)
PendingTxns(txns) == SelectSeq(txns, LAMBDA t : t.pending)

\* Drops the credits of self payments that were routed through another party.
FilterSelfPayments(txns) == SelectSeq(txns, LAMBDA t : t.type # "invoice")

DeterminePending(txns) ==
    IF Len(txns) = 1 THEN "pending"
    ELSE IF Len(txns) % 2 = 1 /\ Len(PendingTxns(txns)) = 1
         THEN "pendingAfterRetry"
         ELSE InvalidBundle

\* The newest reimbursement is the first of the bundle, so "a transaction is
\* newer than it" is "the bundle does not start with a reimbursement".
DetermineReimbursed(txns) ==
    LET payments == Len(OfType(txns, "payment"))
        reimbursements == Len(OfType(txns, "lnFeeReimbursement"))
    IN  IF payments = 1 THEN "successWithReimbursement"
        ELSE IF Head(txns).type # "lnFeeReimbursement"
             THEN "failedAfterSuccessWithReimbursement"
        ELSE IF payments > 1 /\ reimbursements = 1
             THEN "successWithReimbursementAfterRetry"
        ELSE InvalidBundle

DeterminePure(txns) ==
    LET n == Len(txns)
    IN  IF n = 1 THEN "success"
        ELSE IF n = 2 THEN "failed"
        ELSE IF n % 2 = 1 /\ Head(txns).debit THEN "successAfterRetry"
        ELSE IF n % 2 = 1 THEN "failedAfterSuccess"
        ELSE "failedAfterRetry"

\* checkTxns and the error of filterSelfPayments: an empty bundle, or the credit
\* of an invoice without a payment.
Malformed(bundle) ==
    \/ bundle = <<>>
    \/ OfType(bundle, "invoice") # <<>> /\ OfType(bundle, "payment") = <<>>

Determine(bundle) ==
    LET txns == FilterSelfPayments(bundle)
    IN  IF Malformed(bundle) THEN InvalidBundle
        ELSE IF PendingTxns(txns) # <<>> THEN DeterminePending(txns)
        ELSE IF OfType(txns, "lnFeeReimbursement") # <<>> THEN DetermineReimbursed(txns)
        ELSE DeterminePure(txns)

\* statusFromTxn (domain/wallets/tx-history.ts): what the owner of the wallet is
\* shown for a transaction with this stored state and pending flag.
NoState == "none"
StatusFromTxn(state, pending) ==
    CASE state = NoState -> IF pending THEN "Pending" ELSE "Success"
      [] state \in PendingStates -> "Pending"
      [] state \in SuccessStates -> "Success"
      [] state \in FailedStates -> "Failure"
=============================================================================
