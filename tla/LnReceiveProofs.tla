--------------------------- MODULE LnReceiveProofs ---------------------------
(***************************************************************************)
(* Proofs about LnReceive: the types, what is credited and what is marked, *)
(* the payments inside the bank, and that it implements Receipt.           *)
(***************************************************************************)
EXTENDS LnReceive, TLAPS

\* Most leaves are first-order steps: Zenon is tried first, unless a leaf cites SMT.
USE Zenon, SMT

-----------------------------------------------------------------------------
(***************************************************************************)
(* The types, and the invoice each process works on.                       *)
(***************************************************************************)
TypeInv ==
    /\ TypeOK
    /\ \A p \in Cancels \cup Senders : current[p] = HashOf[p]
    /\ \A t \in Handlers : pc[t] # "idle" => current[t] \in Hashes

\* What the steps need to know of a process that is not waiting for its first call.
LEMMA ProcTypes ==
    ASSUME TypeInv, NEW p \in Procs, p \in Handlers => pc[p] # "idle"
    PROVE  current[p] \in Hashes /\ Key(p) \in Keys
  BY ConstantsAssumption DEF TypeInv, Procs, Key, Keys

LEMMA Kinds ==
    /\ \A t \in Handlers : t \in Procs /\ t \notin Cancels /\ t \notin Senders
    /\ \A c \in Cancels : c \in Procs /\ c \notin Handlers /\ c \notin Senders
    /\ \A s \in Senders : s \in Procs /\ s \notin Handlers /\ s \notin Cancels
    /\ \A p \in Procs : p # None /\ (p \notin Handlers => p \in Cancels \cup Senders)
  BY ConstantsAssumption DEF Procs

\* The journal of a receipt stays, and the invoice it is for is recorded.
LEMMA ReceiptWritten ==
    ASSUME TypeInv, NEW t \in Handlers, RecordReceive(t)
    PROVE  /\ current[t] \in Hashes /\ current' = current
           /\ receipts'[current[t]] > 0
           /\ \A h \in Hashes : receipts[h] > 0 => receipts'[h] > 0
  <1>1. current[t] \in Hashes /\ receipts \in [Hashes -> Nat]
    BY DEF TypeInv, TypeOK, RecordReceive
  <1> QED BY <1>1, SMT DEF RecordReceive

\* The steps of a process, by what they do to the others, to its lock and to its label.
OnlyAt(p) ==
    /\ \A q \in Procs \ {p} : pc'[q] = pc[q] /\ current'[q] = current[q]
    /\ \A t \in Handlers \ {p} : result'[t] = result[t]
    /\ \A k \in Keys : lock[k] \notin {p, None} => lock'[k] = lock[k]

LEMMA GotoStep ==
    ASSUME TypeOK, NEW p \in Procs, NEW label \in PCs, Goto(p, label)
    PROVE  /\ pc' \in [Procs -> PCs] /\ pc'[p] = label
           /\ \A q \in Procs \ {p} : pc'[q] = pc[q]
  BY DEF TypeOK, Goto

LEMMA AnswerStep ==
    ASSUME TypeOK, NEW t \in Handlers, NEW r \in Results, Answer(t, r)
    PROVE  /\ result' \in [Handlers -> Results] /\ result'[t] = r
           /\ \A u \in Handlers \ {t} : result'[u] = result[u]
  BY DEF TypeOK, Answer

LEMMA ReleaseStep ==
    ASSUME TypeOK, NEW p \in Procs, Key(p) \in Keys, Release(p)
    PROVE  /\ lock' \in [Keys -> Procs \cup {None}]
           /\ \A k \in Keys : lock[k] # p => lock'[k] = lock[k]
  BY DEF TypeOK, Release

LEMMA RestLabel == \A p \in Procs : Rest(p) \in PCs /\ Rest(p) \notin Locked
  BY DEF Rest, PCs, Locked, HandlerLocked, CancelLocked, SenderLocked

LEMMA Labels ==
    /\ {"idle", "lookup", "declineLookup", "decline", "lock", "finish", "finishDecline", "done"}
          \subseteq PCs
    /\ Locked \subseteq PCs
    /\ {"refetch", "settle", "markPaid", "record", "checkStatus", "checkUnpaid", "cancel",
        "markCompleted", "checkRecorded", "checkBalance", "recordIntraledger", "cancelPaid"} = Locked
    /\ {"idle", "lookup", "declineLookup", "decline", "lock", "finish", "finishDecline", "done"}
          \cap Locked = {}
  BY DEF PCs, Locked, HandlerLocked, CancelLocked, SenderLocked

LEMMA TypeInit == Init => TypeInv
  <1> SUFFICES ASSUME Init PROVE TypeInv
    OBVIOUS
  <1>1. pc \in [Procs -> PCs] /\ result \in [Handlers -> Results] /\ lnd \in [Hashes -> LndStates]
    BY Labels DEF Init, Results, LndStates
  <1>2. current \in [Procs -> Hashes \cup {None}]
    BY ConstantsAssumption DEF Init, Procs
  <1>3. aborted \in [Procs -> BOOLEAN]
    BY DEF Init
  <1>4. TypeOK
    BY <1>1, <1>2, <1>3, ConstantsAssumption, SMT DEF Init, TypeOK
  <1>5. \A p \in Cancels \cup Senders : current[p] = HashOf[p]
    BY Kinds DEF Init
  <1>6. \A t \in Handlers : pc[t] = "idle"
    BY Kinds DEF Init
  <1> QED BY <1>4, <1>5, <1>6 DEF TypeInv

DataTypes ==
    /\ lnd \in [Hashes -> LndStates]
    /\ stored \subseteq Hashes /\ paid \subseteq Hashes
    /\ completed \subseteq Hashes /\ old \subseteq Hashes
    /\ receipts \in [Hashes -> Nat]
    /\ transfers \subseteq Senders
    /\ faults \in 0..MaxFaults

\* A process in its locked section holds its lock.
LockedBy(p) == pc[p] \in Locked => lock[Key(p)] = p

ProcStep(p) == TypeInv' /\ OnlyAt(p) /\ (LockedBy(p) => LockedBy(p)')

LEMMA MoveStep ==
    ASSUME TypeInv, NEW p \in Procs, p \in Handlers => pc[p] # "idle",
           NEW label \in PCs, Goto(p, label), UNCHANGED <<current, aborted>>, DataTypes',
           \/ UNCHANGED lock /\ (label \in Locked => pc[p] \in Locked)
           \/ Release(p) /\ label \notin Locked,
           UNCHANGED result \/ (p \in Handlers /\ \E r \in Results : Answer(p, r))
    PROVE  ProcStep(p) /\ pc'[p] = label
  <1>t. /\ TypeOK /\ aborted \in [Procs -> BOOLEAN] /\ result \in [Handlers -> Results]
        /\ current \in [Procs -> Hashes \cup {None}] /\ lock \in [Keys -> Procs \cup {None}]
    BY DEF TypeInv, TypeOK
  <1>1. /\ pc' \in [Procs -> PCs] /\ pc'[p] = label
        /\ \A q \in Procs \ {p} : pc'[q] = pc[q]
    BY <1>t, GotoStep
  <1>2. /\ lock' \in [Keys -> Procs \cup {None}]
        /\ \A k \in Keys : lock[k] \notin {p, None} => lock'[k] = lock[k]
    <2>1. Key(p) \in Keys
      BY ProcTypes
    <2>2. CASE UNCHANGED lock
      BY <2>2, <1>t
    <2>3. CASE Release(p)
      BY <2>1, <2>3, <1>t, ReleaseStep
    <2> QED BY <2>2, <2>3
  <1>3. /\ result' \in [Handlers -> Results]
        /\ \A u \in Handlers \ {p} : result'[u] = result[u]
    BY <1>t, AnswerStep
  <1>4. aborted' \in [Procs -> BOOLEAN]
    BY <1>t
  <1>5. TypeOK'
    BY <1>1, <1>2, <1>3, <1>4, <1>t DEF TypeOK, DataTypes
  <1>6. TypeInv'
    BY <1>1, <1>5, Kinds, ProcTypes DEF TypeInv
  <1>7. LockedBy(p) => LockedBy(p)'
    BY <1>1 DEF LockedBy, Key
  <1> QED BY <1>1, <1>2, <1>3, <1>6, <1>7 DEF ProcStep, OnlyAt

\* The node's answer to cancelInvoice, and what the other data may become.
LEMMA DataStep ==
    ASSUME TypeInv
    PROVE  /\ DataTypes
           /\ \A h \in Hashes : CancelInLnd(h) => lnd' \in [Hashes -> LndStates]
           /\ Fault => faults' \in 0..MaxFaults
  BY ConstantsAssumption, SMT DEF TypeInv, TypeOK, DataTypes, CancelInLnd, Fault, LndStates

LEMMA HandleStep ==
    ASSUME TypeInv, NEW t \in Handlers, Handle(t)
    PROVE  ProcStep(t)
  <1> USE DEF locks, invoiceVars, journals
  <1>t. /\ t \in Procs /\ DataTypes /\ TypeOK
        /\ \A h \in Hashes : CancelInLnd(h) => lnd' \in [Hashes -> LndStates]
    BY Kinds, DataStep DEF TypeInv
  <1>i. pc[t] # "idle" /\ UNCHANGED <<current, aborted>>
    BY DEF Handle, Lookup, DeclineLookup, Decline, Refetch, Settle, MarkPaid, RecordReceive,
       Finish, FinishDecline
  <1>c. current[t] \in Hashes
    BY <1>i, <1>t, ProcTypes
  <1>r. {"none", "held", "settled", "canceled", "paid", "notPaid"} = Results
    BY DEF Results
  <1>g. ASSUME NEW label \in PCs, Goto(t, label), DataTypes',
               \/ UNCHANGED lock /\ (label \in Locked => pc[t] \in Locked)
               \/ Release(t) /\ label \notin Locked,
               UNCHANGED result \/ \E r \in Results : Answer(t, r)
        PROVE  ProcStep(t)
    BY <1>g, <1>t, <1>i, MoveStep
  <1>1. CASE Lookup(t) \/ DeclineLookup(t)
    <2>1. DataTypes' /\ UNCHANGED lock
      BY <1>1, <1>t DEF Lookup, DeclineLookup, DataTypes
    <2>2. PICK label \in {"finish", "lock", "declineLookup", "decline", "finishDecline"} : Goto(t, label)
      BY <1>1 DEF Lookup, DeclineLookup, AfterDecline
    <2>3. UNCHANGED result \/ \E r \in Results : Answer(t, r)
      BY <1>1, <1>r DEF Lookup, DeclineLookup
    <2> QED BY <2>1, <2>2, <2>3, <1>g, Labels
  <1>2. CASE Decline(t)
    <2>1. DataTypes' /\ UNCHANGED lock
      BY <1>2, <1>t, <1>c DEF Decline, DataTypes
    <2>2. PICK label \in {"finish", "finishDecline"} : Goto(t, label) /\ Answer(t, "paid")
      BY <1>2 DEF Decline, AfterDecline
    <2> QED BY <2>1, <2>2, <1>g, <1>r, Labels
  <1>3. CASE Refetch(t)
    <2>1. DataTypes' /\ pc[t] \in Locked
      BY <1>3, <1>t, Labels DEF Refetch, DataTypes
    <2>2. CASE current[t] \in completed
      <3>1. Goto(t, "finish") /\ Release(t) /\ \E r \in Results : Answer(t, r)
        BY <1>3, <2>2, <1>r DEF Refetch, LeaveFor
      <3> QED BY <2>1, <3>1, <1>g, Labels
    <2>3. CASE current[t] \notin completed
      <3>1. UNCHANGED <<lock, result>> /\ \E label \in {"markPaid", "settle"} : Goto(t, label)
        BY <1>3, <2>3 DEF Refetch
      <3> QED BY <2>1, <3>1, <1>g, Labels
    <2> QED BY <2>2, <2>3
  <1>4. CASE Settle(t)
    <2>1. DataTypes' /\ pc[t] \in Locked /\ UNCHANGED result
      BY <1>4, <1>t, <1>c, Labels DEF Settle, DataTypes, LndStates
    <2>2. \/ Goto(t, "markPaid") /\ UNCHANGED lock
          \/ Goto(t, Rest(t)) /\ Release(t)
      BY <1>4 DEF Settle, Leave, LeaveFor
    <2> QED BY <2>1, <2>2, <1>g, <1>t, Labels, RestLabel
  <1>5. CASE MarkPaid(t)
    <2>1. DataTypes' /\ pc[t] \in Locked /\ UNCHANGED <<result, lock>> /\ Goto(t, "record")
      BY <1>5, <1>t, <1>c, Labels DEF MarkPaid, MarkAsPaid, DataTypes
    <2> QED BY <2>1, <1>g, Labels
  <1>6. CASE RecordReceive(t)
    <2>1. DataTypes' /\ Answer(t, "paid") /\ Goto(t, "finish") /\ Release(t)
      BY <1>6, <1>t, <1>c, SMT DEF RecordReceive, LeaveFor, DataTypes
    <2> QED BY <2>1, <1>g, <1>r, Labels
  <1>7. CASE Finish(t) \/ FinishDecline(t)
    <2>1. UNCHANGED <<result, lock, lnd, old, journals, faults>> /\ Goto(t, "idle")
      BY <1>7, Zenon DEF Finish, FinishDecline
    <2>2. MarkAsPaid(current[t]) \/ MarkAsProcessingCompleted(current[t]) \/ UNCHANGED invoiceVars
      BY <1>7 DEF Finish, FinishDecline
    <2>3. DataTypes'
      BY <2>1, <2>2, <1>t, <1>c DEF MarkAsPaid, MarkAsProcessingCompleted, DataTypes
    <2> QED BY <2>1, <2>3, <1>g, Labels
  <1> QED BY <1>1, <1>2, <1>3, <1>4, <1>5, <1>6, <1>7 DEF Handle

LEMMA StartStep ==
    ASSUME TypeInv, NEW t \in Handlers, NEW h \in Hashes, HandleHeldInvoice(t, h)
    PROVE  /\ ProcStep(t) /\ pc'[t] \in {"lookup", "declineLookup"}
           /\ current'[t] = h /\ result'[t] = "none"
           /\ UNCHANGED <<lock, lnd, stored, paid, completed, old, receipts, transfers>>
  <1> USE DEF locks, invoiceVars, journals
  <1>t. /\ t \in Procs /\ TypeOK /\ "none" \in Results /\ aborted \in [Procs -> BOOLEAN]
        /\ current \in [Procs -> Hashes \cup {None}]
        /\ \A p \in Cancels \cup Senders : current[p] = HashOf[p]
        /\ \A u \in Handlers : pc[u] # "idle" => current[u] \in Hashes
    BY Kinds DEF TypeInv, TypeOK, Results
  <1>1. UNCHANGED <<lock, aborted, lnd, stored, paid, completed, old, receipts, transfers, faults>>
    BY DEF HandleHeldInvoice
  <1>2. PICK label \in {"lookup", "declineLookup"} : Goto(t, label)
    BY DEF HandleHeldInvoice
  <1>3. /\ pc' \in [Procs -> PCs] /\ pc'[t] = label /\ \A q \in Procs \ {t} : pc'[q] = pc[q]
    BY <1>2, <1>t, GotoStep, Labels
  <1>4. /\ result' \in [Handlers -> Results] /\ result'[t] = "none"
        /\ \A u \in Handlers \ {t} : result'[u] = result[u]
    BY <1>t, AnswerStep DEF HandleHeldInvoice
  <1>5. /\ current' \in [Procs -> Hashes \cup {None}] /\ current'[t] = h
        /\ \A q \in Procs \ {t} : current'[q] = current[q]
    BY <1>t DEF HandleHeldInvoice
  <1>6. aborted' \in [Procs -> BOOLEAN]
    BY <1>1, <1>t
  <1>7. TypeOK'
    BY <1>1, <1>3, <1>4, <1>5, <1>6, <1>t DEF TypeOK
  <1>8. TypeInv'
    <2>1. \A p \in Cancels \cup Senders : current'[p] = HashOf[p]
      BY <1>5, <1>t, Kinds
    <2>2. \A u \in Handlers : pc'[u] # "idle" => current'[u] \in Hashes
      BY <1>3, <1>5, <1>t, Kinds
    <2> QED BY <1>7, <2>1, <2>2 DEF TypeInv
  <1>9. pc'[t] \notin Locked
    BY <1>3, Labels
  <1> QED BY <1>1, <1>3, <1>4, <1>5, <1>8, <1>9, Kinds DEF ProcStep, OnlyAt, LockedBy

LEMMA CancelStep ==
    ASSUME TypeInv, NEW c \in Cancels, RequestCancel(c) \/ CancelInvoice(c)
    PROVE  ProcStep(c) /\ UNCHANGED <<current, result>>
  <1> USE DEF locks, invoiceVars, journals
  <1>t. /\ c \in Procs /\ c \notin Handlers /\ DataTypes /\ current[c] \in Hashes
        /\ \A h \in Hashes : CancelInLnd(h) => lnd' \in [Hashes -> LndStates]
    BY Kinds, DataStep, ProcTypes
  <1>i. UNCHANGED <<current, result, aborted, old, journals, faults>>
    BY Zenon DEF CancelInvoice, RequestCancel, CheckStatus, CheckUnpaid, Cancel, MarkCompleted
  <1>g. ASSUME NEW label \in PCs, Goto(c, label), DataTypes',
               \/ UNCHANGED lock /\ (label \in Locked => pc[c] \in Locked)
               \/ Release(c) /\ label \notin Locked
        PROVE  ProcStep(c)
    BY <1>g, <1>t, <1>i, MoveStep
  <1>1. CASE RequestCancel(c)
    <2>1. DataTypes' /\ UNCHANGED lock /\ Goto(c, "lock")
      BY <1>1, <1>t DEF RequestCancel, DataTypes
    <2> QED BY <2>1, <1>g, <1>i, Labels
  <1>2. CASE CheckStatus(c) \/ CheckUnpaid(c)
    <2>1. DataTypes' /\ pc[c] \in Locked
      BY <1>2, <1>t, Labels DEF CheckStatus, CheckUnpaid, DataTypes
    <2>2. \/ UNCHANGED lock /\ \E label \in {"checkUnpaid", "cancel"} : Goto(c, label)
          \/ Goto(c, Rest(c)) /\ Release(c)
      BY <1>2 DEF CheckStatus, CheckUnpaid, Leave, LeaveFor
    <2> QED BY <2>1, <2>2, <1>g, <1>i, <1>t, Labels, RestLabel
  <1>3. CASE Cancel(c)
    <2>1. DataTypes' /\ pc[c] \in Locked /\ UNCHANGED lock /\ Goto(c, "markCompleted")
      BY <1>3, <1>t, Labels DEF Cancel, DataTypes
    <2> QED BY <2>1, <1>g, <1>i, Labels
  <1>4. CASE MarkCompleted(c)
    <2>1. DataTypes' /\ Goto(c, Rest(c)) /\ Release(c)
      BY <1>4, <1>t DEF MarkCompleted, MarkAsProcessingCompleted, DataTypes, Leave, LeaveFor
    <2> QED BY <2>1, <1>g, <1>i, <1>t, RestLabel
  <1> QED BY <1>1, <1>2, <1>3, <1>4, <1>i DEF CancelInvoice

LEMMA SenderStep ==
    ASSUME TypeInv, NEW s \in Senders, PayInvoice(s) \/ SendIntraledger(s)
    PROVE  ProcStep(s) /\ UNCHANGED <<current, result>>
  <1> USE DEF locks, invoiceVars, journals
  <1>t. /\ s \in Procs /\ s \notin Handlers /\ DataTypes /\ current[s] \in Hashes
        /\ \A h \in Hashes : CancelInLnd(h) => lnd' \in [Hashes -> LndStates]
    BY Kinds, DataStep, ProcTypes
  <1>i. UNCHANGED <<current, result, aborted, old, receipts, faults>>
    BY Zenon DEF SendIntraledger, PayInvoice, CheckRecorded, CheckBalance, RecordIntraledger,
       CancelPaid, MarkPaidIntraledger
  <1>g. ASSUME NEW label \in PCs, Goto(s, label), DataTypes',
               \/ UNCHANGED lock /\ (label \in Locked => pc[s] \in Locked)
               \/ Release(s) /\ label \notin Locked
        PROVE  ProcStep(s)
    BY <1>g, <1>t, <1>i, MoveStep
  <1>1. CASE PayInvoice(s)
    <2>1. DataTypes' /\ UNCHANGED lock /\ \E label \in {"lock", "done"} : Goto(s, label)
      BY <1>1, <1>t DEF PayInvoice, DataTypes
    <2> QED BY <2>1, <1>g, <1>i, Labels
  <1>2. CASE CheckRecorded(s) \/ CheckBalance(s)
    <2>1. DataTypes' /\ pc[s] \in Locked
      BY <1>2, <1>t, Labels DEF CheckRecorded, CheckBalance, DataTypes
    <2>2. \/ UNCHANGED lock /\ \E label \in {"checkBalance", "recordIntraledger"} : Goto(s, label)
          \/ Goto(s, Rest(s)) /\ Release(s)
      BY <1>2 DEF CheckRecorded, CheckBalance, Leave, LeaveFor
    <2> QED BY <2>1, <2>2, <1>g, <1>i, <1>t, Labels, RestLabel
  <1>3. CASE RecordIntraledger(s) \/ CancelPaid(s)
    <2>1. DataTypes' /\ pc[s] \in Locked /\ UNCHANGED lock
      BY <1>3, <1>t, Labels DEF RecordIntraledger, CancelPaid, DataTypes
    <2>2. \E label \in {"cancelPaid", "markPaid"} : Goto(s, label)
      BY <1>3 DEF RecordIntraledger, CancelPaid
    <2> QED BY <2>1, <2>2, <1>g, <1>i, Labels
  <1>4. CASE MarkPaidIntraledger(s)
    <2>1. DataTypes' /\ Goto(s, Rest(s)) /\ Release(s)
      BY <1>4, <1>t DEF MarkPaidIntraledger, MarkAsPaid, DataTypes, Leave, LeaveFor
    <2> QED BY <2>1, <1>g, <1>i, <1>t, RestLabel
  <1> QED BY <1>1, <1>2, <1>3, <1>4, <1>i DEF SendIntraledger

LEMMA LockStep ==
    ASSUME TypeInv, NEW p \in Procs, AcquireLock(p) \/ LockUnavailable(p) \/ Interrupt(p)
    PROVE  /\ ProcStep(p)
           /\ UNCHANGED <<current, result, lnd, stored, paid, completed, old, receipts, transfers>>
           /\ \/ pc[p] = "lock" /\ lock[Key(p)] = None /\ pc'[p] = AfterLockAcquired(p)
              \/ pc'[p] = Rest(p)
  <1> USE DEF locks, invoiceVars, journals
  <1>t. /\ DataTypes /\ TypeOK /\ aborted \in [Procs -> BOOLEAN] /\ (Fault => faults' \in 0..MaxFaults)
    BY DataStep DEF TypeInv, TypeOK
  <1>i. /\ pc[p] # "idle" /\ Key(p) \in Keys
        /\ UNCHANGED <<current, result, lnd, stored, paid, completed, old, receipts, transfers>>
    <2>1. /\ pc[p] # "idle"
          /\ UNCHANGED <<current, result, lnd, stored, paid, completed, old, receipts, transfers>>
      BY DEF AcquireLock, LockUnavailable, Interrupt
    <2> QED BY <2>1, ProcTypes
  <1>d. DataTypes'
    <2>1. faults' \in 0..MaxFaults
      BY <1>t DEF AcquireLock, LockUnavailable, Interrupt, DataTypes
    <2> QED BY <2>1, <1>i, <1>t DEF DataTypes
  <1>g. ASSUME NEW label \in PCs, Goto(p, label), UNCHANGED aborted,
               \/ UNCHANGED lock /\ (label \in Locked => pc[p] \in Locked)
               \/ Release(p) /\ label \notin Locked
        PROVE  ProcStep(p) /\ pc'[p] = label
    BY <1>g, <1>d, <1>i, MoveStep
  <1>1. CASE AcquireLock(p)
    <2>a. AfterLockAcquired(p) \in PCs
      BY Labels DEF AfterLockAcquired
    <2>1. /\ pc' \in [Procs -> PCs] /\ pc'[p] = AfterLockAcquired(p)
          /\ \A q \in Procs \ {p} : pc'[q] = pc[q]
      BY <1>1, <2>a, <1>t, GotoStep DEF AcquireLock
    <2>2. /\ lock' \in [Keys -> Procs \cup {None}] /\ lock'[Key(p)] = p
          /\ \A k \in Keys : lock[k] \notin {p, None} => lock'[k] = lock[k]
      BY <1>1, <1>i, <1>t DEF AcquireLock, TypeOK
    <2>3. aborted' \in [Procs -> BOOLEAN]
      BY <1>1, <1>t DEF AcquireLock
    <2>4. TypeOK'
      BY <2>1, <2>2, <2>3, <1>d, <1>i, <1>t DEF TypeOK, DataTypes
    <2>5. TypeInv'
      BY <2>1, <2>4, <1>i, Kinds, ProcTypes DEF TypeInv
    <2>6. Key(p)' = Key(p)
      BY <1>i DEF Key
    <2>7. pc[p] = "lock" /\ lock[Key(p)] = None
      BY <1>1 DEF AcquireLock
    <2> QED BY <2>1, <2>2, <2>5, <2>6, <2>7, <1>i DEF ProcStep, OnlyAt, LockedBy
  <1>2. CASE LockUnavailable(p)
    <2>1. Goto(p, Rest(p)) /\ UNCHANGED <<lock, aborted>>
      BY <1>2 DEF LockUnavailable
    <2> QED BY <2>1, <1>g, <1>i, RestLabel
  <1>3. CASE Interrupt(p)
    <2>1. Goto(p, Rest(p)) /\ UNCHANGED aborted /\ (UNCHANGED lock \/ Release(p))
      BY <1>3, Zenon DEF Interrupt, Leave, LeaveFor
    <2> QED BY <2>1, <1>g, <1>i, RestLabel
  <1> QED BY <1>1, <1>2, <1>3

LEMMA OutsideStep ==
    ASSUME TypeInv, \/ \E h \in Hashes : Add(h) \/ Environment(h)
                    \/ \E k \in Keys : LoseLock(k)
                    \/ UNCHANGED vars
    PROVE  /\ TypeInv' /\ UNCHANGED <<pc, current, result, paid, completed, receipts, transfers>>
           /\ ~MayLoseLock => UNCHANGED lock
  <1> USE DEF locks, invoiceVars, journals
  <1>t. /\ DataTypes /\ TypeOK /\ (Fault => faults' \in 0..MaxFaults)
    BY DataStep DEF TypeInv
  <1>a. aborted \in [Procs -> BOOLEAN]
    BY DEF TypeInv, TypeOK
  <1>g. ASSUME UNCHANGED <<pc, current, result>>, DataTypes', aborted' \in [Procs -> BOOLEAN],
               lock' \in [Keys -> Procs \cup {None}]
        PROVE  TypeInv'
    <2>1. TypeOK'
      BY <1>g, <1>t DEF TypeOK, DataTypes
    <2> QED BY <1>g, <2>1 DEF TypeInv
  <1>1. ASSUME NEW h \in Hashes, Add(h) \/ Environment(h)
        PROVE  /\ TypeInv' /\ UNCHANGED <<pc, current, result, lock, paid, completed, receipts, transfers>>
    <2>1. UNCHANGED <<pc, current, result, lock, aborted, paid, completed, receipts, transfers, faults>>
      BY <1>1, Zenon DEF Add, RegisterInvoice, PersistInvoice, Environment, HtlcArrives, HtlcTimeout,
         LndExpire, LndRemove, LndStep, Age
    <2>2. /\ stored' \in {stored, stored \cup {h}} /\ old' \in {old, old \cup {h}}
          /\ lnd' = lnd \/ \E to \in LndStates : lnd' = [lnd EXCEPT ![h] = to]
      BY <1>1 DEF Add, RegisterInvoice, PersistInvoice, Environment, HtlcArrives, HtlcTimeout,
         LndExpire, LndRemove, LndStep, Age, LndStates
    <2>3. DataTypes'
      BY <2>1, <2>2, <1>t DEF DataTypes
    <2>4. aborted' \in [Procs -> BOOLEAN]
      BY <2>1, <1>a
    <2>5. lock' \in [Keys -> Procs \cup {None}]
      BY <2>1, <1>t DEF TypeOK
    <2> QED BY <2>1, <2>3, <2>4, <2>5, <1>g
  <1>2. ASSUME NEW k \in Keys, LoseLock(k)
        PROVE  /\ TypeInv' /\ MayLoseLock
               /\ UNCHANGED <<pc, current, result, paid, completed, receipts, transfers>>
    <2>1. /\ UNCHANGED <<pc, current, result, lnd, stored, paid, completed, old, receipts, transfers>>
          /\ MayLoseLock /\ faults' \in 0..MaxFaults
      BY <1>2, <1>t DEF LoseLock
    <2>2. lock' \in [Keys -> Procs \cup {None}]
      BY <1>2, <1>t DEF LoseLock, TypeOK
    <2>3. aborted' \in [Procs -> BOOLEAN]
      BY <1>2, <1>a DEF LoseLock
    <2> QED BY <2>1, <2>2, <2>3, <1>g, <1>t DEF DataTypes
  <1>3. CASE UNCHANGED vars
    <2>1. aborted' \in [Procs -> BOOLEAN] /\ UNCHANGED lock
      BY <1>3, <1>a DEF vars
    <2>2. UNCHANGED <<pc, current, result, lnd, stored, paid, completed, old, receipts, transfers, faults>>
      BY <1>3 DEF vars
    <2>3. lock' \in [Keys -> Procs \cup {None}]
      BY <2>1, <1>t DEF TypeOK
    <2> QED BY <2>1, <2>2, <2>3, <1>g, <1>t DEF DataTypes
  <1> QED BY <1>1, <1>2, <1>3

LEMMA NextCases ==
    ASSUME TypeInv, [Next]_vars
    PROVE  \/ \E t \in Handlers : Handle(t) \/ \E h \in Hashes : HandleHeldInvoice(t, h)
           \/ \E c \in Cancels : RequestCancel(c) \/ CancelInvoice(c)
           \/ \E s \in Senders : PayInvoice(s) \/ SendIntraledger(s)
           \/ \E p \in Procs : AcquireLock(p) \/ LockUnavailable(p) \/ Interrupt(p)
           \/ \/ \E h \in Hashes : Add(h) \/ Environment(h)
              \/ \E k \in Keys : LoseLock(k)
              \/ UNCHANGED vars
  BY Zenon DEF Next

LEMMA TypeNext ==
    ASSUME TypeInv, [Next]_vars
    PROVE  /\ TypeInv'
           /\ \/ \E p \in Procs : ProcStep(p)
              \/ UNCHANGED <<pc, current, result>> /\ (~MayLoseLock => UNCHANGED lock)
  <1>1. CASE \E t \in Handlers : Handle(t) \/ \E h \in Hashes : HandleHeldInvoice(t, h)
    BY <1>1, HandleStep, StartStep, Kinds DEF ProcStep
  <1>2. CASE \E c \in Cancels : RequestCancel(c) \/ CancelInvoice(c)
    BY <1>2, CancelStep, Kinds DEF ProcStep
  <1>3. CASE \E s \in Senders : PayInvoice(s) \/ SendIntraledger(s)
    BY <1>3, SenderStep, Kinds DEF ProcStep
  <1>4. CASE \E p \in Procs : AcquireLock(p) \/ LockUnavailable(p) \/ Interrupt(p)
    BY <1>4, LockStep DEF ProcStep
  <1>5. CASE \/ \E h \in Hashes : Add(h) \/ Environment(h)
             \/ \E k \in Keys : LoseLock(k)
             \/ UNCHANGED vars
    BY <1>5, OutsideStep
  <1> QED BY <1>1, <1>2, <1>3, <1>4, <1>5, NextCases

LEMMA TypeAlways == Spec => []TypeInv
  BY TypeInit, TypeNext, PTL DEF Spec

\* Every variable of LnReceive keeps its type, whatever is interrupted or lost.
THEOREM TypeCorrect == Spec => []TypeOK
  <1>1. TypeInv => TypeOK
    BY DEF TypeInv
  <1> QED BY <1>1, TypeAlways, PTL

-----------------------------------------------------------------------------
(***************************************************************************)
(* The inductive invariants.  ClaimInv needs no lock: what the node has    *)
(* settled stays settled.  The others rest on the locks.                   *)
(***************************************************************************)
Closed == {"canceled", "removed"}

ClaimInv ==
    /\ \A t \in Handlers :
          result[t] = "settled" \/ pc[t] \in {"markPaid", "record"} =>
             current[t] \in Hashes /\ lnd[current[t]] = "settled"
    /\ CreditedOnlyIfSettled

LockInv == \A p \in Procs : LockedBy(p)

\* A handler past its second look at the wallet invoice works on one not credited yet.
OnceInv ==
    /\ \A h \in Hashes : receipts[h] > 0 => receipts[h] = 1 /\ h \in completed
    /\ \A t \in Handlers : pc[t] \in {"settle", "markPaid", "record"} => receipts[current[t]] = 0
    /\ \A t \in Handlers : pc[t] = "record" => current[t] \in completed

\* A sender past isLnTxRecorded is the first of its wallet.
TransferInv ==
    /\ NoSecondTransfer
    /\ \A s \in Senders : pc[s] \in {"checkBalance", "recordIntraledger"} =>
          \A r \in transfers : ~(HashOf[r] = HashOf[s] /\ WalletOf[r] = WalletOf[s])

\* A cancellation past a check still knows what it checked: the lock keeps handlers out.
CancelInv ==
    /\ \A h \in stored : lnd[h] # "none"
    /\ \A c \in Cancels :
          /\ pc[c] \in {"checkUnpaid", "cancel"} => current[c] \in stored
          /\ pc[c] = "cancel" => lnd[current[c]] # "settled"
          /\ pc[c] = "markCompleted" => lnd[current[c]] \in Closed

FlagsInv ==
    /\ CancelInv
    /\ FlagsTruthful
    /\ \A h \in completed \ paid : lnd[h] \in Closed
    /\ \A t \in Handlers :
          /\ result[t] = "canceled" => current[t] \in Hashes /\ lnd[current[t]] \in Closed
          /\ pc[t] \in {"declineLookup", "decline"} => result[t] = "none"
          /\ pc[t] = "finish" /\ result[t] = "paid" =>
                current[t] \in paid \/ IsLnTxRecorded(current[t])
    /\ \A s \in Senders : pc[s] \in {"cancelPaid", "markPaid"} => s \in transfers

-----------------------------------------------------------------------------
\* Every process either stays where it is or takes a step of its own.
Requests(p) ==
    \/ p \in Handlers /\ (Handle(p) \/ \E h \in Hashes : HandleHeldInvoice(p, h))
    \/ p \in Cancels /\ (RequestCancel(p) \/ CancelInvoice(p))
    \/ p \in Senders /\ (PayInvoice(p) \/ SendIntraledger(p))
Locking(p) == AcquireLock(p) \/ LockUnavailable(p) \/ Interrupt(p)
Stays(p) == pc'[p] = pc[p] /\ current'[p] = current[p] /\ (p \in Handlers => result'[p] = result[p])

LEMMA Moves ==
    ASSUME TypeInv, [Next]_vars
    PROVE  \A p \in Procs : Stays(p) \/ Requests(p) \/ Locking(p)
  <1> SUFFICES ASSUME NEW p \in Procs, ~Stays(p)
               PROVE  Requests(p) \/ Locking(p)
    OBVIOUS
  <1>o. ASSUME NEW q \in Procs, ProcStep(q)
        PROVE  q = p
    BY <1>o DEF ProcStep, OnlyAt, Stays
  <1>1. CASE \E t \in Handlers : Handle(t) \/ \E h \in Hashes : HandleHeldInvoice(t, h)
    BY <1>1, <1>o, HandleStep, StartStep, Kinds DEF Requests
  <1>2. CASE \E c \in Cancels : RequestCancel(c) \/ CancelInvoice(c)
    BY <1>2, <1>o, CancelStep, Kinds DEF Requests
  <1>3. CASE \E s \in Senders : PayInvoice(s) \/ SendIntraledger(s)
    BY <1>3, <1>o, SenderStep, Kinds DEF Requests
  <1>4. CASE \E q \in Procs : AcquireLock(q) \/ LockUnavailable(q) \/ Interrupt(q)
    BY <1>4, <1>o, LockStep DEF Locking
  <1>5. CASE \/ \E h \in Hashes : Add(h) \/ Environment(h)
             \/ \E k \in Keys : LoseLock(k)
             \/ UNCHANGED vars
    BY <1>5, OutsideStep DEF Stays
  <1> QED BY <1>1, <1>2, <1>3, <1>4, <1>5, NextCases

\* What a step may do to the invoices in the node, to the flags and to the journals.
LndKept(h) ==
    /\ lnd[h] = "settled" => lnd'[h] = "settled"
    /\ lnd[h] \in Closed => lnd'[h] \in Closed
    /\ lnd[h] # "none" => lnd'[h] # "none"

\* The life of an invoice in the node; only a handler that settles it leads to "settled".
LndMoves == {<<"none", "open">>, <<"open", "held">>, <<"held", "settled">>, <<"settled", "settled">>,
             <<"open", "canceled">>, <<"held", "canceled">>, <<"canceled", "removed">>}
LndMove(h, to) == <<lnd[h], to>> \in LndMoves /\ lnd' = [lnd EXCEPT ![h] = to]

LEMMA NodeStep ==
    ASSUME TypeInv, [Next]_vars
    PROVE  \/ UNCHANGED lnd
           \/ \E h \in Hashes, to \in LndStates : LndMove(h, to) /\ to # "settled"
           \/ \E t \in Handlers :
                 pc[t] = "settle" /\ current[t] \in Hashes /\ Settle(t) /\ LndMove(current[t], "settled")
  <1> USE DEF locks, invoiceVars, journals
  <1> DEFINE Kept == UNCHANGED lnd \/ \E h \in Hashes, to \in LndStates : LndMove(h, to) /\ to # "settled"
  <1>b. ASSUME NEW h \in Hashes, CancelInLnd(h) PROVE Kept
    BY <1>b DEF CancelInLnd, LndMove, LndMoves, LndStates
  <1>1. ASSUME NEW t \in Handlers, Handle(t), ~Settle(t)
        PROVE  Kept
    <2>1. pc[t] # "idle" /\ (UNCHANGED lnd \/ CancelInLnd(current[t]))
      BY <1>1 DEF Handle, Lookup, DeclineLookup, Decline, Refetch, MarkPaid, RecordReceive,
         Finish, FinishDecline
    <2> QED BY <2>1, <1>b DEF TypeInv
  <1>2. ASSUME NEW t \in Handlers, Settle(t)
        PROVE  \/ UNCHANGED lnd
               \/ pc[t] = "settle" /\ current[t] \in Hashes /\ LndMove(current[t], "settled")
    BY <1>2 DEF Settle, LndMove, LndMoves, TypeInv
  <1>3. ASSUME NEW t \in Handlers, NEW h \in Hashes, HandleHeldInvoice(t, h)
        PROVE  Kept
    BY <1>3, StartStep
  <1>4. ASSUME NEW c \in Cancels, RequestCancel(c) \/ CancelInvoice(c)
        PROVE  Kept
    <2>1. UNCHANGED lnd \/ CancelInLnd(current[c])
      BY <1>4, Zenon DEF CancelInvoice, RequestCancel, CheckStatus, CheckUnpaid, Cancel, MarkCompleted
    <2> QED BY <2>1, <1>b, ProcTypes, Kinds
  <1>5. ASSUME NEW s \in Senders, PayInvoice(s) \/ SendIntraledger(s)
        PROVE  Kept
    <2>1. UNCHANGED lnd \/ CancelInLnd(current[s])
      BY <1>5, Zenon DEF SendIntraledger, PayInvoice, CheckRecorded, CheckBalance, RecordIntraledger,
         CancelPaid, MarkPaidIntraledger
    <2> QED BY <2>1, <1>b, ProcTypes, Kinds
  <1>6. ASSUME NEW p \in Procs, AcquireLock(p) \/ LockUnavailable(p) \/ Interrupt(p)
        PROVE  Kept
    BY <1>6, LockStep
  <1>7. ASSUME \/ \E h \in Hashes : Add(h) \/ Environment(h)
               \/ \E k \in Keys : LoseLock(k)
               \/ UNCHANGED vars
        PROVE  Kept
    <2>1. CASE \E h \in Hashes : Add(h) \/ Environment(h)
      BY <2>1 DEF Add, RegisterInvoice, PersistInvoice, Environment, HtlcArrives, HtlcTimeout,
         LndExpire, LndRemove, LndStep, Age, LndMove, LndMoves, LndStates
    <2>2. CASE UNCHANGED vars \/ \E k \in Keys : LoseLock(k)
      BY <2>2 DEF LoseLock, vars
    <2> QED BY <1>7, <2>1, <2>2
  <1> HIDE DEF Kept
  <1>8. \/ Kept
        \/ \E t \in Handlers :
              pc[t] = "settle" /\ current[t] \in Hashes /\ Settle(t) /\ LndMove(current[t], "settled")
    <2>1. UNCHANGED lnd => Kept
      BY DEF Kept
    <2> QED BY <2>1, <1>1, <1>2, <1>3, <1>4, <1>5, <1>6, <1>7, NextCases
  <1> QED BY <1>8 DEF Kept

LEMMA NodeNext ==
    ASSUME TypeInv, [Next]_vars
    PROVE  \A h \in Hashes :
              /\ LndKept(h)
              /\ lnd'[h] = "settled" =>
                    lnd[h] = "settled" \/ \E t \in Handlers : pc[t] = "settle" /\ current[t] = h
  <1>t. lnd \in [Hashes -> LndStates]
    BY DEF TypeInv, TypeOK
  <1>1. CASE UNCHANGED lnd
    BY <1>1 DEF LndKept
  <1>2. ASSUME NEW g \in Hashes, NEW to, LndMove(g, to)
        PROVE  \A h \in Hashes : LndKept(h) /\ (h # g => lnd'[h] = lnd[h]) /\ lnd'[g] = to
    BY <1>2, <1>t DEF LndMove, LndMoves, LndKept, Closed
  <1> QED BY <1>1, <1>2, NodeStep

LEMMA JournalNext ==
    ASSUME TypeInv, [Next]_vars
    PROVE  /\ receipts' = receipts \/ \E t \in Handlers : RecordReceive(t)
           /\ transfers' = transfers \/ \E s \in Senders : RecordIntraledger(s)
           /\ completed \subseteq completed'
           /\ paid \subseteq paid'
           /\ stored \subseteq stored'
  <1> USE DEF locks, invoiceVars, journals
  <1>1. CASE \E t \in Handlers : Handle(t) \/ \E h \in Hashes : HandleHeldInvoice(t, h)
    BY <1>1 DEF Handle, HandleHeldInvoice, Lookup, DeclineLookup, Decline, Refetch, Settle, MarkPaid,
       RecordReceive, Finish, FinishDecline, MarkAsPaid, MarkAsProcessingCompleted
  <1>2. CASE \E c \in Cancels : RequestCancel(c) \/ CancelInvoice(c)
    BY <1>2 DEF CancelInvoice, RequestCancel, CheckStatus, CheckUnpaid, Cancel, MarkCompleted,
       MarkAsProcessingCompleted
  <1>3. CASE \E s \in Senders : PayInvoice(s) \/ SendIntraledger(s)
    BY <1>3 DEF SendIntraledger, PayInvoice, CheckRecorded, CheckBalance, RecordIntraledger,
       CancelPaid, MarkPaidIntraledger, MarkAsPaid
  <1>4. CASE \E p \in Procs : AcquireLock(p) \/ LockUnavailable(p) \/ Interrupt(p)
    BY <1>4, LockStep
  <1>5. CASE \/ \E h \in Hashes : Add(h) \/ Environment(h)
             \/ \E k \in Keys : LoseLock(k)
             \/ UNCHANGED vars
    <2>1. stored \subseteq stored'
      BY <1>5 DEF Add, RegisterInvoice, PersistInvoice, Environment, HtlcArrives, HtlcTimeout,
         LndExpire, LndRemove, LndStep, Age, LoseLock, vars
    <2> QED BY <1>5, <2>1, OutsideStep
  <1> QED BY <1>1, <1>2, <1>3, <1>4, <1>5, NextCases

-----------------------------------------------------------------------------
\* Locking changes no data, and brings a process to the start of its section or to its rest.
LEMMA LockingStep ==
    ASSUME TypeInv, NEW p \in Procs, Locking(p)
    PROVE  /\ pc'[p] \in {"refetch", "checkStatus", "checkRecorded", "idle", "done"}
           /\ UNCHANGED <<current, result, lnd, stored, paid, completed, old, receipts, transfers>>
  BY LockStep DEF Locking, AfterLockAcquired, Rest

LEMMA ClaimNext ==
    ASSUME TypeInv, ClaimInv, [Next]_vars
    PROVE  ClaimInv'
  <1> USE DEF locks, invoiceVars, journals
  <1>t. /\ pc \in [Procs -> PCs] /\ result \in [Handlers -> Results] /\ lnd \in [Hashes -> LndStates]
        /\ receipts \in [Hashes -> Nat]
    BY DEF TypeInv, TypeOK
  <1>k. \A h \in Hashes : lnd[h] = "settled" => lnd'[h] = "settled"
    BY NodeNext DEF LndKept
  <1>1. ASSUME NEW u \in Handlers, result'[u] = "settled" \/ pc'[u] \in {"markPaid", "record"}
        PROVE  current'[u] \in Hashes /\ lnd'[current'[u]] = "settled"
    <2>u. u \in Procs /\ (pc[u] # "idle" => current[u] \in Hashes)
      BY Kinds DEF TypeInv
    <2>i. result[u] = "settled" \/ pc[u] \in {"markPaid", "record"} =>
             current[u] \in Hashes /\ lnd[current[u]] = "settled"
      BY DEF ClaimInv
    <2>s. ASSUME lnd[current[u]] = "settled", current'[u] = current[u], pc[u] # "idle"
          PROVE  current'[u] \in Hashes /\ lnd'[current'[u]] = "settled"
      BY <2>s, <2>u, <1>k
    <2>1. CASE Handle(u)
      <3>i. pc[u] # "idle" /\ UNCHANGED current
        BY <2>1 DEF Handle, Lookup, DeclineLookup, Decline, Refetch, Settle, MarkPaid, RecordReceive,
           Finish, FinishDecline
      <3>1. CASE Lookup(u) \/ DeclineLookup(u) \/ Decline(u)
        BY <3>1, <3>i, <1>1, <1>t, <2>u, <2>i, <2>s DEF Lookup, DeclineLookup, Decline, AfterDecline,
           Goto, Answer
      <3>2. CASE Refetch(u) \/ MarkPaid(u) \/ RecordReceive(u) \/ Finish(u) \/ FinishDecline(u)
        BY <3>2, <3>i, <1>1, <1>t, <2>u, <2>i, <2>s DEF Refetch, MarkPaid, RecordReceive, Finish,
           FinishDecline, LeaveFor, Goto, Answer
      <3>3. CASE Settle(u)
        BY <3>3, <3>i, <1>1, <1>t, <2>u, <2>i, <2>s DEF Settle, Leave, LeaveFor, Rest, Goto
      <3> QED BY <2>1, <3>1, <3>2, <3>3 DEF Handle
    <2>2. ASSUME NEW h \in Hashes, HandleHeldInvoice(u, h)
          PROVE  FALSE
      BY <2>2, <1>1, StartStep
    <2>3. CASE Locking(u)
      <3>1. pc[u] # "idle"
        BY <2>3 DEF Locking, AcquireLock, LockUnavailable, Interrupt
      <3> QED BY <2>3, <3>1, <1>1, <2>i, <2>s, <2>u, LockingStep
    <2>4. CASE Stays(u)
      BY <2>4, <1>1, <1>k, <2>i DEF Stays
    <2> QED BY <2>1, <2>2, <2>3, <2>4, <2>u, Moves, Kinds DEF Requests
  <1>2. ASSUME NEW h \in Hashes, receipts'[h] > 0
        PROVE  lnd'[h] = "settled"
    <2>1. CASE receipts' = receipts
      BY <2>1, <1>2, <1>k DEF ClaimInv, CreditedOnlyIfSettled
    <2>2. ASSUME NEW t \in Handlers, RecordReceive(t)
          PROVE  lnd[h] = "settled"
      BY <2>2, <1>2, <1>t DEF RecordReceive, ClaimInv, CreditedOnlyIfSettled
    <2> QED BY <2>1, <2>2, <1>k, JournalNext
  <1> QED BY <1>1, <1>2 DEF ClaimInv, CreditedOnlyIfSettled

LEMMA ClaimAlways == Spec => []ClaimInv
  <1>1. Init => ClaimInv
    BY SMT DEF Init, ClaimInv, CreditedOnlyIfSettled, Procs
  <1>2. TypeInv /\ ClaimInv /\ [Next]_vars => ClaimInv'
    BY ClaimNext
  <1> QED BY <1>1, <1>2, TypeAlways, PTL DEF Spec

\* recordReceiveOffChain is reached only after settleInvoice succeeded, or when the node
\* said that the invoice is settled: whatever is interrupted, cancelled at the same time
\* or run without its lock, no wallet is credited with a payment the node did not claim.
THEOREM NothingUnclaimedIsCredited == Spec => []CreditedOnlyIfSettled
  <1>1. ClaimInv => CreditedOnlyIfSettled
    BY DEF ClaimInv
  <1> QED BY <1>1, ClaimAlways, PTL

LEMMA LockNext ==
    ASSUME TypeInv, LockInv, ~MayLoseLock, [Next]_vars
    PROVE  LockInv'
  <1> SUFFICES ASSUME NEW q \in Procs PROVE LockedBy(q)'
    BY DEF LockInv
  <1>l. LockedBy(q)
    BY DEF LockInv
  <1>1. ASSUME NEW p \in Procs, ProcStep(p)
        PROVE  LockedBy(q)'
    <2>1. CASE q = p
      BY <1>1, <1>l, <2>1 DEF ProcStep
    <2>2. CASE q # p
      <3>1. pc'[q] = pc[q] /\ Key(q)' = Key(q)
        BY <1>1, <2>2 DEF ProcStep, OnlyAt, Key
      <3>2. pc[q] \in Locked => Key(q) \in Keys
        BY ProcTypes, Labels
      <3> QED BY <1>1, <1>l, <2>2, <3>1, <3>2, Kinds DEF ProcStep, OnlyAt, LockedBy
    <2> QED BY <2>1, <2>2
  <1>2. CASE UNCHANGED <<pc, current, result, lock>>
    BY <1>2, <1>l DEF LockedBy, Key
  <1> QED BY <1>1, <1>2, TypeNext

\* Two processes in the locked sections of one key are one.
LEMMA Exclusion ==
    ASSUME LockInv, NEW p \in Procs, NEW q \in Procs, pc[p] \in Locked, pc[q] \in Locked,
           Key(p) = Key(q)
    PROVE  p = q
  BY DEF LockInv, LockedBy

LEMMA OnceNext ==
    ASSUME TypeInv, LockInv, OnceInv, [Next]_vars
    PROVE  OnceInv'
  <1> USE DEF locks, invoiceVars, journals
  <1>t. /\ pc \in [Procs -> PCs] /\ receipts \in [Hashes -> Nat]
    BY DEF TypeInv, TypeOK
  <1>j. /\ receipts' = receipts \/ \E t \in Handlers : RecordReceive(t)
        /\ completed \subseteq completed'
    BY JournalNext
  <1>1. ASSUME NEW h \in Hashes, receipts'[h] > 0
        PROVE  receipts'[h] = 1 /\ h \in completed'
    <2>1. CASE receipts' = receipts
      BY <2>1, <1>1, <1>j DEF OnceInv
    <2>2. ASSUME NEW t \in Handlers, RecordReceive(t)
          PROVE  receipts'[h] = 1 /\ h \in completed
      BY <2>2, <1>1, <1>t, SMT DEF RecordReceive, OnceInv
    <2> QED BY <2>1, <2>2, <1>j
  <1>2. ASSUME NEW u \in Handlers, pc'[u] \in {"settle", "markPaid", "record"}
        PROVE  receipts'[current'[u]] = 0 /\ (pc'[u] = "record" => current'[u] \in completed')
    <2>u. u \in Procs /\ (pc[u] # "idle" => current[u] \in Hashes)
      BY Kinds DEF TypeInv
    <2>1. CASE Handle(u)
      <3>1. CASE Refetch(u)
        BY <3>1, <1>2, <1>t, <2>u, SMT DEF Refetch, LeaveFor, Goto, OnceInv
      <3>2. CASE Settle(u) \/ MarkPaid(u)
        BY <3>2, <1>2, <1>t, <2>u DEF Settle, MarkPaid, MarkAsPaid, Leave, LeaveFor, Rest, Goto, OnceInv
      <3>3. CASE ~(Refetch(u) \/ Settle(u) \/ MarkPaid(u))
        <4>1. \E label \in {"idle", "lock", "declineLookup", "decline", "finish", "finishDecline"} :
                 Goto(u, label)
          BY <2>1, <3>3 DEF Handle, Lookup, DeclineLookup, Decline, RecordReceive, Finish,
             FinishDecline, AfterDecline, LeaveFor
        <4> QED BY <4>1, <1>2, <1>t, <2>u DEF Goto
      <3> QED BY <3>1, <3>2, <3>3
    <2>2. ASSUME NEW h \in Hashes, HandleHeldInvoice(u, h)
          PROVE  FALSE
      BY <2>2, <1>2, StartStep
    <2>3. ASSUME Locking(u)
          PROVE  FALSE
      BY <2>3, <1>2, <2>u, LockingStep
    <2>4. CASE Stays(u)
      <3>1. pc'[u] = pc[u] /\ current'[u] = current[u] /\ receipts[current[u]] = 0
            /\ (pc[u] = "record" => current[u] \in completed) /\ current[u] \in Hashes
        BY <2>4, <1>2, <2>u DEF Stays, OnceInv
      <3>2. ASSUME NEW t \in Handlers, RecordReceive(t)
            PROVE  current[t] # current[u]
        <4>1. pc[t] = "record" /\ pc'[t] = "finish" /\ t \in Procs
          BY <3>2, <1>t, Kinds DEF RecordReceive, LeaveFor, Goto
        <4>2. pc[t] \in Locked /\ pc[u] \in Locked /\ t # u
          BY <4>1, <3>1, <1>2, Labels
        <4>3. Key(t) = current[t] /\ Key(u) = current[u]
          BY Kinds DEF Key
        <4> QED BY <4>1, <4>2, <4>3, <2>u, Exclusion
      <3>3. receipts'[current[u]] = receipts[current[u]]
        BY <3>1, <3>2, <1>j, <1>t DEF RecordReceive
      <3> QED BY <3>1, <3>3, <1>j
    <2> QED BY <2>1, <2>2, <2>3, <2>4, <2>u, Moves, Kinds DEF Requests
  <1> QED BY <1>1, <1>2 DEF OnceInv

LEMMA OnceAlways ==
    ASSUME ~MayLoseLock
    PROVE  Spec => [](LockInv /\ OnceInv)
  <1>1. Init => LockInv /\ OnceInv
    BY Labels, SMT DEF Init, LockInv, LockedBy, OnceInv, Procs
  <1>2. TypeInv /\ LockInv /\ OnceInv /\ [Next]_vars => LockInv' /\ OnceInv'
    BY LockNext, OnceNext
  <1> QED BY <1>1, <1>2, TypeAlways, PTL DEF Spec

-----------------------------------------------------------------------------
(***************************************************************************)
(* The refinement: every step is a step of Receipt or leaves all stages.   *)
(***************************************************************************)
Receipts == [h \in Hashes |-> Stage(h)]

LEMMA StageNext ==
    ASSUME TypeInv, ClaimInv, OnceInv, [Next]_vars
    PROVE  [Abstract!Next]_Receipts
  <1> USE DEF journals
  <1>t. lnd \in [Hashes -> LndStates] /\ receipts \in [Hashes -> Nat]
    BY DEF TypeInv, TypeOK
  <1>g. ASSUME NEW h \in Hashes, \A g \in Hashes \ {h} : Stage(g)' = Stage(g),
               \/ Stage(h)' = Stage(h)
               \/ <<Stage(h), Stage(h)'>> \in {<<"waiting", "claimed">>, <<"claimed", "credited">>,
                                               <<"waiting", "closed">>}
        PROVE  [Abstract!Next]_Receipts
    <2>1. CASE Stage(h)' = Stage(h)
      <3>1. Receipts' = Receipts
        BY <1>g, <2>1 DEF Receipts
      <3> QED BY <3>1
    <2>2. CASE <<Stage(h), Stage(h)'>> \in {<<"waiting", "claimed">>, <<"claimed", "credited">>,
                                            <<"waiting", "closed">>}
      <3>1. Receipts' = [Receipts EXCEPT ![h] = Stage(h)'] /\ Receipts[h] = Stage(h)
        BY <1>g DEF Receipts
      <3>2. Abstract!Claim(h) \/ Abstract!Credit(h) \/ Abstract!Close(h)
        BY <2>2, <3>1 DEF Abstract!Claim, Abstract!Credit, Abstract!Close, Abstract!Advance, Receipts
      <3> QED BY <3>2 DEF Abstract!Next
    <2> QED BY <1>g, <2>1, <2>2
  <1>1. ASSUME NEW t \in Handlers, RecordReceive(t)
        PROVE  [Abstract!Next]_Receipts
    <2>1. PICK h \in Hashes : h = current[t]
      BY <1>1 DEF RecordReceive, TypeInv
    <2>2. /\ receipts[h] = 0 /\ lnd[h] = "settled"
          /\ receipts' = [receipts EXCEPT ![h] = @ + 1] /\ UNCHANGED lnd
      BY <1>1, <2>1 DEF RecordReceive, OnceInv, ClaimInv
    <2>3. Stage(h) = "claimed" /\ Stage(h)' = "credited"
      BY <2>2, <1>t, SMT DEF Stage
    <2>4. \A g \in Hashes \ {h} : Stage(g)' = Stage(g)
      BY <2>2, <1>t DEF Stage
    <2> QED BY <2>3, <2>4, <1>g
  <1>2. ASSUME receipts' = receipts, NEW h \in Hashes, NEW to \in LndStates, LndMove(h, to)
        PROVE  [Abstract!Next]_Receipts
    <2>1. /\ lnd' = [lnd EXCEPT ![h] = to] /\ <<lnd[h], to>> \in LndMoves
          /\ receipts[h] > 0 => lnd[h] = "settled"
      BY <1>2 DEF LndMove, ClaimInv, CreditedOnlyIfSettled
    <2>2. \A g \in Hashes \ {h} : Stage(g)' = Stage(g)
      BY <1>2, <2>1, <1>t DEF Stage
    <2>3. \/ Stage(h)' = Stage(h)
          \/ <<Stage(h), Stage(h)'>> \in {<<"waiting", "claimed">>, <<"claimed", "credited">>,
                                          <<"waiting", "closed">>}
      BY <1>2, <2>1, <1>t DEF Stage, LndMoves
    <2> QED BY <2>2, <2>3, <1>g
  <1>3. ASSUME UNCHANGED <<receipts, lnd>>
        PROVE  [Abstract!Next]_Receipts
    <2>1. Receipts' = Receipts
      BY <1>3 DEF Receipts, Stage
    <2> QED BY <2>1
  <1>4. "settled" \in LndStates
    BY DEF LndStates
  <1> QED BY <1>1, <1>2, <1>3, <1>4, JournalNext, NodeStep

\* With locks that are not lost, receiving over Lightning keeps the promise of Receipt:
\* every invoice goes from waiting to claimed and is then credited once, or is closed and
\* never claimed.  Handlers may run at once, be interrupted anywhere, and race the owner's
\* cancellation, a payment from inside the bank and the node's own timeouts.
THEOREM ReceivingImplementsReceipt ==
    ASSUME ~MayLoseLock
    PROVE  Spec => ImplementsReceipt
  <1>1. Init => Abstract!Init
    BY SMT DEF Init, Abstract!Init, Stage
  <1>2. TypeInv /\ ClaimInv /\ LockInv /\ OnceInv /\ [Next]_vars => [Abstract!Next]_Receipts
    BY StageNext
  <1> QED BY <1>1, <1>2, TypeAlways, ClaimAlways, OnceAlways, PTL
      DEF Spec, ImplementsReceipt, Abstract!Spec, Receipts

-----------------------------------------------------------------------------
(***************************************************************************)
(* Payments inside the bank.                                               *)
(***************************************************************************)
LEMMA TransferNext ==
    ASSUME TypeInv, LockInv, TransferInv, [Next]_vars
    PROVE  TransferInv'
  <1> USE DEF locks, invoiceVars, journals
  <1>t. /\ pc \in [Procs -> PCs] /\ transfers \subseteq Senders
        /\ \A s \in Senders : current[s] = HashOf[s] /\ Key(s) = WalletOf[s] /\ s \in Procs
    BY Kinds DEF TypeInv, TypeOK, Key
  <1>1. NoSecondTransfer'
    <2>1. CASE transfers' = transfers
      BY <2>1 DEF TransferInv, NoSecondTransfer
    <2>2. ASSUME NEW s \in Senders, RecordIntraledger(s)
          PROVE  NoSecondTransfer'
      BY <2>2 DEF RecordIntraledger, TransferInv, NoSecondTransfer
    <2> QED BY <2>1, <2>2, JournalNext
  <1>2. ASSUME NEW s \in Senders, pc'[s] \in {"checkBalance", "recordIntraledger"},
               NEW r \in transfers', HashOf[r] = HashOf[s], WalletOf[r] = WalletOf[s]
        PROVE  FALSE
    <2>1. CASE SendIntraledger(s)
      <3>1. CASE CheckRecorded(s) \/ CheckBalance(s)
        BY <3>1, <1>2, <1>t DEF CheckRecorded, CheckBalance, Leave, LeaveFor, Rest, Goto, TransferInv,
           IsLnTxRecorded
      <3>2. CASE RecordIntraledger(s) \/ CancelPaid(s) \/ MarkPaidIntraledger(s)
        BY <3>2, <1>2, <1>t, Kinds DEF RecordIntraledger, CancelPaid, MarkPaidIntraledger, Leave,
           LeaveFor, Rest, Goto
      <3> QED BY <2>1, <3>1, <3>2 DEF SendIntraledger
    <2>2. CASE PayInvoice(s)
      BY <2>2, <1>2, <1>t DEF PayInvoice, Goto
    <2>3. CASE Locking(s)
      BY <2>3, <1>2, <1>t, LockingStep
    <2>4. CASE Stays(s)
      <3>1. pc[s] \in {"checkBalance", "recordIntraledger"} /\ pc[s] \in Locked /\ r \notin transfers
        BY <2>4, <1>2, Labels DEF Stays, TransferInv
      <3>2. PICK q \in Senders : RecordIntraledger(q)
        BY <3>1, <1>2, JournalNext
      <3>3. r = q /\ pc[q] \in Locked /\ pc'[q] = "cancelPaid"
        BY <3>1, <3>2, <1>2, <1>t, Labels DEF RecordIntraledger, Goto
      <3>4. q = s
        BY <3>1, <3>3, <1>2, <1>t, Exclusion
      <3> QED BY <3>3, <3>4, <1>2
    <2> QED BY <2>1, <2>2, <2>3, <2>4, <1>t, Moves, Kinds DEF Requests
  <1> QED BY <1>1, <1>2 DEF TransferInv

\* isLnTxRecorded is asked, and the journal written, under one lock of the wallet: with
\* locks that are not lost, requests of one wallet that pay the same invoice at the same
\* time write one journal, however they are interrupted and whatever handlers do.  Two
\* wallets have two locks, and the theorem does not say that only one of them pays.
THEOREM OneTransferPerWallet ==
    ASSUME ~MayLoseLock
    PROVE  Spec => []NoSecondTransfer
  <1>1. Init => TransferInv
    BY DEF Init, TransferInv, NoSecondTransfer
  <1>2. TypeInv /\ LockInv /\ TransferInv /\ [Next]_vars => TransferInv'
    BY TransferNext
  <1>3. TransferInv => NoSecondTransfer
    BY DEF TransferInv
  <1> QED BY <1>1, <1>2, <1>3, TypeAlways, OnceAlways, PTL DEF Spec

-----------------------------------------------------------------------------
(***************************************************************************)
(* The flags of the wallet invoices.                                       *)
(***************************************************************************)
LEMMA CancelNext ==
    ASSUME TypeInv, LockInv, CancelInv, [Next]_vars
    PROVE  CancelInv'
  <1> USE DEF locks, invoiceVars, journals
  <1>t. /\ pc \in [Procs -> PCs] /\ lnd \in [Hashes -> LndStates] /\ stored \subseteq Hashes
        /\ \A c \in Cancels : current[c] \in Hashes /\ Key(c) = current[c] /\ c \in Procs
    BY Kinds, ProcTypes DEF TypeInv, TypeOK, Key
  <1>k. \A h \in Hashes : LndKept(h)
    BY NodeNext
  <1>1. ASSUME NEW h \in stored'
        PROVE  lnd'[h] # "none"
    <2>1. h \in stored \/ (h \in Hashes /\ lnd[h] # "none")
      <3>1. CASE \E t \in Handlers : Handle(t) \/ \E g \in Hashes : HandleHeldInvoice(t, g)
        BY <1>1, <3>1 DEF Handle, HandleHeldInvoice, Lookup, DeclineLookup, Decline, Refetch, Settle,
           MarkPaid, RecordReceive, Finish, FinishDecline, MarkAsPaid, MarkAsProcessingCompleted
      <3>2. CASE \E c \in Cancels : RequestCancel(c) \/ CancelInvoice(c)
        BY <1>1, <3>2 DEF CancelInvoice, RequestCancel, CheckStatus, CheckUnpaid, Cancel, MarkCompleted,
           MarkAsProcessingCompleted
      <3>3. CASE \E s \in Senders : PayInvoice(s) \/ SendIntraledger(s)
        BY <1>1, <3>3 DEF SendIntraledger, PayInvoice, CheckRecorded, CheckBalance, RecordIntraledger,
           CancelPaid, MarkPaidIntraledger, MarkAsPaid
      <3>4. CASE \E p \in Procs : AcquireLock(p) \/ LockUnavailable(p) \/ Interrupt(p)
        BY <1>1, <3>4, LockStep
      <3>5. CASE \/ \E g \in Hashes : Add(g) \/ Environment(g)
                 \/ \E k \in Keys : LoseLock(k)
                 \/ UNCHANGED vars
        BY <1>1, <3>5 DEF Add, RegisterInvoice, PersistInvoice, Environment, HtlcArrives, HtlcTimeout,
           LndExpire, LndRemove, LndStep, Age, LoseLock, vars
      <3> QED BY <3>1, <3>2, <3>3, <3>4, <3>5, NextCases
    <2> QED BY <2>1, <1>k, <1>t DEF LndKept, CancelInv
  <1>2. ASSUME NEW c \in Cancels
        PROVE  /\ pc'[c] \in {"checkUnpaid", "cancel"} => current'[c] \in stored'
               /\ pc'[c] = "cancel" => lnd'[current'[c]] # "settled"
               /\ pc'[c] = "markCompleted" => lnd'[current'[c]] \in Closed
    <2>1. CASE CancelInvoice(c) \/ RequestCancel(c)
      <3>1. CASE CheckStatus(c) \/ CheckUnpaid(c) \/ RequestCancel(c)
        BY <3>1, <1>t, Kinds DEF CheckStatus, CheckUnpaid, RequestCancel, Leave, LeaveFor, Rest, Goto,
           CancelInv
      <3>2. CASE Cancel(c)
        BY <3>2, <1>t DEF Cancel, CancelInLnd, Goto, CancelInv, Closed, LndStates
      <3>3. CASE MarkCompleted(c)
        BY <3>3, <1>t, Kinds DEF MarkCompleted, Leave, LeaveFor, Rest, Goto
      <3> QED BY <2>1, <3>1, <3>2, <3>3 DEF CancelInvoice
    <2>2. CASE Locking(c)
      BY <2>2, <1>t, LockingStep
    <2>3. CASE Stays(c)
      <3>1. pc'[c] = pc[c] /\ current'[c] = current[c] /\ stored \subseteq stored'
        BY <2>3, JournalNext DEF Stays
      <3>2. ASSUME pc[c] = "cancel"
            PROVE  lnd'[current[c]] # "settled"
        <4>1. ASSUME NEW t \in Handlers, pc[t] = "settle", current[t] = current[c]
              PROVE  FALSE
          <5>1. pc[t] \in Locked /\ pc[c] \in Locked /\ Key(t) = Key(c) /\ t \in Procs
            BY <3>2, <4>1, <1>t, Labels, Kinds DEF Key
          <5> QED BY <5>1, <1>t, Exclusion, Kinds
        <4> QED BY <3>2, <4>1, <1>t, NodeNext DEF CancelInv
      <3> QED BY <3>1, <3>2, <1>t, <1>k DEF LndKept, CancelInv
    <2> QED BY <2>1, <2>2, <2>3, <1>t, Moves, Kinds DEF Requests
  <1> QED BY <1>1, <1>2 DEF CancelInv

LEMMA RecordedKept ==
    ASSUME TypeInv, [Next]_vars
    PROVE  \A h \in Hashes : IsLnTxRecorded(h) => IsLnTxRecorded(h)'
  <1>1. \A h \in Hashes : receipts[h] > 0 => receipts'[h] > 0
    BY JournalNext, ReceiptWritten
  <1>2. transfers \subseteq transfers'
    BY JournalNext DEF RecordIntraledger
  <1> QED BY <1>1, <1>2 DEF IsLnTxRecorded

\* Who marks an invoice, and with what.
FlagsMove ==
    \/ UNCHANGED <<paid, completed>>
    \/ \E t \in Handlers :
          \/ MarkPaid(t)
          \/ pc[t] = "finish" /\ result[t] = "paid" /\ MarkAsPaid(current[t])
          \/ pc[t] # "idle" /\ result[t] = "canceled" /\ MarkAsProcessingCompleted(current[t])
    \/ \E c \in Cancels : MarkCompleted(c)
    \/ \E s \in Senders : MarkPaidIntraledger(s)

LEMMA FlagsStep ==
    ASSUME TypeInv, [Next]_vars
    PROVE  FlagsMove
  <1> USE DEF locks, invoiceVars, journals
  <1>1. ASSUME NEW t \in Handlers, Handle(t)
        PROVE  FlagsMove
    <2>1. CASE Finish(t) \/ FinishDecline(t)
      BY <2>1 DEF Finish, FinishDecline, FlagsMove
    <2>2. CASE MarkPaid(t)
      BY <2>2 DEF FlagsMove
    <2>3. CASE Lookup(t) \/ DeclineLookup(t) \/ Decline(t) \/ Refetch(t) \/ Settle(t) \/ RecordReceive(t)
      <3>1. UNCHANGED <<paid, completed>>
        BY <2>3 DEF Lookup, DeclineLookup, Decline, Refetch, Settle, RecordReceive
      <3> QED BY <3>1 DEF FlagsMove
    <2> QED BY <1>1, <2>1, <2>2, <2>3 DEF Handle
  <1>2. ASSUME NEW t \in Handlers, NEW h \in Hashes, HandleHeldInvoice(t, h)
        PROVE  FlagsMove
    BY <1>2, StartStep DEF FlagsMove
  <1>3. ASSUME NEW c \in Cancels, RequestCancel(c) \/ CancelInvoice(c)
        PROVE  FlagsMove
    BY <1>3 DEF CancelInvoice, RequestCancel, CheckStatus, CheckUnpaid, Cancel, FlagsMove
  <1>4. ASSUME NEW s \in Senders, PayInvoice(s) \/ SendIntraledger(s)
        PROVE  FlagsMove
    BY <1>4 DEF SendIntraledger, PayInvoice, CheckRecorded, CheckBalance, RecordIntraledger,
       CancelPaid, FlagsMove
  <1>5. ASSUME NEW p \in Procs, AcquireLock(p) \/ LockUnavailable(p) \/ Interrupt(p)
        PROVE  FlagsMove
    BY <1>5, LockStep DEF FlagsMove
  <1>6. ASSUME \/ \E h \in Hashes : Add(h) \/ Environment(h)
               \/ \E k \in Keys : LoseLock(k)
               \/ UNCHANGED vars
        PROVE  FlagsMove
    BY <1>6, OutsideStep DEF FlagsMove
  <1> QED BY <1>1, <1>2, <1>3, <1>4, <1>5, <1>6, NextCases

LEMMA ResultNext ==
    ASSUME TypeInv, FlagsInv, DustPaid = {}, [Next]_vars, NEW u \in Handlers
    PROVE  /\ result'[u] = "canceled" => current'[u] \in Hashes /\ lnd'[current'[u]] \in Closed
           /\ pc'[u] \in {"declineLookup", "decline"} => result'[u] = "none"
           /\ pc'[u] = "finish" /\ result'[u] = "paid" =>
                 current'[u] \in paid' \/ IsLnTxRecorded(current[u])'
  <1> USE DEF locks, invoiceVars, journals
  <1> DEFINE Goal ==
        /\ result'[u] = "canceled" => current'[u] \in Hashes /\ lnd'[current'[u]] \in Closed
        /\ pc'[u] \in {"declineLookup", "decline"} => result'[u] = "none"
        /\ pc'[u] = "finish" /\ result'[u] = "paid" =>
              current'[u] \in paid' \/ IsLnTxRecorded(current[u])'
  <1> SUFFICES Goal
    OBVIOUS
  <1>t. /\ pc \in [Procs -> PCs] /\ result \in [Handlers -> Results] /\ receipts \in [Hashes -> Nat]
        /\ u \in Procs /\ (pc[u] # "idle" => current[u] \in Hashes)
    BY Kinds DEF TypeInv, TypeOK
  <1>i. /\ result[u] = "canceled" => current[u] \in Hashes /\ lnd[current[u]] \in Closed
        /\ pc[u] \in {"declineLookup", "decline"} => result[u] = "none"
        /\ pc[u] = "finish" /\ result[u] = "paid" => current[u] \in paid \/ IsLnTxRecorded(current[u])
        /\ \A h \in completed \ paid : lnd[h] \in Closed
    BY DEF FlagsInv
  <1>k. \A h \in Hashes : lnd[h] \in Closed => lnd'[h] \in Closed
    BY NodeNext DEF LndKept
  <1>c. "removed" \in Closed /\ {"removed", "canceled"} = Closed
    BY DEF Closed
  <1>1. CASE Handle(u)
    <2>i. pc[u] # "idle" /\ UNCHANGED current
      BY <1>1 DEF Handle, Lookup, DeclineLookup, Decline, Refetch, Settle, MarkPaid, RecordReceive,
         Finish, FinishDecline
    <2>1. CASE Lookup(u)
      BY <2>1, <2>i, <1>t, <1>i, <1>c DEF Lookup, Goto, Answer
    <2>2. CASE DeclineLookup(u) \/ Decline(u)
      BY <2>2, <2>i, <1>t, <1>i, <1>c DEF DeclineLookup, Decline, AfterDecline, Goto, Answer
    <2>3. CASE Refetch(u)
      BY <2>3, <2>i, <1>t, <1>i, <1>k DEF Refetch, LeaveFor, Goto, Answer
    <2>4. CASE Settle(u) \/ MarkPaid(u) \/ Finish(u) \/ FinishDecline(u)
      <3>1. UNCHANGED result /\ pc'[u] \in {"idle", "markPaid", "record"}
        BY <2>4, <1>t DEF Settle, MarkPaid, Finish, FinishDecline, Leave, LeaveFor, Rest, Goto
      <3> QED BY <3>1, <2>i, <1>i, <1>k
    <2>5. CASE RecordReceive(u)
      <3>1. result'[u] = "paid" /\ pc'[u] = "finish"
        BY <2>5, <1>t DEF RecordReceive, LeaveFor, Goto, Answer
      <3> QED BY <3>1, <2>5, <2>i, ReceiptWritten DEF IsLnTxRecorded
    <2> QED BY <1>1, <2>1, <2>2, <2>3, <2>4, <2>5 DEF Handle
  <1>2. ASSUME NEW h \in Hashes, HandleHeldInvoice(u, h)
        PROVE  Goal
    BY <1>2, StartStep
  <1>3. CASE Locking(u)
    <2>1. pc'[u] \in {"refetch", "checkStatus", "checkRecorded", "idle", "done"}
          /\ UNCHANGED <<current, result, lnd>>
      BY <1>3, <1>t, LockingStep
    <2> QED BY <2>1, <1>i
  <1>4. CASE Stays(u)
    <2>1. pc'[u] = pc[u] /\ current'[u] = current[u] /\ result'[u] = result[u]
      BY <1>4 DEF Stays
    <2>2. ASSUME pc[u] = "finish", IsLnTxRecorded(current[u])
          PROVE  IsLnTxRecorded(current[u])'
      <3>1. PICK h \in Hashes : h = current[u]
        BY <2>2, <1>t
      <3>2. IsLnTxRecorded(h)'
        BY <2>2, <3>1, RecordedKept
      <3> QED BY <2>1, <3>1, <3>2 DEF IsLnTxRecorded
    <2>3. paid \subseteq paid'
      BY JournalNext
    <2> QED BY <2>1, <2>2, <2>3, <1>i, <1>k
  <1> QED BY <1>1, <1>2, <1>3, <1>4, <1>t, Moves, Kinds DEF Requests

LEMMA FlagsNext ==
    ASSUME TypeInv, LockInv, FlagsInv, ~MayLoseLock, DustPaid = {}, "record" \notin Interruptible,
           [Next]_vars
    PROVE  FlagsInv'
  <1> USE DEF locks, invoiceVars, journals
  <1>t. /\ pc \in [Procs -> PCs] /\ paid \subseteq Hashes /\ completed \subseteq Hashes
        /\ \A t \in Handlers : t \in Procs /\ (pc[t] # "idle" => current[t] \in Hashes)
        /\ \A s \in Senders : s \in Procs /\ current[s] = HashOf[s] /\ HashOf[s] \in Hashes
        /\ \A c \in Cancels : current[c] \in Hashes
    BY Kinds, ProcTypes, ConstantsAssumption DEF TypeInv, TypeOK
  <1>i. /\ CancelInv /\ FlagsTruthful /\ (\A h \in completed \ paid : lnd[h] \in Closed)
        /\ \A t \in Handlers : result[t] = "canceled" => lnd[current[t]] \in Closed
        /\ \A t \in Handlers : pc[t] = "finish" /\ result[t] = "paid" =>
              current[t] \in paid \/ IsLnTxRecorded(current[t])
        /\ \A s \in Senders : pc[s] \in {"cancelPaid", "markPaid"} => s \in transfers
    BY DEF FlagsInv
  <1>k. \A h \in Hashes : /\ lnd[h] \in Closed => lnd'[h] \in Closed
                          /\ IsLnTxRecorded(h) => IsLnTxRecorded(h)'
    BY NodeNext, RecordedKept DEF LndKept
  <1>l. LockInv' /\ TypeInv'
    BY LockNext, TypeNext
  <1>1. CancelInv'
    BY <1>i, CancelNext
  <1>2. ASSUME NEW h \in completed' \ paid'
        PROVE  h \in Hashes /\ lnd'[h] \in Closed
    <2>1. h \in Hashes /\ lnd[h] \in Closed
      <3>1. CASE UNCHANGED <<paid, completed>>
        BY <3>1, <1>2, <1>i, <1>t
      <3>2. ASSUME NEW g \in Hashes, MarkAsPaid(g)
            PROVE  h \in Hashes /\ lnd[h] \in Closed
        BY <3>2, <1>2, <1>i, <1>t DEF MarkAsPaid
      <3>3. ASSUME NEW g \in Hashes, MarkAsProcessingCompleted(g), lnd[g] \in Closed
            PROVE  h \in Hashes /\ lnd[h] \in Closed
        BY <3>3, <1>2, <1>i, <1>t DEF MarkAsProcessingCompleted
      <3>4. ASSUME NEW t \in Handlers,
                   \/ MarkPaid(t)
                   \/ pc[t] = "finish" /\ result[t] = "paid" /\ MarkAsPaid(current[t])
                   \/ pc[t] # "idle" /\ result[t] = "canceled" /\ MarkAsProcessingCompleted(current[t])
            PROVE  h \in Hashes /\ lnd[h] \in Closed
        BY <3>2, <3>3, <3>4, <1>i, <1>t DEF MarkPaid
      <3>5. ASSUME NEW c \in Cancels, MarkCompleted(c)
            PROVE  h \in Hashes /\ lnd[h] \in Closed
        BY <3>3, <3>5, <1>i, <1>t DEF MarkCompleted, CancelInv
      <3>6. ASSUME NEW s \in Senders, MarkPaidIntraledger(s)
            PROVE  h \in Hashes /\ lnd[h] \in Closed
        BY <3>2, <3>6, <1>t DEF MarkPaidIntraledger
      <3> QED BY <3>1, <3>4, <3>5, <3>6, FlagsStep DEF FlagsMove
    <2> QED BY <2>1, <1>k
  <1>3. ASSUME NEW h \in paid', ~IsLnTxRecorded(h)'
        PROVE  \E t \in Handlers : pc'[t] = "record" /\ current'[t] = h /\ lock'[h] = t
    <2>w. ASSUME NEW t \in Handlers, pc'[t] = "record", current'[t] = h
          PROVE  \E u \in Handlers : pc'[u] = "record" /\ current'[u] = h /\ lock'[h] = u
      <3>1. Key(t)' = h /\ LockedBy(t)'
        BY <2>w, <1>l, <1>t, Kinds DEF LockInv, Key
      <3> QED BY <2>w, <3>1, Labels DEF LockedBy
    <2>1. ASSUME h \in paid
          PROVE  \E t \in Handlers : pc'[t] = "record" /\ current'[t] = h
      <3>1. PICK t \in Handlers : pc[t] = "record" /\ current[t] = h /\ lock[h] = t
        BY <2>1, <1>3, <1>i, <1>k, <1>t DEF FlagsTruthful
      <3>2. ASSUME Handle(t)
            PROVE  FALSE
        <4>1. RecordReceive(t)
          BY <3>1, <3>2 DEF Handle, Lookup, DeclineLookup, Decline, Refetch, Settle, MarkPaid,
             RecordReceive, Finish, FinishDecline
        <4> QED BY <4>1, <3>1, <1>3, ReceiptWritten DEF IsLnTxRecorded
      <3>3. ASSUME NEW g \in Hashes, HandleHeldInvoice(t, g)
            PROVE  FALSE
        BY <3>1, <3>3 DEF HandleHeldInvoice
      <3>4. ASSUME Locking(t)
            PROVE  FALSE
        BY <3>1, <3>4 DEF Locking, AcquireLock, LockUnavailable, Interrupt
      <3>5. Stays(t)
        BY <3>2, <3>3, <3>4, <1>t, Moves, Kinds DEF Requests
      <3> QED BY <3>1, <3>5 DEF Stays
    <2>2. ASSUME h \notin paid
          PROVE  \E t \in Handlers : pc'[t] = "record" /\ current'[t] = h
      <3>1. ASSUME NEW t \in Handlers, MarkPaid(t)
            PROVE  pc'[t] = "record" /\ current'[t] = h
        BY <3>1, <2>2, <1>3, <1>t DEF MarkPaid, MarkAsPaid, Goto
      <3>2. ASSUME NEW t \in Handlers, pc[t] = "finish", result[t] = "paid", MarkAsPaid(current[t])
            PROVE  FALSE
        BY <3>2, <2>2, <1>3, <1>i, <1>k, <1>t DEF MarkAsPaid
      <3>3. ASSUME NEW g, MarkAsProcessingCompleted(g)
            PROVE  FALSE
        BY <3>3, <2>2, <1>3 DEF MarkAsProcessingCompleted
      <3>4. ASSUME NEW s \in Senders, MarkPaidIntraledger(s)
            PROVE  FALSE
        <4>1. h = HashOf[s] /\ s \in transfers
          BY <3>4, <2>2, <1>3, <1>i, <1>t DEF MarkPaidIntraledger, MarkAsPaid
        <4> QED BY <4>1, <1>3, <1>k, <1>t DEF IsLnTxRecorded
      <3> QED BY <3>1, <3>2, <3>3, <3>4, <2>2, <1>3, FlagsStep DEF FlagsMove, MarkCompleted
    <2> QED BY <2>w, <2>1, <2>2
  <1>4. ASSUME NEW s \in Senders, pc'[s] \in {"cancelPaid", "markPaid"}
        PROVE  s \in transfers'
    <2>1. CASE SendIntraledger(s) \/ PayInvoice(s)
      BY <2>1, <1>4, <1>i, <1>t, Kinds DEF SendIntraledger, PayInvoice, CheckRecorded, CheckBalance,
         RecordIntraledger, CancelPaid, MarkPaidIntraledger, Leave, LeaveFor, Rest, Goto
    <2>2. CASE Locking(s)
      BY <2>2, <1>4, <1>t, LockingStep
    <2>3. CASE Stays(s)
      BY <2>3, <1>4, <1>i, JournalNext DEF Stays, RecordIntraledger
    <2> QED BY <2>1, <2>2, <2>3, <1>t, Moves, Kinds DEF Requests
  <1>5. FlagsTruthful'
    <2>1. \A h \in completed' \ paid' : lnd'[h] # "settled"
      BY <1>2 DEF Closed
    <2> QED BY <2>1, <1>3 DEF FlagsTruthful
  <1>6. ASSUME NEW t \in Handlers
        PROVE  /\ result'[t] = "canceled" => current'[t] \in Hashes /\ lnd'[current'[t]] \in Closed
               /\ pc'[t] \in {"declineLookup", "decline"} => result'[t] = "none"
               /\ pc'[t] = "finish" /\ result'[t] = "paid" =>
                     current'[t] \in paid' \/ IsLnTxRecorded(current[t])'
    BY <1>6, ResultNext
  <1> QED BY <1>1, <1>2, <1>4, <1>5, <1>6 DEF FlagsInv

\* With locks that are not lost, no payment of less than one sat and no interruption
\* between markAsPaid and the journal: an invoice closed as unpaid was not claimed, and one
\* marked paid is in the ledger or about to be written to it by the holder of its lock.
THEOREM FlagsTellTheTruth ==
    ASSUME ~MayLoseLock, DustPaid = {}, "record" \notin Interruptible
    PROVE  Spec => []FlagsTruthful
  <1>1. Init => FlagsInv
    BY DEF Init, FlagsInv, FlagsTruthful, CancelInv, Procs
  <1>2. TypeInv /\ LockInv /\ FlagsInv /\ [Next]_vars => FlagsInv'
    BY FlagsNext
  <1>3. FlagsInv => FlagsTruthful
    BY DEF FlagsInv
  <1> QED BY <1>1, <1>2, <1>3, TypeAlways, OnceAlways, PTL DEF Spec

==============================================================================
