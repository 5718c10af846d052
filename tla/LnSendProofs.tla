---------------------------- MODULE LnSendProofs ----------------------------
(***************************************************************************)
(* Proofs about LnSend: the types, the lock of a wallet, no overdraft, and *)
(* one pending payment per hash.                                           *)
(***************************************************************************)
EXTENDS LnSend, TLAPS

\* Most leaves are first-order steps: Zenon is tried first, unless a leaf cites SMT.
USE Zenon, SMT

-----------------------------------------------------------------------------
(***************************************************************************)
(* The types of the variables, and the steps the proofs are built from.    *)
(***************************************************************************)
\* What a process works on: an attempt on itself, an updater that takes or holds the
\* lock on a payment of its list.
CurrentOK ==
    /\ \A a \in Attempts : current[a] = a
    /\ \A p \in Procs : pc[p] \in Locked \cup {"lock"} => current[p] \in Attempts

TypeInv == TypeOK /\ CurrentOK

\* The determinator answers with a state or with an error, whatever the bundle.
LEMMA DetermineType ==
    ASSUME NEW b
    PROVE  Determine(b) \in LnPaymentStates \cup {InvalidBundle}
  <1>1. ASSUME NEW t PROVE DeterminePending(t) \in LnPaymentStates \cup {InvalidBundle}
    BY DEF DeterminePending, LnPaymentStates, PendingStates
  <1>2. ASSUME NEW t PROVE DetermineReimbursed(t) \in LnPaymentStates \cup {InvalidBundle}
    BY DEF DetermineReimbursed, LnPaymentStates, SuccessStates, FailedStates
  <1>3. ASSUME NEW t PROVE DeterminePure(t) \in LnPaymentStates \cup {InvalidBundle}
    BY DEF DeterminePure, LnPaymentStates, SuccessStates, FailedStates
  <1> QED
    BY <1>1, <1>2, <1>3 DEF Determine

LEMMA ProcFacts ==
    Attempts \subseteq Procs /\ Updaters \subseteq Procs /\ None \notin Procs
  BY ConstantsAssumption DEF Procs

\* The answers that a process acts on, and those that the node gives.
LEMMA AnswerType ==
    /\ \A s \in {"none", "settled", "failed", "alreadyPaid", "timeout"},
          b \in Attempts \cup {None}, n \in Nat : Answer(s, b, n) \in Outcomes
    /\ \A s \in {"none", "inflight", "settled", "failed"},
          b \in Attempts \cup {None}, n \in Nat : Answer(s, b, n) \in LndPayments
    /\ \A x \in LndPayments : x.by \in Attempts \cup {None}
    /\ \A x \in LndPayments : x.status # "inflight" => x \in Outcomes
    /\ \A x \in Outcomes : x.fee \in Nat /\ x.by \in Attempts \cup {None}
  BY DEF Answer, Outcomes, LndPayments

\* A process that goes somewhere moves nobody else.
LEMMA GotoStep ==
    ASSUME pc \in [Procs -> PCs], NEW p \in Procs, NEW label \in PCs, Goto(p, label)
    PROVE  /\ pc' \in [Procs -> PCs]
           /\ pc'[p] = label
           /\ \A q \in Procs : q # p => pc'[q] = pc[q]
  BY DEF Goto

\* A process that leaves its locked section frees at most its own lock.
LEMMA LeaveStep ==
    ASSUME TypeInv, NEW p \in Procs, current[p] \in Attempts, Leave(p)
    PROVE  /\ pc' \in [Procs -> PCs]
           /\ pc'[p] \in {"done", "next"}
           /\ \A q \in Procs : q # p => pc'[q] = pc[q]
           /\ lock' \in [Wallets -> Procs \cup {None}]
           /\ \A w \in Wallets : lock[w] # p => lock'[w] = lock[w]
  <1>1. AfterLock(p) \in PCs /\ AfterLock(p) \in {"done", "next"}
    BY DEF AfterLock, PCs
  <1>2. pc \in [Procs -> PCs] /\ lock \in [Wallets -> Procs \cup {None}]
    BY DEF TypeInv, TypeOK
  <1>3. Goto(p, AfterLock(p)) /\ Release(p)
    BY DEF Leave
  <1>4. WalletOfProc(p) \in Wallets
    BY ConstantsAssumption DEF WalletOfProc
  <1>5. /\ lock' \in [Wallets -> Procs \cup {None}]
        /\ \A w \in Wallets : lock[w] # p => lock'[w] = lock[w]
    BY <1>2, <1>3, <1>4 DEF Release
  <1> QED
    BY <1>1, <1>2, <1>3, <1>5, GotoStep

\* Crediting a wallet, or debiting it with a negative amount, changes no other one.
LEMMA CreditStep ==
    ASSUME balance \in [Wallets -> Int], NEW w \in Wallets, NEW n \in Int, Credit(w, n)
    PROVE  /\ balance' \in [Wallets -> Int]
           /\ balance'[w] = balance[w] + n
           /\ \A v \in Wallets : v # w => balance'[v] = balance[v]
  BY SMT DEF Credit

\* Appending an entry of a payment keeps the type of the ledger.
LEMMA AppendStep ==
    ASSUME ledger \in Seq(Entries), NEW kind \in Kinds, NEW a \in Attempts, Append1(kind, a)
    PROVE  ledger' \in Seq(Entries)
  BY SMT DEF Append1, Entries

LEMMA TypeInit == Init => TypeInv
  BY ConstantsAssumption, SMT DEF Init, TypeInv, TypeOK, CurrentOK, Procs, PCs, Locked,
     NoAnswer, Answer, Outcomes, LndPayments

\* A step of a process p that stays, goes to a place or leaves keeps the types of
\* what it does not change and the payment it works on.
Moves(p) ==
    /\ pc' \in [Procs -> PCs]
    /\ \A q \in Procs : q # p => pc'[q] = pc[q]
    /\ lock' \in [Wallets -> Procs \cup {None}]

LEMMA MoveStep ==
    ASSUME TypeInv, NEW p \in Procs,
           current[p] \in Attempts,
           Leave(p) \/ (UNCHANGED lock /\ \E label \in PCs : Goto(p, label))
    PROVE  Moves(p)
  BY LeaveStep, GotoStep DEF Moves, TypeInv, TypeOK

\* The steps of an attempt and the last steps of a process stay in the locked section
\* or leave it.
LEMMA SendShape ==
    ASSUME NEW a, Send(a)
    PROVE  /\ pc[a] \in Locked /\ UNCHANGED current
           /\ Leave(a) \/ (UNCHANGED lock /\ \E label \in Locked : Goto(a, label))
  <1> USE DEF jobVars
  <1>1. CASE CheckInTransit(a)
    BY <1>1 DEF CheckInTransit, Locked
  <1>2. CASE CheckBalance(a)
    BY <1>2 DEF CheckBalance, Locked
  <1>3. CASE PrepareSend(a)
    BY <1>3 DEF PrepareSend, Locked
  <1>4. CASE RecordSend(a)
    BY <1>4 DEF RecordSend, Locked
  <1>5. CASE PayStart(a)
    BY <1>5 DEF PayStart, Locked
  <1>6. CASE PayResult(a) \/ PayTimeout(a)
    BY <1>6 DEF PayResult, PayTimeout, Locked
  <1> QED BY <1>1, <1>2, <1>3, <1>4, <1>5, <1>6 DEF Send

Resolving == {"revert", "reimburse", "finish"}

LEMMA ResolveShape ==
    ASSUME NEW p, Resolve(p)
    PROVE  /\ pc[p] \in Locked /\ UNCHANGED current /\ pending' \subseteq pending
           /\ Leave(p) \/ (UNCHANGED lock /\ \E label \in Resolving : Goto(p, label))
  <1> USE DEF jobVars
  <1>1. CASE SettlePending(p)
    BY <1>1 DEF SettlePending, NextStep, Locked, Resolving
  <1>2. CASE Revert(p)
    BY <1>2 DEF Revert, Locked, Resolving
  <1>3. CASE ReimburseFee(p)
    BY <1>3 DEF ReimburseFee, Locked, Resolving
  <1>4. CASE Finish(p)
    BY <1>4 DEF Finish, Locked
  <1> QED BY <1>1, <1>2, <1>3, <1>4 DEF Resolve

LEMMA Labels == Locked \subseteq PCs /\ Resolving \subseteq Locked
  BY DEF PCs, Locked, Resolving

\* Every step keeps the types and the payment that each process works on.
LEMMA TypeNext == TypeInv /\ [Next]_vars => TypeInv'
  <1> SUFFICES ASSUME TypeInv, [Next]_vars PROVE TypeInv'
    OBVIOUS
  <1> USE ConstantsAssumption, ProcFacts DEF jobVars, ledgerVars
  <1>t. /\ pc \in [Procs -> PCs]
        /\ lock \in [Wallets -> Procs \cup {None}]
        /\ aborted \in [Procs -> BOOLEAN]
        /\ current \in [Procs -> Attempts \cup {None}]
        /\ todo \in [Updaters -> SUBSET Attempts]
        /\ outcome \in [Procs -> Outcomes]
        /\ ledger \in Seq(Entries)
        /\ pending \subseteq Attempts
        /\ balance \in [Wallets -> Int]
        /\ bundle \in [Attempts -> LnPaymentStates \cup {NoState}]
        /\ lnd \in [Hashes -> LndPayments]
        /\ faults \in 0..MaxFaults
    BY DEF TypeInv, TypeOK
  <1>0. ASSUME NEW p \in Procs, Moves(p), current[p] \in Attempts, current' = current,
               aborted' = aborted, todo' = todo,
               outcome' \in [Procs -> Outcomes],
               ledger' \in Seq(Entries),
               pending' \subseteq Attempts,
               balance' \in [Wallets -> Int],
               bundle' \in [Attempts -> LnPaymentStates \cup {NoState}],
               lnd' \in [Hashes -> LndPayments],
               faults' \in 0..MaxFaults
        PROVE  TypeInv'
    BY <1>0, ZenonT(60) DEF Moves, TypeInv, TypeOK, CurrentOK
  <1>a. \A a \in Attempts : a \in Procs /\ current[a] \in Attempts
    BY DEF TypeInv, CurrentOK
  <1>1. ASSUME NEW a \in Attempts, PayInvoice(a) PROVE TypeInv'
    <2>a. a \in Procs /\ current[a] \in Attempts
      BY <1>a
    <2>1. Moves(a)
      BY <1>1, <2>a, MoveStep DEF PayInvoice, PCs
    <2> QED BY <1>t, <1>0, <1>1, <2>a, <2>1, ZenonT(60) DEF PayInvoice
  <1>2. ASSUME NEW a \in Attempts, Send(a) PROVE TypeInv'
    <2>a. a \in Procs /\ current[a] \in Attempts
      BY <1>a
    <2>0. Moves(a)
      BY <1>2, <2>a, SendShape, MoveStep, Labels
    <2>1. CASE CheckInTransit(a) \/ CheckBalance(a) \/ PrepareSend(a)
      BY <1>t, <2>0, <2>1, <1>0, <2>a, ZenonT(60)
      DEF CheckInTransit, CheckBalance, PrepareSend
    <2>2. CASE RecordSend(a)
      <3>1. ledger' \in Seq(Entries) /\ balance' \in [Wallets -> Int]
        BY <1>t, <2>2, SMT DEF RecordSend, Append1, Credit, Debit, Entries, Kinds
      <3> QED BY <1>t, <2>0, <2>2, <3>1, <1>0, <2>a, ZenonT(60) DEF RecordSend
    <2>3. CASE PayStart(a)
      <3>1. outcome' \in [Procs -> Outcomes] /\ lnd' \in [Hashes -> LndPayments]
        <4>1. /\ Answer("inflight", a, 0) \in LndPayments
              /\ Answer("failed", a, 0) \in Outcomes
              /\ Answer("alreadyPaid", a, 0) \in Outcomes
          BY AnswerType
        <4>2. UNCHANGED lnd \/ lnd' = [lnd EXCEPT ![HashOf[a]] = Answer("inflight", a, 0)]
          BY <2>3 DEF PayStart
        <4>3. UNCHANGED outcome \/ \E x \in Outcomes : outcome' = [outcome EXCEPT ![a] = x]
          BY <2>3, <4>1 DEF PayStart
        <4>4. lnd' \in [Hashes -> LndPayments]
          BY <4>1, <4>2, <1>t, ZenonT(60)
        <4>5. outcome \in [Procs -> Outcomes]
          BY <1>t
        <4>6. ASSUME NEW x \in Outcomes, outcome' = [outcome EXCEPT ![a] = x]
              PROVE  outcome' \in [Procs -> Outcomes]
          BY <4>5, <4>6
        <4> QED BY <4>3, <4>4, <4>5, <4>6
      <3> QED BY <1>t, <2>0, <2>3, <3>1, <1>0, <2>a, ZenonT(60) DEF PayStart
    <2>4. CASE PayResult(a)
      <3>1. outcome' \in [Procs -> Outcomes]
        BY <1>t, <2>4, <2>a, AnswerType DEF PayResult
      <3> QED BY <1>t, <2>0, <2>4, <3>1, <1>0, <2>a, ZenonT(60) DEF PayResult
    <2>5. CASE PayTimeout(a)
      <3>1. outcome' \in [Procs -> Outcomes]
        BY <1>t, <2>5, <2>a, AnswerType DEF PayTimeout
      <3> QED BY <1>t, <2>0, <2>5, <3>1, <1>0, <2>a, ZenonT(60) DEF PayTimeout
    <2> QED BY <1>2, <2>1, <2>2, <2>3, <2>4, <2>5, Zenon DEF Send
  <1>3. ASSUME NEW a \in Attempts, DropConnection(a) PROVE TypeInv'
    <2>a. a \in Procs /\ current[a] \in Attempts
      BY <1>a
    <2>1. Moves(a)
      BY <1>3, <2>a, MoveStep DEF DropConnection, PCs, Locked
    <2>2. outcome' \in [Procs -> Outcomes] /\ faults' \in 0..MaxFaults
      BY <1>t, <1>3, <2>a, AnswerType, SMT DEF DropConnection, Fault
    <2> QED BY <1>t, <1>0, <1>3, <2>a, <2>1, <2>2, ZenonT(60) DEF DropConnection
  <1>4. ASSUME NEW u \in Updaters, Update(u) PROVE TypeInv'
    <2>1. CASE EndList(u)
      BY <2>1, GotoStep, SMT DEF EndList, TypeInv, TypeOK, CurrentOK, PCs, Locked
    <2>2. CASE CheckPending(u) \/ FindFlow(u)
      <3>1. current[u] \in Attempts
        BY <2>2 DEF CheckPending, FindFlow, TypeInv, CurrentOK, Locked
      <3>2. Moves(u)
        BY <2>2, <3>1, MoveStep DEF CheckPending, FindFlow, PCs, Locked
      <3> QED BY <1>t, <1>0, <2>2, <3>1, <3>2, ZenonT(60) DEF CheckPending, FindFlow
    <2>3. ASSUME NEW a \in Attempts, LookupPayment(u, a) PROVE TypeInv'
      <3>1. CASE lnd[HashOf[a]].status \in {"settled", "failed"}
        <4>1. /\ current' = [current EXCEPT ![u] = a]
              /\ outcome' = [outcome EXCEPT ![u] = lnd[HashOf[a]]]
              /\ Goto(u, "lock")
          BY <2>3, <3>1 DEF LookupPayment, Lookup
        <4>2. lnd[HashOf[a]] \in Outcomes
          BY <1>t, <3>1, AnswerType
        <4>3. "lock" \in PCs /\ u \notin Attempts
          BY DEF PCs
        <4>4. /\ todo' \in [Updaters -> SUBSET Attempts]
              /\ UNCHANGED <<lock, aborted, ledgerVars, lnd, faults>>
          BY <1>t, <2>3 DEF LookupPayment, Lookup
        <4> QED BY <4>1, <4>2, <4>3, <4>4, GotoStep, SMT DEF TypeInv, TypeOK, CurrentOK
      <3>2. CASE lnd[HashOf[a]].status \notin {"settled", "failed"}
        BY <2>3, <3>2 DEF LookupPayment, Lookup, TypeInv, TypeOK, CurrentOK
      <3> QED BY <3>1, <3>2
    <2> QED BY <1>4, <2>1, <2>2, <2>3, Zenon DEF Update
  <1>5. ASSUME NEW u \in Updaters, NEW w \in Wallets, ListPending(u, w) PROVE TypeInv'
    BY <1>5, GotoStep, SMT DEF ListPending, TypeInv, TypeOK, CurrentOK, PCs, Locked
  <1>6. ASSUME NEW p \in Procs, AcquireLock(p) PROVE TypeInv'
    <2>1. current[p] \in Attempts /\ WalletOfProc(p) \in Wallets
      BY <1>6 DEF AcquireLock, TypeInv, CurrentOK, WalletOfProc
    <2>2. lock' \in [Wallets -> Procs \cup {None}] /\ aborted' \in [Procs -> BOOLEAN]
      BY <1>t, <1>6, <2>1 DEF AcquireLock
    <2>3. "check" \in PCs
      BY DEF PCs, Locked
    <2>4. /\ pc' \in [Procs -> PCs]
          /\ \A q \in Procs : q # p => pc'[q] = pc[q]
      BY <1>t, <1>6, <2>3, GotoStep DEF AcquireLock
    <2>5. UNCHANGED <<jobVars, outcome, ledgerVars, lnd, faults>>
      BY <1>6 DEF AcquireLock
    <2> QED BY <2>1, <2>2, <2>4, <2>5, ZenonT(60) DEF TypeInv, TypeOK, CurrentOK
  <1>7. ASSUME NEW p \in Procs, LockUnavailable(p) PROVE TypeInv'
    <2>1. AfterLock(p) \in PCs /\ current[p] \in Attempts
      BY <1>7 DEF AfterLock, PCs, LockUnavailable, TypeInv, CurrentOK
    <2>2. Moves(p)
      BY <1>7, <2>1, MoveStep DEF LockUnavailable
    <2> QED BY <1>t, <1>0, <1>7, <2>1, <2>2, ZenonT(60) DEF LockUnavailable
  <1>8. ASSUME NEW p \in Procs, Resolve(p) PROVE TypeInv'
    <2>0. current[p] \in Attempts
      BY <1>8, ResolveShape DEF TypeInv, CurrentOK
    <2>1. Moves(p)
      BY <1>8, <2>0, ResolveShape, MoveStep, Labels
    <2>2. CASE SettlePending(p)
      BY <1>t, <2>0, <2>1, <2>2, <1>0, ZenonT(60) DEF SettlePending
    <2>3. CASE Revert(p)
      <3>1. ledger' \in Seq(Entries) /\ balance' \in [Wallets -> Int]
        <4>1. Debit(current[p]) \in Int /\ WalletOf[current[p]] \in Wallets
          BY <2>0, SMT DEF Debit
        <4>2. UNCHANGED ledger \/ \E kind \in Kinds : Append1(kind, current[p])
          BY <2>3 DEF Revert, Kinds
        <4>3. ledger' \in Seq(Entries)
          BY <1>t, <2>0, <4>2, AppendStep
        <4>4. balance' \in [Wallets -> Int]
          <5>1. UNCHANGED balance \/ Credit(WalletOf[current[p]], Debit(current[p]))
                \/ Credit(BtcWalletOf[WalletOf[current[p]]], Debit(current[p]))
            BY <2>3 DEF Revert
          <5>2. BtcWalletOf[WalletOf[current[p]]] \in Wallets
            BY <4>1
          <5> QED BY <1>t, <4>1, <5>1, <5>2, CreditStep
        <4> QED BY <4>3, <4>4
      <3> QED BY <1>t, <2>0, <2>1, <2>3, <3>1, <1>0, ZenonT(60) DEF Revert
    <2>4. CASE ReimburseFee(p)
      <3>1. ledger' \in Seq(Entries) /\ balance' \in [Wallets -> Int]
        <4>1. MaxFee[current[p]] - outcome[p].fee \in Int /\ WalletOf[current[p]] \in Wallets
          BY <1>t, <2>0, AnswerType, SMT
        <4>2. UNCHANGED ledger \/ \E kind \in Kinds : Append1(kind, current[p])
          BY <2>4 DEF ReimburseFee, Kinds
        <4>3. ledger' \in Seq(Entries)
          BY <1>t, <2>0, <4>2, AppendStep
        <4>4. balance' \in [Wallets -> Int]
          <5>1. UNCHANGED balance
                \/ Credit(WalletOf[current[p]], MaxFee[current[p]] - outcome[p].fee)
            BY <2>4 DEF ReimburseFee
          <5> QED BY <1>t, <4>1, <5>1, CreditStep
        <4> QED BY <4>3, <4>4
      <3> QED BY <1>t, <2>0, <2>1, <2>4, <3>1, <1>0, ZenonT(60) DEF ReimburseFee
    <2>5. CASE Finish(p)
      <3>1. bundle' \in [Attempts -> LnPaymentStates \cup {NoState}]
        BY <1>t, <2>0, <2>5, DetermineType DEF Finish
      <3> QED BY <1>t, <2>0, <2>1, <2>5, <3>1, <1>0, ZenonT(60) DEF Finish
    <2> QED BY <1>8, <2>2, <2>3, <2>4, <2>5, Zenon DEF Resolve
  <1>9. ASSUME NEW p \in Procs, Interrupt(p) PROVE TypeInv'
    <2>1. current[p] \in Attempts /\ faults' \in 0..MaxFaults
      BY <1>9, SMT DEF Interrupt, Fault, TypeInv, TypeOK, CurrentOK
    <2>2. Moves(p)
      BY <1>9, <2>1, MoveStep DEF Interrupt
    <2> QED BY <1>t, <1>0, <1>9, <2>1, <2>2, ZenonT(60) DEF Interrupt
  <1>10. ASSUME NEW h \in Hashes, LndSettle(h) \/ LndFail(h) PROVE TypeInv'
    <2>1. lnd' \in [Hashes -> LndPayments]
      <3>1. PICK fee \in Nat, status \in {"settled", "failed"} :
               lnd' = [lnd EXCEPT ![h] = Answer(status, lnd[h].by, fee)]
        BY <1>t, <1>10, SMT DEF LndSettle, LndFail
      <3>2. Answer(status, lnd[h].by, fee) \in LndPayments
        BY <1>t, AnswerType, ZenonT(60)
      <3> QED BY <1>t, <3>1, <3>2
    <2> QED BY <1>10, <2>1 DEF LndSettle, LndFail, TypeInv, TypeOK, CurrentOK
  <1>11. ASSUME NEW w \in Wallets, LoseLock(w) PROVE TypeInv'
    BY <1>11, SMT DEF LoseLock, Fault, TypeInv, TypeOK, CurrentOK
  <1>12. CASE UNCHANGED vars
    BY <1>12 DEF vars, TypeInv, TypeOK, CurrentOK
  <1> QED
    BY <1>1, <1>2, <1>3, <1>4, <1>5, <1>6, <1>7, <1>8, <1>9, <1>10, <1>11, <1>12
    DEF Next

\* The state of the payments, the lock, the ledger and the node keeps its type in
\* every behaviour of the sends and the updaters.
THEOREM TypeCorrect == Spec => []TypeOK
  <1>1. TypeInv => TypeOK
    BY DEF TypeInv
  <1> QED
    BY TypeInit, TypeNext, <1>1, PTL DEF Spec

-----------------------------------------------------------------------------
(***************************************************************************)
(* The lock of a wallet, as long as redlock can extend it.                 *)
(***************************************************************************)
NoLockLoss == "loseLock" \notin FaultKinds

\* A process in its locked section holds the lock of the wallet of its payment.
LockInv == \A p \in Procs : pc[p] \in Locked => lock[WalletOfProc(p)] = p

\* A process that goes on inside its locked section, leaves it, or moves outside.
LEMMA LockStep ==
    ASSUME TypeInv, LockInv, NEW p \in Procs, current[p] \in Attempts, current' = current,
           \/ Leave(p)
           \/ UNCHANGED lock /\ pc[p] \in Locked /\ \E label \in Locked : Goto(p, label)
           \/ UNCHANGED lock /\ \E label \in PCs \ Locked : Goto(p, label)
    PROVE  LockInv'
  <1>1. CASE Leave(p)
    <2>1. /\ pc'[p] \notin Locked
          /\ \A q \in Procs : q # p => pc'[q] = pc[q]
          /\ \A w \in Wallets : lock[w] # p => lock'[w] = lock[w]
      BY <1>1, LeaveStep DEF Locked
    <2>2. \A q \in Procs : pc[q] \in Locked => WalletOfProc(q) \in Wallets
      BY ConstantsAssumption DEF TypeInv, CurrentOK, WalletOfProc
    <2> QED BY <2>1, <2>2 DEF LockInv, WalletOfProc
  <1>2. CASE UNCHANGED lock /\ pc[p] \in Locked /\ \E label \in Locked : Goto(p, label)
    <2>1. PICK label \in Locked : Goto(p, label)
      BY <1>2
    <2>2. pc \in [Procs -> PCs] /\ label \in PCs
      BY DEF TypeInv, TypeOK, PCs
    <2>3. pc'[p] \in Locked /\ \A q \in Procs : q # p => pc'[q] = pc[q]
      BY <2>1, <2>2, GotoStep
    <2>4. ASSUME NEW q \in Procs, pc'[q] \in Locked PROVE lock[WalletOfProc(q)] = q
      BY <1>2, <2>3, <2>4 DEF LockInv
    <2> QED BY <1>2, <2>4 DEF LockInv, WalletOfProc
  <1>3. CASE UNCHANGED lock /\ \E label \in PCs \ Locked : Goto(p, label)
    <2>1. PICK label \in PCs \ Locked : Goto(p, label)
      BY <1>3
    <2>2. pc \in [Procs -> PCs]
      BY DEF TypeInv, TypeOK
    <2>3. pc'[p] \notin Locked /\ \A q \in Procs : q # p => pc'[q] = pc[q]
      BY <2>1, <2>2, GotoStep
    <2>4. ASSUME NEW q \in Procs, pc'[q] \in Locked PROVE lock[WalletOfProc(q)] = q
      BY <2>3, <2>4 DEF LockInv
    <2> QED BY <1>3, <2>4 DEF LockInv, WalletOfProc
  <1> QED BY <1>1, <1>2, <1>3

LEMMA LockNext ==
    ASSUME NoLockLoss, TypeInv, LockInv, [Next]_vars
    PROVE  LockInv'
  <1> USE DEF jobVars
  <1>a. ASSUME NEW a \in Attempts
        PROVE  a \in Procs /\ current[a] \in Attempts
    BY ProcFacts DEF TypeInv, CurrentOK
  <1>b. ASSUME NEW p \in Procs, pc[p] \in Locked \cup {"lock"} PROVE current[p] \in Attempts
    BY <1>b DEF TypeInv, CurrentOK
  <1>1. ASSUME NEW a \in Attempts, PayInvoice(a) PROVE LockInv'
    BY <1>1, <1>a, LockStep DEF PayInvoice, PCs, Locked
  <1>2. ASSUME NEW a \in Attempts, Send(a) PROVE LockInv'
    BY <1>2, <1>a, SendShape, LockStep
  <1>3. ASSUME NEW a \in Attempts, DropConnection(a) PROVE LockInv'
    BY <1>3, <1>a, LockStep DEF DropConnection, Locked
  <1>4. ASSUME NEW u \in Updaters, Update(u) PROVE LockInv'
    <2>1. CASE EndList(u)
      BY <2>1, GotoStep, ProcFacts, SMT DEF EndList, LockInv, WalletOfProc, PCs, Locked, TypeInv, TypeOK
    <2>2. CASE CheckPending(u) \/ FindFlow(u)
      BY <2>2, <1>b, ProcFacts, LockStep DEF CheckPending, FindFlow, Locked
    <2>3. ASSUME NEW a \in Attempts, LookupPayment(u, a) PROVE LockInv'
      <3>1. UNCHANGED lock /\ \A q \in Procs : q # u => current'[q] = current[q]
        BY <2>3 DEF LookupPayment, Lookup, TypeInv, TypeOK
      <3>2. pc'[u] \notin Locked /\ \A q \in Procs : q # u => pc'[q] = pc[q]
        BY <2>3, ProcFacts, GotoStep, SMT DEF LookupPayment, Lookup, TypeInv, TypeOK, PCs, Locked
      <3> QED BY <3>1, <3>2 DEF LockInv, WalletOfProc
    <2> QED BY <1>4, <2>1, <2>2, <2>3, Zenon DEF Update
  <1>5. ASSUME NEW u \in Updaters, NEW w \in Wallets, ListPending(u, w) PROVE LockInv'
    BY <1>5, GotoStep, ProcFacts, SMT DEF ListPending, LockInv, WalletOfProc, PCs, Locked, TypeInv, TypeOK
  <1>6. ASSUME NEW p \in Procs, AcquireLock(p) PROVE LockInv'
    <2>1. /\ lock[WalletOfProc(p)] = None
          /\ lock' = [lock EXCEPT ![WalletOfProc(p)] = p]
          /\ current' = current
      BY <1>6 DEF AcquireLock
    <2>2. /\ \A q \in Procs : q # p => pc'[q] = pc[q]
          /\ WalletOfProc(p) \in Wallets
          /\ lock \in [Wallets -> Procs \cup {None}]
      BY <1>6, <1>b, GotoStep, ConstantsAssumption
      DEF AcquireLock, PCs, Locked, TypeInv, TypeOK, WalletOfProc
    <2> QED BY <2>1, <2>2, ProcFacts, SMT DEF LockInv, WalletOfProc
  <1>7. ASSUME NEW p \in Procs, LockUnavailable(p) PROVE LockInv'
    BY <1>7, <1>b, LockStep DEF LockUnavailable, AfterLock, PCs, Locked
  <1>8. ASSUME NEW p \in Procs, Resolve(p) PROVE LockInv'
    BY <1>8, <1>b, ResolveShape, Labels, LockStep
  <1>9. ASSUME NEW p \in Procs, Interrupt(p) PROVE LockInv'
    BY <1>9, <1>b, LockStep DEF Interrupt
  <1>10. CASE UNCHANGED vars \/ \E h \in Hashes : LndSettle(h) \/ LndFail(h)
    BY <1>10, ZenonT(60) DEF vars, LndSettle, LndFail, LockInv, WalletOfProc
  <1>11. ASSUME NEW w \in Wallets, LoseLock(w) PROVE LockInv'
    BY <1>11 DEF LoseLock, Fault, NoLockLoss
  <1> QED
    BY <1>1, <1>2, <1>3, <1>4, <1>5, <1>6, <1>7, <1>8, <1>9, <1>10, <1>11 DEF Next

-----------------------------------------------------------------------------
(***************************************************************************)
(* No overdraft.                                                           *)
(***************************************************************************)
\* Between the check of the balance and the debit, the balance is enough.
FundsInv ==
    \A a \in Attempts : pc[a] \in {"prepare", "record"} => balance[WalletOf[a]] >= Debit(a)

SolventInv == TypeInv /\ LockInv /\ FundsInv /\ BalanceNonNegative

LEMMA FundsNext ==
    ASSUME NoLockLoss, SolventInv, [Next]_vars
    PROVE  FundsInv' /\ BalanceNonNegative'
  <1> USE DEF jobVars, ledgerVars
  <1>t. /\ TypeInv /\ LockInv
        /\ pc \in [Procs -> PCs] /\ balance \in [Wallets -> Int]
        /\ \A a \in Attempts : /\ WalletOf[a] \in Wallets /\ Debit(a) \in Nat
                               /\ a \in Procs /\ current[a] = a
    BY ConstantsAssumption, ProcFacts, SMT DEF SolventInv, TypeInv, TypeOK, CurrentOK, Debit
  \* A step that takes nobody past the check and debits no wallet.
  <1>g. ASSUME NEW p \in Procs, \A q \in Procs : q # p => pc'[q] = pc[q],
               pc'[p] \notin {"prepare", "record"} \/ pc'[p] = pc[p],
               balance' \in [Wallets -> Int],
               \A w \in Wallets : balance'[w] >= balance[w]
        PROVE  FundsInv' /\ BalanceNonNegative'
    <2>1. ASSUME NEW w \in Wallets PROVE balance'[w] >= 0
      <3>1. balance[w] >= 0
        BY DEF SolventInv, BalanceNonNegative
      <3>2. balance[w] \in Int /\ balance'[w] \in Int /\ balance'[w] >= balance[w]
        BY <1>g, <1>t, ZenonT(60)
      <3> QED BY <3>1, <3>2, SMT
    <2>2. ASSUME NEW a \in Attempts, pc'[a] \in {"prepare", "record"}
          PROVE  balance'[WalletOf[a]] >= Debit(a)
      <3>1. pc[a] \in {"prepare", "record"}
        BY <1>g, <1>t, <2>2, ZenonT(60)
      <3>2. balance[WalletOf[a]] >= Debit(a)
        BY <3>1 DEF SolventInv, FundsInv
      <3>3. /\ balance[WalletOf[a]] \in Int /\ balance'[WalletOf[a]] \in Int
            /\ balance'[WalletOf[a]] >= balance[WalletOf[a]] /\ Debit(a) \in Nat
        BY <1>g, <1>t, ZenonT(60)
      <3> QED BY <3>2, <3>3, SMT
    <2> QED BY <2>1, <2>2, ZenonT(60) DEF FundsInv, BalanceNonNegative, Debit
  <1>h. ASSUME NEW p \in Procs, NEW label \in PCs \ {"prepare", "record"},
               Goto(p, label), UNCHANGED balance
        PROVE  FundsInv' /\ BalanceNonNegative'
    BY <1>h, <1>g, <1>t, GotoStep, SMT
  <1>l. ASSUME NEW p \in Procs, pc[p] \in Locked, Leave(p), UNCHANGED balance
        PROVE  FundsInv' /\ BalanceNonNegative'
    <2>1. current[p] \in Attempts
      BY <1>l, <1>t DEF TypeInv, CurrentOK
    <2>2. pc'[p] \notin {"prepare", "record"} /\ \A q \in Procs : q # p => pc'[q] = pc[q]
      BY <1>l, <1>t, <2>1, LeaveStep
    <2>3. balance' \in [Wallets -> Int] /\ \A w \in Wallets : balance'[w] >= balance[w]
      BY <1>l, <1>t, SMT
    <2> QED BY <2>2, <2>3, <1>g
  <1>1. ASSUME NEW a \in Attempts, PayInvoice(a) PROVE FundsInv' /\ BalanceNonNegative'
    BY <1>1, <1>t, <1>h DEF PayInvoice, PCs
  <1>2. ASSUME NEW a \in Attempts, Send(a) PROVE FundsInv' /\ BalanceNonNegative'
    <2>1. CASE CheckInTransit(a)
      BY <2>1, <1>t, <1>h, <1>l DEF CheckInTransit, PCs, Locked
    <2>2. CASE CheckBalance(a)
      <3>1. CASE balance[WalletOf[a]] < Debit(a)
        BY <2>2, <3>1, <1>t, <1>l DEF CheckBalance, Locked
      <3>2. CASE ~(balance[WalletOf[a]] < Debit(a))
        <4>1. Goto(a, "prepare") /\ UNCHANGED balance
          BY <2>2, <3>2 DEF CheckBalance
        <4> QED BY <3>2, <4>1, <1>t, GotoStep, SMT
            DEF PCs, Locked, SolventInv, FundsInv, BalanceNonNegative, Debit
      <3> QED BY <3>1, <3>2
    <2>3. CASE PrepareSend(a)
      <3>1. CASE aborted[a]
        BY <2>3, <3>1, <1>t, <1>l DEF PrepareSend, Locked
      <3>2. CASE ~aborted[a]
        <4>1. pc[a] = "prepare" /\ Goto(a, "record") /\ UNCHANGED balance
          BY <2>3, <3>2 DEF PrepareSend
        <4> QED BY <4>1, <1>t, GotoStep
            DEF PCs, Locked, SolventInv, FundsInv, BalanceNonNegative, Debit
      <3> QED BY <3>1, <3>2
    <2>4. CASE RecordSend(a)
      <3>1. /\ pc[a] = "record" /\ Goto(a, "pay") /\ Credit(WalletOf[a], -Debit(a))
            /\ balance[WalletOf[a]] >= Debit(a)
        BY <2>4 DEF RecordSend, SolventInv, FundsInv
      <3>2. /\ balance' \in [Wallets -> Int]
            /\ balance'[WalletOf[a]] = balance[WalletOf[a]] - Debit(a)
            /\ \A v \in Wallets : v # WalletOf[a] => balance'[v] = balance[v]
        BY <3>1, <1>t, CreditStep, SMT
      <3>3. BalanceNonNegative'
        BY <3>1, <3>2, <1>t, SMT DEF SolventInv, BalanceNonNegative
      <3>4. ASSUME NEW b \in Attempts, pc'[b] \in {"prepare", "record"}
            PROVE  balance'[WalletOf[b]] >= Debit(b)
        <4>1. b # a /\ pc[b] = pc'[b]
          BY <3>1, <3>4, <1>t, GotoStep, SMT DEF PCs, Locked
        <4>2. WalletOf[b] # WalletOf[a]
          BY <3>1, <3>4, <4>1, <1>t, SMT DEF LockInv, WalletOfProc, Locked
        <4> QED BY <3>2, <3>4, <4>1, <4>2, <1>t DEF SolventInv, FundsInv
      <3> QED BY <3>3, <3>4 DEF FundsInv, Debit
    <2>5. CASE PayStart(a) \/ PayResult(a) \/ PayTimeout(a)
      BY <2>5, <1>t, <1>h DEF PayStart, PayResult, PayTimeout, PCs, Locked
    <2> QED BY <1>2, <2>1, <2>2, <2>3, <2>4, <2>5, Zenon DEF Send
  <1>3. ASSUME NEW a \in Attempts, DropConnection(a) PROVE FundsInv' /\ BalanceNonNegative'
    BY <1>3, <1>t, <1>h, ZenonT(60) DEF DropConnection, PCs, Locked
  <1>4. ASSUME NEW u \in Updaters, Update(u) PROVE FundsInv' /\ BalanceNonNegative'
    <2>1. CASE EndList(u)
      BY <2>1, <1>h, ProcFacts DEF EndList, PCs
    <2>2. CASE CheckPending(u) \/ FindFlow(u)
      BY <2>2, <1>h, <1>l, ProcFacts DEF CheckPending, FindFlow, PCs, Locked
    <2>3. ASSUME NEW a \in Attempts, LookupPayment(u, a) PROVE FundsInv' /\ BalanceNonNegative'
      <3>1. UNCHANGED balance /\ (UNCHANGED pc \/ Goto(u, "lock"))
        BY <2>3 DEF LookupPayment, Lookup
      <3>2. CASE UNCHANGED pc
        BY <3>1, <3>2 DEF SolventInv, FundsInv, BalanceNonNegative, Debit
      <3>3. CASE Goto(u, "lock")
        BY <3>1, <3>3, <1>h, ProcFacts DEF PCs
      <3> QED BY <3>1, <3>2, <3>3
    <2> QED BY <1>4, <2>1, <2>2, <2>3, Zenon DEF Update
  <1>5. ASSUME NEW u \in Updaters, NEW w \in Wallets, ListPending(u, w)
        PROVE  FundsInv' /\ BalanceNonNegative'
    BY <1>5, <1>h, ProcFacts DEF ListPending, PCs
  <1>6. ASSUME NEW p \in Procs, AcquireLock(p) \/ LockUnavailable(p)
        PROVE  FundsInv' /\ BalanceNonNegative'
    BY <1>6, <1>h DEF AcquireLock, LockUnavailable, AfterLock, PCs, Locked
  <1>7. ASSUME NEW p \in Procs, Resolve(p) PROVE FundsInv' /\ BalanceNonNegative'
    <2>1. pc[p] \in Locked /\ current[p] \in Attempts
      BY <1>7, <1>t, ResolveShape DEF TypeInv, CurrentOK
    <2>2. /\ \A q \in Procs : q # p => pc'[q] = pc[q]
          /\ pc'[p] \notin {"prepare", "record"}
      <3>1. CASE Leave(p)
        BY <3>1, <2>1, <1>t, LeaveStep
      <3>2. ASSUME NEW label \in Resolving, Goto(p, label)
            PROVE  pc'[p] = label /\ \A q \in Procs : q # p => pc'[q] = pc[q]
        BY <3>2, <1>t, GotoStep, Labels
      <3> QED BY <1>7, <3>1, <3>2, ResolveShape DEF Resolving
    <2>3. UNCHANGED balance \/ \E w \in Wallets, n \in Nat : Credit(w, n)
      <3>1. CASE SettlePending(p) \/ Finish(p)
        BY <3>1, ZenonT(60) DEF SettlePending, Finish
      <3>2. CASE Revert(p)
        BY <3>2, <2>1, <1>t, ConstantsAssumption, ZenonT(60) DEF Revert
      <3>3. CASE ReimburseFee(p)
        <4> DEFINE difference == MaxFee[current[p]] - outcome[p].fee
        <4>1. outcome \in [Procs -> Outcomes]
          BY <1>t DEF TypeInv, TypeOK
        <4>2. outcome[p].fee \in Nat
          BY <4>1 DEF Outcomes
        <4>3. MaxFee[current[p]] \in Nat
          BY <2>1, ConstantsAssumption
        <4>4. difference \in Int
          BY <4>2, <4>3, SMT
        <4>5. UNCHANGED balance \/ (difference > 0 /\ Credit(WalletOf[current[p]], difference))
          BY <3>3 DEF ReimburseFee
        <4>6. WalletOf[current[p]] \in Wallets
          BY <2>1, <1>t
        <4> HIDE DEF difference
        <4>7. difference > 0 => difference \in Nat
          BY <4>4, SMT
        <4> QED BY <4>5, <4>6, <4>7
      <3> QED BY <1>7, <3>1, <3>2, <3>3, Zenon DEF Resolve
    <2>4. balance' \in [Wallets -> Int] /\ \A w \in Wallets : balance'[w] >= balance[w]
      BY <2>3, <1>t, CreditStep, SMT
    <2> QED BY <2>2, <2>4, <1>g
  <1>8. ASSUME NEW p \in Procs, Interrupt(p) PROVE FundsInv' /\ BalanceNonNegative'
    BY <1>8, <1>l DEF Interrupt
  <1>9. CASE UNCHANGED vars \/ \E h \in Hashes : LndSettle(h) \/ LndFail(h)
    BY <1>9 DEF vars, LndSettle, LndFail, SolventInv, FundsInv, BalanceNonNegative, Debit
  <1>10. ASSUME NEW w \in Wallets, LoseLock(w) PROVE FundsInv' /\ BalanceNonNegative'
    BY <1>10 DEF LoseLock, Fault, NoLockLoss
  <1> QED
    BY <1>1, <1>2, <1>3, <1>4, <1>5, <1>6, <1>7, <1>8, <1>9, <1>10 DEF Next

\* However many attempts, updaters, interruptions and lost connections there are, no
\* wallet is overdrawn by Lightning payments, as long as no lock is lost: the balance
\* that checkBalanceForSend saw is there when recordSendOffChain debits it.
THEOREM NoOverdraft == ASSUME NoLockLoss PROVE Spec => []BalanceNonNegative
  <1>1. Init => SolventInv
    BY TypeInit, ConstantsAssumption, SMT
    DEF Init, SolventInv, LockInv, FundsInv, BalanceNonNegative, Locked, Procs
  <1>2. SolventInv /\ [Next]_vars => SolventInv'
    BY TypeNext, LockNext, FundsNext DEF SolventInv
  <1>3. SolventInv => BalanceNonNegative
    BY DEF SolventInv
  <1> QED
    BY <1>1, <1>2, <1>3, PTL DEF Spec

-----------------------------------------------------------------------------
(***************************************************************************)
(* One pending payment per hash.                                           *)
(***************************************************************************)
\* Between the check and the record of an attempt, no payment of its hash is pending.
Checked == {"balance", "prepare", "record"}
ClearInv == \A a \in Attempts : pc[a] \in Checked => \A b \in pending : HashOf[b] # HashOf[a]

PendingInv == TypeInv /\ LockInv /\ ClearInv /\ OnePendingPerHash

LEMMA PendingNext ==
    ASSUME NoLockLoss, SingleSender, PendingInv, [Next]_vars
    PROVE  ClearInv' /\ OnePendingPerHash'
  <1> DEFINE Goal == ClearInv' /\ OnePendingPerHash'
  <1> USE DEF jobVars, ledgerVars
  <1>t. /\ TypeInv /\ LockInv /\ ClearInv /\ OnePendingPerHash
        /\ pc \in [Procs -> PCs] /\ pending \subseteq Attempts
        /\ \A a \in Attempts : a \in Procs /\ current[a] = a
    BY ProcFacts DEF PendingInv, TypeInv, TypeOK, CurrentOK
  \* A step that takes nobody past the check and records no payment.
  <1>g. ASSUME NEW p \in Procs, \A q \in Procs : q # p => pc'[q] = pc[q],
               pc'[p] \in Checked => pc[p] \in Checked,
               pending' \subseteq pending
        PROVE  Goal
    BY <1>g, <1>t DEF ClearInv, OnePendingPerHash
  <1>h. ASSUME NEW p \in Procs, NEW label \in PCs,
               label \in Checked => pc[p] \in Checked, Goto(p, label), UNCHANGED pending
        PROVE  Goal
    BY <1>h, <1>g, <1>t, GotoStep, SMT
  <1>l. ASSUME NEW p \in Procs, pc[p] \in Locked, Leave(p), UNCHANGED pending
        PROVE  Goal
    <2>1. current[p] \in Attempts
      BY <1>l, <1>t DEF TypeInv, CurrentOK
    <2>2. pc'[p] \notin Checked /\ \A q \in Procs : q # p => pc'[q] = pc[q]
      BY <1>l, <1>t, <2>1, LeaveStep DEF Checked
    <2> QED BY <1>l, <2>2, <1>g
  <1> HIDE DEF Goal
  <1>1. ASSUME NEW a \in Attempts, PayInvoice(a) PROVE Goal
    BY <1>1, <1>t, <1>h DEF PayInvoice, PCs, Checked
  <1>2. ASSUME NEW a \in Attempts, Send(a) PROVE Goal
    <2>1. CASE CheckInTransit(a)
      <3>1. CASE PendingFor(HashOf[a]) # {}
        BY <2>1, <3>1, <1>t, <1>l DEF CheckInTransit, Locked
      <3>2. CASE PendingFor(HashOf[a]) = {}
        <4>1. Goto(a, "balance") /\ UNCHANGED pending
          BY <2>1, <3>2 DEF CheckInTransit
        <4> QED BY <3>2, <4>1, <1>t, GotoStep, SMT
            DEF Goal, PCs, Locked, ClearInv, OnePendingPerHash, PendingFor
      <3> QED BY <3>1, <3>2
    <2>2. CASE CheckBalance(a) \/ PrepareSend(a)
      BY <2>2, <1>t, <1>h, <1>l, ZenonT(60) DEF CheckBalance, PrepareSend, PCs, Locked, Checked
    <2>3. CASE RecordSend(a)
      <3>1. pc[a] = "record" /\ Goto(a, "pay") /\ pending' = pending \cup {a}
        BY <2>3 DEF RecordSend
      <3>2. \A b \in pending : HashOf[b] # HashOf[a]
        BY <3>1, <1>t DEF ClearInv, Checked
      <3>3. OnePendingPerHash'
        BY <3>1, <3>2, <1>t DEF OnePendingPerHash
      <3>4. ASSUME NEW b \in Attempts, pc'[b] \in Checked
            PROVE  \A c \in pending' : HashOf[c] # HashOf[b]
        <4>1. b # a /\ pc[b] = pc'[b]
          BY <3>1, <3>4, <1>t, GotoStep, SMT DEF PCs, Locked, Checked
        <4>2. WalletOf[b] # WalletOf[a]
          BY <3>1, <3>4, <4>1, <1>t, SMT DEF LockInv, WalletOfProc, Locked, Checked
        <4>3. HashOf[b] # HashOf[a]
          BY <4>2 DEF SingleSender
        <4> QED BY <3>1, <3>4, <4>1, <4>3, <1>t DEF ClearInv
      <3> QED BY <3>3, <3>4 DEF Goal, ClearInv
    <2>4. CASE PayStart(a) \/ PayResult(a) \/ PayTimeout(a)
      BY <2>4, <1>t, <1>h, ZenonT(60) DEF PayStart, PayResult, PayTimeout, PCs, Locked, Checked
    <2> QED BY <1>2, <2>1, <2>2, <2>3, <2>4, Zenon DEF Send
  <1>3. ASSUME NEW a \in Attempts, DropConnection(a) PROVE Goal
    BY <1>3, <1>t, <1>h, ZenonT(60) DEF DropConnection, PCs, Locked, Checked
  <1>4. ASSUME NEW u \in Updaters, Update(u) PROVE Goal
    <2>1. CASE EndList(u)
      BY <2>1, <1>h, ProcFacts DEF EndList, PCs, Checked
    <2>2. CASE CheckPending(u) \/ FindFlow(u)
      BY <2>2, <1>h, <1>l, ProcFacts DEF CheckPending, FindFlow, PCs, Locked, Checked
    <2>3. ASSUME NEW a \in Attempts, LookupPayment(u, a) PROVE Goal
      <3>1. UNCHANGED pending /\ (UNCHANGED pc \/ Goto(u, "lock"))
        BY <2>3, ZenonT(60) DEF LookupPayment, Lookup
      <3>2. CASE UNCHANGED pc
        BY <3>1, <3>2, <1>t, ZenonT(60) DEF Goal, ClearInv, OnePendingPerHash
      <3>3. CASE Goto(u, "lock")
        BY <3>1, <3>3, <1>h, ProcFacts DEF PCs, Checked
      <3> QED BY <3>1, <3>2, <3>3
    <2> QED BY <1>4, <2>1, <2>2, <2>3, Zenon DEF Update
  <1>5. ASSUME NEW u \in Updaters, NEW w \in Wallets, ListPending(u, w) PROVE Goal
    BY <1>5, <1>h, ProcFacts DEF ListPending, PCs, Checked
  <1>6. ASSUME NEW p \in Procs, AcquireLock(p) \/ LockUnavailable(p) PROVE Goal
    BY <1>6, <1>h DEF AcquireLock, LockUnavailable, AfterLock, PCs, Locked, Checked
  <1>7. ASSUME NEW p \in Procs, Resolve(p) PROVE Goal
    <2>1. pc[p] \in Locked /\ current[p] \in Attempts
      BY <1>7, <1>t, ResolveShape DEF TypeInv, CurrentOK
    <2>2. /\ \A q \in Procs : q # p => pc'[q] = pc[q]
          /\ pc'[p] \notin Checked
      <3>1. CASE Leave(p)
        BY <3>1, <2>1, <1>t, LeaveStep DEF Checked
      <3>2. ASSUME NEW label \in Resolving, Goto(p, label)
            PROVE  pc'[p] = label /\ \A q \in Procs : q # p => pc'[q] = pc[q]
        BY <3>2, <1>t, GotoStep, Labels
      <3> QED BY <1>7, <3>1, <3>2, ResolveShape DEF Resolving, Checked
    <2> QED BY <1>7, <2>2, <1>g, ResolveShape
  <1>8. ASSUME NEW p \in Procs, Interrupt(p) PROVE Goal
    BY <1>8, <1>l DEF Interrupt
  <1>9. CASE UNCHANGED vars \/ \E h \in Hashes : LndSettle(h) \/ LndFail(h)
    BY <1>9, <1>t, ZenonT(60) DEF Goal, vars, LndSettle, LndFail, ClearInv, OnePendingPerHash
  <1>10. ASSUME NEW w \in Wallets, LoseLock(w) PROVE Goal
    BY <1>10 DEF LoseLock, Fault, NoLockLoss
  <1> QED
    BY <1>1, <1>2, <1>3, <1>4, <1>5, <1>6, <1>7, <1>8, <1>9, <1>10 DEF Next, Goal

\* When the attempts at a hash all come from one wallet and no lock is lost, the check
\* for LnPaymentRequestInTransitError leaves at most one pending payment per hash.
THEOREM OnePending ==
    ASSUME NoLockLoss, SingleSender PROVE Spec => []OnePendingPerHash
  <1>1. Init => PendingInv
    BY TypeInit, ConstantsAssumption
    DEF Init, PendingInv, LockInv, ClearInv, OnePendingPerHash, Locked, Checked, Procs
  <1>2. PendingInv /\ [Next]_vars => PendingInv'
    BY TypeNext, LockNext, PendingNext DEF PendingInv
  <1>3. PendingInv => OnePendingPerHash
    BY DEF PendingInv
  <1> QED
    BY <1>1, <1>2, <1>3, PTL DEF Spec

=============================================================================
