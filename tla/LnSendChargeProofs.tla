------------------------- MODULE LnSendChargeProofs -------------------------
(***************************************************************************)
(* Proofs about LnSend when an invoice is tried once: what a payment gives *)
(* back, when, and that a resolved payment is charged what the node paid.  *)
(***************************************************************************)
EXTENDS LnSendProofs, FiniteSetTheorems

\* Most leaves are first-order steps: Zenon is tried first, unless a leaf cites SMT.
USE Zenon, SMT

-----------------------------------------------------------------------------
(***************************************************************************)
(* The steps, by what they do to a process, to the node and to the ledger. *)
(***************************************************************************)
Stays(p) ==
    /\ pc'[p] = pc[p] /\ current'[p] = current[p] /\ outcome'[p] = outcome[p]
    /\ p \in Updaters => todo'[p] = todo[p]

Acts(p) ==
    \/ p \in Attempts /\ (PayInvoice(p) \/ Send(p) \/ DropConnection(p))
    \/ p \in Updaters /\ (Update(p) \/ \E w \in Wallets : ListPending(p, w))
    \/ AcquireLock(p) \/ LockUnavailable(p) \/ Resolve(p) \/ Interrupt(p)

\* What a process does leaves the others where they are.
LEMMA OthersStay ==
    ASSUME TypeInv, NEW p \in Procs, Acts(p)
    PROVE  \A q \in Procs \ {p} : Stays(q)
  <1> USE DEF jobVars, Stays
  <1>t. /\ pc \in [Procs -> PCs] /\ current \in [Procs -> Attempts \cup {None}]
        /\ todo \in [Updaters -> SUBSET Attempts] /\ outcome \in [Procs -> Outcomes]
    BY DEF TypeInv, TypeOK
  <1>1. CASE PayInvoice(p) \/ Send(p) \/ DropConnection(p)
    BY <1>1, <1>t DEF PayInvoice, Send, CheckInTransit, CheckBalance, PrepareSend, RecordSend,
       PayStart, PayResult, PayTimeout, DropConnection, Leave, Goto
  <1>2. CASE p \in Updaters /\ (Update(p) \/ \E w \in Wallets : ListPending(p, w))
    BY <1>2, <1>t DEF Update, EndList, CheckPending, FindFlow, LookupPayment, Lookup, ListPending,
       Leave, Goto
  <1>3. CASE AcquireLock(p) \/ LockUnavailable(p) \/ Resolve(p) \/ Interrupt(p)
    BY <1>3, <1>t DEF AcquireLock, LockUnavailable, Resolve, SettlePending, Revert, ReimburseFee,
       Finish, Interrupt, Leave, Goto
  <1> QED BY <1>1, <1>2, <1>3 DEF Acts

\* A step is one of a process, of the node or of a lock.
LEMMA OneMoves ==
    ASSUME TypeInv, [Next]_vars
    PROVE  \/ \E p \in Procs : Acts(p) /\ \A q \in Procs \ {p} : Stays(q)
           \/ /\ UNCHANGED <<pc, current, outcome, todo, ledgerVars>>
              /\ lnd' = lnd \/ \E h \in Hashes : LndSettle(h) \/ LndFail(h)
  <1>1. ASSUME NEW p \in Procs, Acts(p)
        PROVE  \E r \in Procs : Acts(r) /\ \A q \in Procs \ {r} : Stays(q)
    BY <1>1, OthersStay
  <1>2. ASSUME NEW h \in Hashes, LndSettle(h) \/ LndFail(h)
        PROVE  UNCHANGED <<pc, current, outcome, todo, ledgerVars>>
    BY <1>2 DEF LndSettle, LndFail, jobVars
  <1>3. ASSUME NEW w \in Wallets, LoseLock(w)
        PROVE  UNCHANGED <<pc, current, outcome, todo, ledgerVars, lnd>>
    BY <1>3 DEF LoseLock, jobVars
  <1>4. ASSUME UNCHANGED vars
        PROVE  UNCHANGED <<pc, current, outcome, todo, ledgerVars, lnd>>
    BY <1>4 DEF vars, ledgerVars
  <1>5. ASSUME Next
        PROVE  \/ \E p \in Procs : Acts(p)
               \/ \E h \in Hashes : LndSettle(h) \/ LndFail(h)
               \/ \E w \in Wallets : LoseLock(w)
    BY <1>5, ProcFacts DEF Next, Acts
  <1> QED BY <1>1, <1>2, <1>3, <1>4, <1>5

-----------------------------------------------------------------------------
RefundKinds == {"void", "usdReimbursement"}
CreditKinds == Kinds \ {"payment"}

\* The places of an attempt before recordSendOffChain, and of a process that has
\* cleared the pending flag and not yet credited the wallet.
Unsent == {"idle", "lock", "check", "balance", "prepare", "record"}
Giving == {"revert", "reimburse"}
Gives(p, a) == pc[p] \in Giving /\ current[p] = a

\* An updater has the payment in its list or in its hands.
Follows(u, a) == a \in todo[u] \/ (pc[u] \in Locked \cup {"lock"} /\ current[u] = a)

\* The three writes of the ledger: a payment is recorded, its flag is cleared, it is
\* credited.
RecordMove(a) ==
    /\ pc[a] = "record" /\ pc'[a] = "pay"
    /\ Append1("payment", a) /\ pending' = pending \cup {a}
ClearMove(p) ==
    /\ pc[p] = "settle" /\ pc'[p] = NextStep(p) /\ current'[p] = current[p]
    /\ PendingFor(HashOfProc(p)) # {} /\ pending' = pending \ PendingFor(HashOfProc(p))
    /\ UNCHANGED <<ledger, lnd>>
GiveMove(p) ==
    /\ pc[p] \in Giving /\ pc'[p] = "finish" /\ UNCHANGED <<pending, lnd>>
    /\ \E kind \in CreditKinds :
          /\ Append1(kind, current[p])
          /\ pc[p] = "revert" => kind \in RefundKinds
          /\ pc[p] = "reimburse" => /\ kind = "feeReimbursement"
                                    /\ MaxFee[current[p]] - outcome[p].fee > 0

\* What a step writes to the ledger and the flags.
LedgerMove(p) ==
    \/ UNCHANGED <<ledger, pending>>
    \/ p \in Attempts /\ RecordMove(p)
    \/ ClearMove(p)
    \/ GiveMove(p)

LEMMA LedgerStep ==
    ASSUME TypeInv, NEW p \in Procs, Acts(p)
    PROVE  LedgerMove(p)
  <1> USE DEF jobVars, ledgerVars
  <1>t. pc \in [Procs -> PCs]
    BY DEF TypeInv, TypeOK
  <1>1. CASE \/ PayInvoice(p) \/ DropConnection(p) \/ AcquireLock(p) \/ LockUnavailable(p)
             \/ Interrupt(p) \/ Update(p) \/ \E w \in Wallets : ListPending(p, w)
    <2>1. UNCHANGED <<ledger, pending>>
      BY <1>1 DEF PayInvoice, DropConnection, AcquireLock, LockUnavailable, Interrupt, Update, EndList,
         CheckPending, FindFlow, LookupPayment, Lookup, ListPending
    <2> QED BY <2>1 DEF LedgerMove
  <1>2. CASE p \in Attempts /\ Send(p)
    <2>1. CASE RecordSend(p)
      BY <2>1, <1>2, <1>t DEF LedgerMove, RecordMove, RecordSend, Goto
    <2>2. CASE ~RecordSend(p)
      <3>1. UNCHANGED <<ledger, pending>>
        BY <1>2, <2>2 DEF Send, CheckInTransit, CheckBalance, PrepareSend, PayStart, PayResult, PayTimeout
      <3> QED BY <3>1 DEF LedgerMove
    <2> QED BY <2>1, <2>2
  <1>3. CASE SettlePending(p)
    <2>1. UNCHANGED <<ledger, lnd, current>>
      BY <1>3 DEF SettlePending
    <2>2. CASE PendingFor(HashOfProc(p)) = {}
      BY <1>3, <2>1, <2>2 DEF LedgerMove, SettlePending
    <2>3. CASE PendingFor(HashOfProc(p)) # {}
      BY <1>3, <2>1, <2>3, <1>t DEF LedgerMove, ClearMove, SettlePending, Goto
    <2> QED BY <2>2, <2>3
  <1>4. CASE Revert(p)
    <2>1. pc[p] = "revert" /\ UNCHANGED <<pending, lnd>>
      BY <1>4 DEF Revert
    <2>2. ASSUME NEW kind \in RefundKinds, Append1(kind, current[p]), Goto(p, "finish")
          PROVE  LedgerMove(p)
      <3>1. kind \in CreditKinds /\ pc'[p] = "finish"
        BY <2>2, <1>t DEF RefundKinds, CreditKinds, Kinds, Goto
      <3> QED BY <2>1, <2>2, <3>1 DEF LedgerMove, GiveMove, Giving
    <2>3. UNCHANGED ledger \/ \E kind \in RefundKinds : Append1(kind, current[p]) /\ Goto(p, "finish")
      BY <1>4 DEF Revert, RefundKinds
    <2> QED BY <2>1, <2>2, <2>3 DEF LedgerMove
  <1>5. CASE ReimburseFee(p)
    <2>1. pc[p] = "reimburse" /\ UNCHANGED <<pending, lnd>>
      BY <1>5 DEF ReimburseFee
    <2>2. ASSUME Append1("feeReimbursement", current[p]), Goto(p, "finish"),
                 MaxFee[current[p]] - outcome[p].fee > 0
          PROVE  LedgerMove(p)
      <3>1. "feeReimbursement" \in CreditKinds /\ pc'[p] = "finish"
        BY <2>2, <1>t DEF CreditKinds, Kinds, Goto
      <3> QED BY <2>1, <2>2, <3>1 DEF LedgerMove, GiveMove, Giving
    <2>3. \/ UNCHANGED ledger
          \/ /\ Append1("feeReimbursement", current[p]) /\ Goto(p, "finish")
             /\ MaxFee[current[p]] - outcome[p].fee > 0
      BY <1>5 DEF ReimburseFee
    <2> QED BY <2>1, <2>2, <2>3 DEF LedgerMove
  <1>6. CASE Finish(p)
    BY <1>6 DEF Finish, LedgerMove
  <1> QED BY <1>1, <1>2, <1>3, <1>4, <1>5, <1>6 DEF Acts, Resolve

\* An attempt does not come back to the steps before the record, nor before the call of
\* the node; an updater takes up what is pending; only who clears a flag gives back.
LEMMA PlacesStep ==
    ASSUME TypeInv, NEW p \in Procs, Acts(p)
    PROVE  /\ p \in Attempts => /\ pc'[p] \in Unsent => pc[p] \in Unsent
                                /\ pc'[p] \in Unsent \cup {"pay"} => pc[p] \in Unsent \cup {"pay"}
           /\ p \in Updaters => \A a \in Attempts : Follows(p, a)' => Follows(p, a) \/ a \in pending
           /\ \A a \in Attempts : Gives(p, a)' => ClearMove(p) /\ current[p] = a
  <1> USE DEF jobVars, ledgerVars
  <1>t. /\ pc \in [Procs -> PCs] /\ current \in [Procs -> Attempts \cup {None}]
        /\ todo \in [Updaters -> SUBSET Attempts]
    BY DEF TypeInv, TypeOK
  <1>n. p \in Attempts => p \notin Updaters
    BY ConstantsAssumption
  <1>l. ASSUME Leave(p)
        PROVE  pc'[p] \in {"done", "next"} /\ (p \in Attempts => pc'[p] = "done")
    BY <1>l, <1>t DEF Leave, AfterLock, Goto
  <1>1. ASSUME p \in Attempts
        PROVE  /\ pc'[p] \in Unsent => pc[p] \in Unsent
               /\ pc'[p] \in Unsent \cup {"pay"} => pc[p] \in Unsent \cup {"pay"}
    <2>1. CASE PayInvoice(p) \/ DropConnection(p) \/ AcquireLock(p) \/ LockUnavailable(p) \/ Interrupt(p)
      BY <2>1, <1>1, <1>l, <1>t DEF PayInvoice, DropConnection, AcquireLock, LockUnavailable, Interrupt,
         AfterLock, Goto, Unsent
    <2>2. CASE Send(p)
      BY <2>2, <1>1, <1>l, <1>t DEF Send, CheckInTransit, CheckBalance, PrepareSend, RecordSend, PayStart,
         PayResult, PayTimeout, Goto, Unsent
    <2>3. CASE Resolve(p)
      BY <2>3, <1>1, <1>l, <1>t DEF Resolve, SettlePending, NextStep, Revert, ReimburseFee, Finish, Goto,
         Unsent
    <2> QED BY <2>1, <2>2, <2>3, <1>1, <1>n DEF Acts
  <1>2. ASSUME p \in Updaters, NEW a \in Attempts, Follows(p, a)'
        PROVE  Follows(p, a) \/ a \in pending
    <2>1. CASE \E w \in Wallets : ListPending(p, w)
      BY <2>1, <1>2, <1>t DEF ListPending, Goto, Follows, Locked
    <2>2. CASE \E b \in Attempts : LookupPayment(p, b)
      BY <2>2, <1>2, <1>t DEF LookupPayment, Lookup, Goto, Follows, Locked
    <2>3. ASSUME UNCHANGED <<current, todo>>, pc[p] \in Locked \cup {"lock"}
          PROVE  Follows(p, a)
      BY <2>3, <1>2 DEF Follows
    <2>4. CASE EndList(p) \/ CheckPending(p) \/ FindFlow(p)
      BY <2>4, <2>3, <1>2, <1>l, <1>t DEF EndList, CheckPending, FindFlow, Goto, Follows, Locked
    <2>5. CASE Resolve(p) \/ AcquireLock(p) \/ LockUnavailable(p) \/ Interrupt(p)
      BY <2>5, <2>3 DEF Resolve, SettlePending, Revert, ReimburseFee, Finish, AcquireLock,
         LockUnavailable, Interrupt, Locked
    <2> QED BY <2>1, <2>2, <2>4, <2>5, <1>2, <1>n DEF Acts, Update
  <1>3. ASSUME NEW a \in Attempts, Gives(p, a)'
        PROVE  ClearMove(p) /\ current[p] = a
    <2>1. SettlePending(p) /\ PendingFor(HashOfProc(p)) # {}
      <3>1. CASE \/ p \in Attempts /\ (PayInvoice(p) \/ Send(p) \/ DropConnection(p))
                 \/ AcquireLock(p) \/ LockUnavailable(p) \/ Interrupt(p)
        BY <3>1, <1>3, <1>l, <1>t DEF PayInvoice, DropConnection, AcquireLock, LockUnavailable, Interrupt,
           Send, CheckInTransit, CheckBalance, PrepareSend, RecordSend, PayStart,
           PayResult, PayTimeout, AfterLock, Goto, Gives, Giving
      <3>2. CASE p \in Updaters /\ (Update(p) \/ \E w \in Wallets : ListPending(p, w))
        BY <3>2, <1>3, <1>l, <1>t DEF Update, EndList, CheckPending, FindFlow, LookupPayment, Lookup,
           ListPending, Goto, Gives, Giving
      <3>3. CASE Revert(p) \/ ReimburseFee(p) \/ Finish(p)
        BY <3>3, <1>3, <1>l, <1>t DEF Revert, ReimburseFee, Finish, Goto, Gives, Giving
      <3>4. CASE SettlePending(p)
        BY <3>4, <1>3, <1>l DEF SettlePending, Gives, Giving
      <3> QED BY <3>1, <3>2, <3>3, <3>4 DEF Acts, Resolve
    <2>2. UNCHANGED current
      BY <2>1 DEF SettlePending
    <2> QED BY <2>1, <2>2, <1>3, <1>t DEF SettlePending, ClearMove, Gives, Goto
  <1> QED BY <1>1, <1>2, <1>3

-----------------------------------------------------------------------------
(***************************************************************************)
(* A payment is credited once: the right to credit it passes from its flag *)
(* to the process that clears the flag, and from there to the credit.      *)
(***************************************************************************)
Credits(a) == Places(CreditKinds, a)

CreditOK(a) ==
    /\ pc[a] \in Unsent => /\ a \notin pending /\ Credits(a) = {}
                           /\ \A u \in Updaters : ~Follows(u, a)
    /\ a \in pending => Credits(a) = {} /\ \A p \in Procs : ~Gives(p, a)
    /\ \A p \in Procs : Gives(p, a) =>
          Credits(a) = {} /\ \A q \in Procs : Gives(q, a) => q = p
    /\ \A i, j \in Credits(a) : i = j

CreditInv == \A a \in Attempts : CreditOK(a)

\* A new entry has the place after the last one.
LEMMA PlacesAppend ==
    ASSUME TypeInv, NEW kind \in Kinds, NEW b \in Attempts, Append1(kind, b),
           NEW a \in Attempts, NEW kinds
    PROVE  /\ a = b /\ kind \in kinds => Places(kinds, a)' = Places(kinds, a) \cup {Len(ledger) + 1}
           /\ a # b \/ kind \notin kinds => Places(kinds, a)' = Places(kinds, a)
  <1> DEFINE e == [kind |-> kind, of |-> b]
  <1>1. ledger \in Seq(Entries) /\ e \in Entries /\ ledger' = Append(ledger, e)
    BY SMT DEF TypeInv, TypeOK, Entries, Append1
  <1>2. /\ DOMAIN ledger = 1..Len(ledger) /\ Len(ledger) \in Nat
        /\ DOMAIN ledger' = 1..(Len(ledger) + 1)
        /\ \A i \in 1..Len(ledger) : ledger'[i] = ledger[i]
        /\ ledger'[Len(ledger) + 1] = e
    BY <1>1, SMT
  <1>3. e.of = b /\ e.kind = kind
    BY SMT
  <1> HIDE DEF e
  <1> QED BY <1>2, <1>3, SMT DEF Places

LEMMA PlacesKept ==
    ASSUME UNCHANGED ledger
    PROVE  \A kinds, a : Places(kinds, a)' = Places(kinds, a)
  BY DEF Places

\* What a credit, and the record of a payment, do to the credits of an attempt.
LEMMA CreditsStep ==
    ASSUME TypeInv, NEW p \in Procs, NEW a \in Attempts
    PROVE  /\ GiveMove(p) /\ current[p] = a /\ Credits(a) = {} =>
                 Credits(a)' # {} /\ \A i, j \in Credits(a)' : i = j
           /\ GiveMove(p) /\ current[p] \in Attempts /\ current[p] # a => Credits(a)' = Credits(a)
           /\ p \in Attempts /\ RecordMove(p) => Credits(a)' = Credits(a)
           /\ ClearMove(p) \/ UNCHANGED ledger => Credits(a)' = Credits(a)
  <1>1. ASSUME NEW b \in Attempts, current[p] = b, GiveMove(p)
        PROVE  /\ a = b => Credits(a)' = Credits(a) \cup {Len(ledger) + 1}
               /\ a # b => Credits(a)' = Credits(a)
    <2>1. PICK kind \in CreditKinds : Append1(kind, b)
      BY <1>1 DEF GiveMove
    <2>2. kind \in Kinds
      BY DEF CreditKinds
    <2> QED BY <2>1, <2>2, PlacesAppend DEF Credits
  <1>2. ASSUME p \in Attempts, RecordMove(p)
        PROVE  Credits(a)' = Credits(a)
    <2>1. Append1("payment", p) /\ "payment" \in Kinds /\ "payment" \notin CreditKinds
      BY <1>2 DEF RecordMove, Kinds, CreditKinds
    <2> QED BY <2>1, <1>2, PlacesAppend DEF Credits
  <1>3. ASSUME UNCHANGED ledger
        PROVE  Credits(a)' = Credits(a)
    BY <1>3, PlacesKept DEF Credits
  <1> QED BY <1>1, <1>2, <1>3 DEF ClearMove

\* What clearing the flag of a payment does when its invoice is tried once.
LEMMA ClearStep ==
    ASSUME SingleAttempt, TypeInv, NEW p \in Procs, ClearMove(p)
    PROVE  /\ current[p] \in pending /\ pending' = pending \ {current[p]}
           /\ current[p] \in Attempts
  <1>1. current[p] \in Attempts /\ pending \subseteq Attempts
    BY DEF ClearMove, TypeInv, TypeOK, CurrentOK, Locked
  <1> QED BY <1>1 DEF ClearMove, PendingFor, HashOfProc, SingleAttempt

LEMMA CreditNext ==
    ASSUME SingleAttempt, TypeInv, CreditInv, [Next]_vars
    PROVE  CreditInv'
  <1> SUFFICES ASSUME NEW a \in Attempts
               PROVE  CreditOK(a)'
    BY DEF CreditInv
  <1>a. CreditOK(a) /\ a \in Procs /\ a \notin Updaters
    BY ProcFacts, ConstantsAssumption DEF CreditInv
  <1>1. CASE UNCHANGED <<pc, current, outcome, todo, ledgerVars>>
    <2>1. Credits(a)' = Credits(a) /\ pending' = pending
      BY <1>1, PlacesKept DEF ledgerVars, Credits
    <2> QED BY <1>1, <1>a, <2>1 DEF CreditOK, Follows, Gives
  <1>2. ASSUME NEW p \in Procs, Acts(p), \A q \in Procs \ {p} : Stays(q)
        PROVE  CreditOK(a)'
    <2>s. pc'[a] \in Unsent => pc[a] \in Unsent
      BY <1>2, <1>a, PlacesStep DEF Stays
    <2>f. \A u \in Updaters : Follows(u, a)' => Follows(u, a) \/ a \in pending
      BY <1>2, ProcFacts, PlacesStep DEF Stays, Follows
    <2>g. \A q \in Procs : Gives(q, a)' =>
             (q # p /\ Gives(q, a)) \/ (q = p /\ ClearMove(p) /\ current[p] = a)
      BY <1>2, PlacesStep DEF Stays, Gives
    <2>c. \A q \in Procs : Gives(q, a) => (q \in Attempts => q = a) /\ (q \in Updaters => Follows(q, a))
      BY DEF Gives, Follows, Giving, Locked, TypeInv, CurrentOK
    <2>1. CASE UNCHANGED <<ledger, pending>>
      <3>1. Credits(a)' = Credits(a) /\ ~ClearMove(p)
        BY <2>1, CreditsStep, ClearStep
      <3> QED BY <3>1, <2>1, <2>s, <2>f, <2>g, <1>a DEF CreditOK
    <2>2. CASE p \in Attempts /\ RecordMove(p)
      <3>1. Credits(a)' = Credits(a) /\ pending' = pending \cup {p} /\ ~ClearMove(p)
        BY <2>2, CreditsStep DEF RecordMove, ClearMove
      <3>2. CASE a # p
        BY <3>1, <3>2, <2>s, <2>f, <2>g, <1>a DEF CreditOK
      <3>3. CASE a = p
        <4>1. pc[a] \in Unsent /\ pc[a] \notin Giving /\ pc'[a] \notin Unsent
          BY <2>2, <3>3 DEF RecordMove, Unsent, Giving
        <4>2. Credits(a) = {} /\ \A q \in Procs : ~Gives(q, a)
          BY <4>1, <2>c, <1>a DEF CreditOK, Gives, Procs
        <4> QED BY <4>1, <4>2, <3>1, <2>g DEF CreditOK
      <3> QED BY <3>2, <3>3
    <2>3. CASE ClearMove(p)
      <3>1. Credits(a)' = Credits(a) /\ current[p] \in pending /\ pending' = pending \ {current[p]}
        BY <2>3, CreditsStep, ClearStep
      <3> QED BY <3>1, <2>s, <2>f, <2>g, <1>a DEF CreditOK
    <2>4. CASE GiveMove(p)
      <3>1. pending' = pending /\ ~ClearMove(p) /\ current[p] \in Attempts /\ Gives(p, current[p])
        BY <2>4 DEF GiveMove, ClearMove, Gives, Giving, Locked, TypeInv, CurrentOK
      <3>2. CASE current[p] # a
        <4>1. Credits(a)' = Credits(a)
          BY <2>4, <3>1, <3>2, CreditsStep
        <4> QED BY <4>1, <3>1, <2>s, <2>f, <2>g, <1>a DEF CreditOK
      <3>3. CASE current[p] = a
        <4>1. Gives(p, a) /\ Credits(a) = {} /\ a \notin pending
          BY <3>1, <3>3, <1>a DEF CreditOK
        <4>2. \A q \in Procs : ~Gives(q, a)'
          BY <4>1, <3>1, <2>g, <1>a DEF CreditOK
        <4>3. pc[a] \notin Unsent
          BY <4>1, <2>c, <1>a DEF CreditOK, Gives, Giving, Unsent, Procs
        <4>4. \A i, j \in Credits(a)' : i = j
          BY <2>4, <3>3, <4>1, CreditsStep
        <4> QED BY <4>1, <4>2, <4>3, <4>4, <3>1, <2>s DEF CreditOK
      <3> QED BY <3>2, <3>3
    <2> QED BY <1>2, <2>1, <2>2, <2>3, <2>4, LedgerStep DEF LedgerMove
  <1> QED BY <1>1, <1>2, OneMoves

\* A set of at most one element counts at most one.
LEMMA CountOne ==
    ASSUME NEW S, \A x, y \in S : x = y
    PROVE  /\ S = {} => Cardinality(S) = 0
           /\ S # {} => Cardinality(S) = 1
  <1>1. S = {} => Cardinality(S) = 0
    BY FS_EmptySet
  <1>2. ASSUME S # {}
        PROVE  Cardinality(S) = 1
    <2>1. PICK x \in S : TRUE
      BY <1>2
    <2>2. S = {x}
      BY <2>1
    <2> QED BY <2>2, FS_Singleton
  <1> QED BY <1>1, <1>2

LEMMA CreditAlways == ASSUME SingleAttempt PROVE Spec => []CreditInv
  <1>1. Init => CreditInv
    <2> SUFFICES ASSUME Init, NEW a \in Attempts
                 PROVE  CreditOK(a)
      BY DEF CreditInv
    <2>1. Credits(a) = {}
      BY SMT DEF Init, Credits, Places
    <2> QED BY <2>1 DEF Init, CreditOK, Gives, Follows, Giving, Locked, Procs
  <1>2. TypeInv /\ CreditInv /\ [Next]_vars => CreditInv'
    BY CreditNext
  <1> QED BY <1>1, <1>2, TypeInit, TypeNext, PTL DEF Spec

\* Whatever fails, stops, times out or loses its lock: a payment whose invoice is tried
\* once is given back at most once, or has its unused fee reimbursed at most once, and
\* never both (settlePendingLnSend is the one place where the flag is cleared).
THEOREM CreditedAtMostOnce == ASSUME SingleAttempt PROVE Spec => []AtMostOneCredit
  <1>1. CreditInv => AtMostOneCredit
    <2> SUFFICES ASSUME CreditInv, NEW a \in Attempts
                 PROVE  Count(Kinds \ {"payment"}, a) <= 1
      BY DEF AtMostOneCredit
    <2>1. \A i, j \in Credits(a) : i = j
      BY DEF CreditInv, CreditOK
    <2>2. Cardinality(Credits(a)) \in {0, 1}
      BY <2>1, CountOne
    <2> QED BY <2>2, SMT DEF Count, Credits, CreditKinds
  <1> QED BY <1>1, CreditAlways, PTL

-----------------------------------------------------------------------------
(***************************************************************************)
(* What is given back was not paid: who gives back has the last word of    *)
(* the node, which does not change when an invoice is tried once.          *)
(***************************************************************************)
NoDrop == "dropConnection" \notin FaultKinds

Ended == {"settled", "failed"}
BeforeCall == Unsent \cup {"pay"}

\* The node has one payment of a hash, by the attempt that called it, and knows its fee.
NodeOK(h) ==
    /\ lnd[h].status = "none" <=> lnd[h].by = None
    /\ lnd[h].status # "none" => /\ lnd[h].by \in Attempts /\ HashOf[lnd[h].by] = h
                                 /\ pc[lnd[h].by] \notin BeforeCall
    /\ lnd[h].status = "settled" =>
          /\ lnd[h].fee \in 0..MaxFee[lnd[h].by]
          /\ lnd[h].by \in RouteKnown => lnd[h].fee = MaxFee[lnd[h].by]

\* Who acts on an answer, and what it is: the end of the payment at the node or, for an
\* attempt, a failure before the call reached the node.
Asked(p) == IF p \in Attempts THEN {"settle", "revert", "reimburse"} ELSE Locked \cup {"lock"}
Told(p) ==
    \/ outcome[p] = lnd[HashOfProc(p)] /\ outcome[p].status \in Ended
    \/ p \in Attempts /\ outcome[p].status = "failed" /\ lnd[HashOf[p]].by # p

AnswerOK(p) ==
    /\ pc[p] \in Asked(p) => Told(p)
    /\ pc[p] = "revert" => outcome[p].status = "failed"
    /\ pc[p] = "reimburse" => outcome[p].status = "settled" /\ current[p] \notin RouteKnown

RefundOK(a) ==
    Places(RefundKinds, a) # {} =>
        /\ pc[a] \notin BeforeCall
        /\ lnd[HashOf[a]].by = a => lnd[HashOf[a]].status = "failed"

AnswerInv ==
    /\ \A h \in Hashes : NodeOK(h)
    /\ \A p \in Procs : AnswerOK(p)
    /\ \A a \in Attempts : RefundOK(a)

LEMMA AnswerFields ==
    \A s, b, n : Answer(s, b, n).status = s /\ Answer(s, b, n).by = b /\ Answer(s, b, n).fee = n
  BY SMT DEF Answer

\* What a step does to the payment of a hash in the node.
NodeMove(h) ==
    \/ lnd'[h] = lnd[h]
    \/ \E a \in Attempts :
          /\ HashOf[a] = h /\ pc[a] = "pay" /\ pc'[a] = "wait"
          /\ lnd'[h] = Answer("inflight", a, 0)
    \/ /\ lnd[h].status = "inflight" /\ UNCHANGED <<pc, ledger, pending>>
       /\ \/ lnd'[h] = Answer("failed", lnd[h].by, 0)
          \/ \E fee \in 0..MaxFee[lnd[h].by] :
                /\ lnd[h].by \in RouteKnown => fee = MaxFee[lnd[h].by]
                /\ lnd'[h] = Answer("settled", lnd[h].by, fee)

LEMMA NodeStep ==
    ASSUME TypeInv, [Next]_vars, NEW h \in Hashes
    PROVE  NodeMove(h)
  <1>t. lnd \in [Hashes -> LndPayments] /\ pc \in [Procs -> PCs]
    BY DEF TypeInv, TypeOK
  <1>1. ASSUME NEW g \in Hashes, LndSettle(g) \/ LndFail(g)
        PROVE  NodeMove(h)
    BY <1>1, <1>t DEF LndSettle, LndFail, NodeMove, ledgerVars
  <1>2. ASSUME NEW p \in Procs, Acts(p)
        PROVE  NodeMove(h)
    <2>1. CASE p \in Attempts /\ PayStart(p)
      BY <2>1, <1>t, ConstantsAssumption DEF PayStart, NodeMove, Goto
    <2>2. CASE ~(p \in Attempts /\ PayStart(p))
      <3>1. lnd' = lnd
        <4>1. CASE p \in Attempts /\ (PayInvoice(p) \/ Send(p) \/ DropConnection(p))
          BY <4>1, <2>2 DEF PayInvoice, Send, CheckInTransit, CheckBalance, PrepareSend, RecordSend,
             PayResult, PayTimeout, DropConnection
        <4>2. CASE Update(p) \/ \E w \in Wallets : ListPending(p, w)
          BY <4>2 DEF Update, EndList, CheckPending, FindFlow, LookupPayment, Lookup, ListPending
        <4>3. CASE AcquireLock(p) \/ LockUnavailable(p) \/ Resolve(p) \/ Interrupt(p)
          BY <4>3 DEF AcquireLock, LockUnavailable, Resolve, SettlePending, Revert, ReimburseFee,
             Finish, Interrupt
        <4> QED BY <1>2, <4>1, <4>2, <4>3 DEF Acts
      <3> QED BY <3>1 DEF NodeMove
    <2> QED BY <2>1, <2>2
  <1> QED BY <1>1, <1>2, OneMoves DEF NodeMove

\* Nobody comes back to the steps before the call.
LEMMA CallStep ==
    ASSUME TypeInv, [Next]_vars, NEW a \in Attempts
    PROVE  pc'[a] \in BeforeCall => pc[a] \in BeforeCall
  BY OneMoves, PlacesStep, ProcFacts DEF Stays, BeforeCall

LEMMA NodeNext ==
    ASSUME TypeInv, [Next]_vars, NEW h \in Hashes, NodeOK(h)
    PROVE  NodeOK(h)'
  <1>1. CASE lnd'[h] = lnd[h]
    BY <1>1, CallStep DEF NodeOK
  <1>2. ASSUME NEW a \in Attempts, HashOf[a] = h, pc'[a] = "wait", lnd'[h] = Answer("inflight", a, 0)
        PROVE  NodeOK(h)'
    <2>1. lnd'[h].status = "inflight" /\ lnd'[h].by = a
      BY <1>2, AnswerFields
    <2>2. a # None /\ pc'[a] \notin BeforeCall
      BY <1>2, ProcFacts DEF BeforeCall, Unsent
    <2> QED BY <1>2, <2>1, <2>2 DEF NodeOK
  <1>3. ASSUME lnd[h].status = "inflight", UNCHANGED pc, lnd'[h] = Answer("failed", lnd[h].by, 0)
        PROVE  NodeOK(h)'
    <2>1. lnd'[h].status = "failed" /\ lnd'[h].by = lnd[h].by
      BY <1>3, AnswerFields
    <2> QED BY <1>3, <2>1 DEF NodeOK
  <1>4. ASSUME lnd[h].status = "inflight", UNCHANGED pc, NEW fee \in 0..MaxFee[lnd[h].by],
               lnd[h].by \in RouteKnown => fee = MaxFee[lnd[h].by],
               lnd'[h] = Answer("settled", lnd[h].by, fee)
        PROVE  NodeOK(h)'
    <2>1. lnd'[h].status = "settled" /\ lnd'[h].by = lnd[h].by /\ lnd'[h].fee = fee
      BY <1>4, AnswerFields
    <2> QED BY <1>4, <2>1 DEF NodeOK
  <1> QED BY <1>1, <1>2, <1>3, <1>4, NodeStep DEF NodeMove

\* Whose payment of the hash the node has, when the invoice is tried once.
LEMMA OwnPayment ==
    ASSUME SingleAttempt, NEW a \in Attempts, NodeOK(HashOf[a]), lnd[HashOf[a]].status # "none"
    PROVE  lnd[HashOf[a]].by = a /\ pc[a] \notin BeforeCall
  BY DEF SingleAttempt, NodeOK

\* The end of a payment is its last word, and a payment that was not made before the
\* attempt went on is not made later.
LEMMA EndKept ==
    ASSUME SingleAttempt, TypeInv, [Next]_vars, NEW a \in Attempts, NodeOK(HashOf[a])
    PROVE  /\ lnd[HashOf[a]].status \in Ended => lnd'[HashOf[a]] = lnd[HashOf[a]]
           /\ pc[a] \notin BeforeCall /\ lnd[HashOf[a]].by # a => lnd'[HashOf[a]].by # a
  <1> DEFINE h == HashOf[a]
  <1>t. h \in Hashes
    BY ConstantsAssumption
  <1>1. NodeMove(h)
    BY <1>t, NodeStep
  <1>2. ASSUME NEW b \in Attempts, HashOf[b] = h, pc[b] = "pay"
        PROVE  b = a /\ lnd[h].status = "none" /\ pc[a] \in BeforeCall
    <2>1. b = a /\ pc[a] \in BeforeCall
      BY <1>2 DEF SingleAttempt, BeforeCall
    <2> QED BY <2>1, OwnPayment
  <1>3. ASSUME lnd[h].status = "inflight", NEW fee,
               \/ lnd'[h] = Answer("failed", lnd[h].by, 0)
               \/ lnd'[h] = Answer("settled", lnd[h].by, fee)
        PROVE  lnd'[h].by = lnd[h].by /\ lnd[h].status \notin Ended
    BY <1>3, AnswerFields DEF Ended
  <1>4. "none" \notin Ended
    BY DEF Ended
  <1> HIDE DEF h
  <1>5. /\ lnd[h].status \in Ended => lnd'[h] = lnd[h]
        /\ pc[a] \notin BeforeCall /\ lnd[h].by # a => lnd'[h].by # a
    BY <1>1, <1>2, <1>3, <1>4 DEF NodeMove
  <1> QED BY <1>5 DEF h

LEMMA ToldKept ==
    ASSUME SingleAttempt, TypeInv, \A h \in Hashes : NodeOK(h), [Next]_vars, NEW p \in Procs,
           pc[p] \in Asked(p), Told(p), outcome'[p] = outcome[p], current'[p] = current[p]
    PROVE  Told(p)'
  <1>t. current[p] \in Attempts /\ HashOf[current[p]] \in Hashes /\ (p \in Attempts => current[p] = p)
    BY ConstantsAssumption DEF TypeInv, CurrentOK, Asked, Locked
  <1>1. CASE outcome[p] = lnd[HashOfProc(p)] /\ outcome[p].status \in Ended
    <2>1. lnd'[HashOf[current[p]]] = lnd[HashOf[current[p]]]
      BY <1>1, <1>t, EndKept DEF HashOfProc
    <2> QED BY <1>1, <2>1 DEF Told, HashOfProc
  <1>2. CASE p \in Attempts /\ outcome[p].status = "failed" /\ lnd[HashOf[p]].by # p
    <2>1. pc[p] \notin BeforeCall
      BY <1>2 DEF Asked, BeforeCall, Unsent
    <2>2. lnd'[HashOf[p]].by # p
      BY <1>2, <1>t, <2>1, EndKept
    <2> QED BY <1>2, <2>2 DEF Told
  <1> QED BY <1>1, <1>2 DEF Told

\* What an answer says of the payment that a process works on.
LEMMA ToldMeans ==
    ASSUME SingleAttempt, TypeInv, \A h \in Hashes : NodeOK(h), NEW p \in Procs,
           pc[p] \in Asked(p), Told(p), NEW a \in Attempts, current[p] = a
    PROVE  /\ outcome[p].status \in Ended
           /\ outcome[p].status = "settled" => PaidByLnd(a) /\ outcome[p] = lnd[HashOf[a]]
           /\ outcome[p].status = "failed" /\ lnd[HashOf[a]].by = a =>
                 lnd[HashOf[a]].status = "failed"
           /\ p \notin Attempts => outcome[p].by = a /\ pc[a] \notin BeforeCall
           /\ lnd[HashOf[a]].by = a => lnd[HashOf[a]].status # "inflight"
  <1>t. HashOf[a] \in Hashes /\ NodeOK(HashOf[a]) /\ (p \in Attempts => p = a)
    BY ConstantsAssumption DEF TypeInv, CurrentOK
  <1>e. Ended = {"settled", "failed"}
    BY DEF Ended
  <1>1. CASE outcome[p] = lnd[HashOfProc(p)] /\ outcome[p].status \in Ended
    <2>1. outcome[p] = lnd[HashOf[a]] /\ lnd[HashOf[a]].status # "none"
      BY <1>1, <1>e DEF HashOfProc
    <2>2. lnd[HashOf[a]].by = a /\ pc[a] \notin BeforeCall
      BY <2>1, <1>t, OwnPayment
    <2> QED BY <1>1, <1>e, <2>1, <2>2 DEF PaidByLnd
  <1>2. CASE p \in Attempts /\ outcome[p].status = "failed" /\ lnd[HashOf[p]].by # p
    BY <1>2, <1>e, <1>t
  <1> QED BY <1>1, <1>2 DEF Told

LEMMA AnswerStep ==
    ASSUME SingleAttempt, NoDrop, TypeInv, AnswerInv, [Next]_vars, NEW p \in Procs
    PROVE  AnswerOK(p)'
  <1> USE DEF jobVars, ledgerVars
  <1>t. /\ pc \in [Procs -> PCs] /\ outcome \in [Procs -> Outcomes] /\ lnd \in [Hashes -> LndPayments]
        /\ current \in [Procs -> Attempts \cup {None}]
        /\ p \in Attempts => current[p] = p
        /\ p \in Attempts => p \notin Updaters
        /\ HashOf \in [Attempts -> Hashes]
    BY ConstantsAssumption DEF TypeInv, TypeOK, CurrentOK
  <1>i. AnswerOK(p) /\ \A h \in Hashes : NodeOK(h)
    BY DEF AnswerInv
  <1>k. ASSUME pc[p] \in Asked(p), outcome'[p] = outcome[p], current'[p] = current[p]
        PROVE  Told(p)'
    BY <1>k, <1>i, ToldKept DEF AnswerOK
  <1>q. ASSUME pc'[p] \notin Asked(p) \cup Giving
        PROVE  AnswerOK(p)'
    BY <1>q DEF AnswerOK, Giving, Asked
  <1>l. ASSUME Leave(p)
        PROVE  AnswerOK(p)'
    <2>1. pc'[p] \in {"done", "next"}
      BY <1>l, <1>t DEF Leave, AfterLock, Goto
    <2> QED BY <2>1, <1>q DEF Asked, Locked, Giving
  <1>1. CASE Stays(p)
    BY <1>1, <1>i, <1>k DEF Stays, AnswerOK, Asked
  <1>2. CASE p \in Attempts /\ (PayInvoice(p) \/ Send(p))
    <2>1. CASE PayStart(p)
      <3>1. lnd[HashOf[p]].status = "none" /\ lnd[HashOf[p]].by # p
        <4>1. pc[p] \in BeforeCall
          BY <2>1 DEF PayStart, BeforeCall
        <4>2. lnd[HashOf[p]].status = "none"
          BY <4>1, <1>i, <1>t, <1>2, OwnPayment
        <4> QED BY <4>2, <1>i, <1>t, <1>2, ProcFacts DEF NodeOK
      <3>2. CASE pc'[p] = "wait"
        BY <3>2, <1>2, <1>q DEF Asked, Giving
      <3>3. CASE pc'[p] # "wait"
        <4>1. pc'[p] = "settle" /\ outcome'[p] = Answer("failed", p, 0) /\ lnd' = lnd
          BY <3>1, <3>3, <2>1, <1>t DEF PayStart, Goto
        <4>2. outcome'[p].status = "failed"
          BY <4>1, AnswerFields
        <4> QED BY <1>2, <3>1, <4>1, <4>2 DEF AnswerOK, Told
      <3> QED BY <3>2, <3>3
    <2>2. CASE PayResult(p)
      <3>1. pc'[p] = "settle" /\ UNCHANGED <<lnd, current>>
        BY <2>2, <1>t DEF PayResult, Goto
      <3>2. CASE lnd[HashOf[p]].by = p
        <4>1. outcome'[p] = lnd[HashOf[p]] /\ lnd[HashOf[p]].status # "inflight"
          BY <2>2, <3>2, <1>t DEF PayResult
        <4>2. lnd[HashOf[p]].status # "none"
          BY <3>2, <1>i, <1>t, <1>2, ProcFacts DEF NodeOK
        <4>3. lnd[HashOf[p]].status \in {"none", "inflight", "settled", "failed"}
          BY <1>t, <1>2, SMT DEF LndPayments
        <4> QED BY <1>2, <1>t, <3>1, <4>1, <4>2, <4>3 DEF AnswerOK, Told, HashOfProc, Ended
      <3>3. CASE lnd[HashOf[p]].by # p
        <4>1. outcome'[p] = Answer("failed", p, 0)
          BY <2>2, <3>3, <1>t DEF PayResult
        <4>2. outcome'[p].status = "failed"
          BY <4>1, AnswerFields
        <4> QED BY <1>2, <3>1, <3>3, <4>2 DEF AnswerOK, Told
      <3> QED BY <3>2, <3>3
    <2>3. CASE PayInvoice(p) \/ CheckInTransit(p) \/ CheckBalance(p) \/ PrepareSend(p) \/ RecordSend(p)
               \/ PayTimeout(p)
      <3>1. Leave(p) \/ pc'[p] \in {"lock", "balance", "prepare", "record", "pay", "finish"}
        BY <2>3, <1>t DEF PayInvoice, CheckInTransit, CheckBalance, PrepareSend, RecordSend, PayTimeout,
           Goto
      <3> QED BY <3>1, <1>2, <1>l, <1>q DEF Asked, Giving
    <2> QED BY <1>2, <2>1, <2>2, <2>3 DEF Send
  <1>3. CASE p \in Updaters /\ (Update(p) \/ \E w \in Wallets : ListPending(p, w))
    <2>1. ASSUME NEW a \in Attempts, LookupPayment(p, a)
          PROVE  AnswerOK(p)'
      <3>1. CASE lnd[HashOf[a]].status \in {"settled", "failed"}
        <4>1. /\ pc'[p] = "lock" /\ current'[p] = a /\ outcome'[p] = lnd[HashOf[a]]
              /\ lnd' = lnd
          BY <2>1, <3>1, <1>t DEF LookupPayment, Lookup, Goto
        <4> QED BY <3>1, <4>1 DEF AnswerOK, Told, HashOfProc, Ended
      <3>2. CASE lnd[HashOf[a]].status \notin {"settled", "failed"}
        <4>1. pc'[p] = "next"
          BY <2>1, <3>2 DEF LookupPayment, Lookup
        <4> QED BY <4>1, <1>q DEF Asked, Giving, Locked
      <3> QED BY <3>1, <3>2
    <2>2. CASE EndList(p) \/ \E w \in Wallets : ListPending(p, w)
      <3>1. pc'[p] \in {"idle", "next"}
        BY <2>2, <1>t DEF EndList, ListPending, Goto
      <3> QED BY <3>1, <1>q DEF Asked, Giving, Locked
    <2>3. CASE CheckPending(p) \/ FindFlow(p)
      <3>1. /\ Leave(p) \/ pc'[p] \in {"flow", "settle"}
            /\ pc[p] \in Asked(p) /\ UNCHANGED <<outcome, current>>
        BY <2>3, <1>3, <1>t DEF CheckPending, FindFlow, Goto, Asked, Locked
      <3> QED BY <3>1, <1>k, <1>l DEF AnswerOK
    <2> QED BY <1>3, <2>1, <2>2, <2>3 DEF Update
  <1>4. CASE AcquireLock(p) \/ LockUnavailable(p) \/ Interrupt(p)
    <2>1. CASE AcquireLock(p)
      <3>1. pc[p] = "lock" /\ pc'[p] = "check" /\ UNCHANGED <<outcome, current>>
        BY <2>1, <1>t DEF AcquireLock, Goto
      <3> QED BY <3>1, <1>k DEF AnswerOK, Asked
    <2>2. CASE LockUnavailable(p)
      <3>1. pc'[p] \in {"done", "next"}
        BY <2>2, <1>t DEF LockUnavailable, AfterLock, Goto
      <3> QED BY <3>1, <1>q DEF Asked, Locked, Giving
    <2> QED BY <1>4, <2>1, <2>2, <1>l DEF Interrupt
  <1>5. CASE Resolve(p)
    <2>1. pc[p] \in Asked(p) \cup {"finish"} /\ UNCHANGED <<outcome, current>> /\ pc[p] \in Locked
      BY <1>5 DEF Resolve, SettlePending, Revert, ReimburseFee, Finish, Asked, Locked
    <2>2. CASE SettlePending(p)
      <3>1. Leave(p) \/ pc'[p] = NextStep(p)
        BY <2>2, <1>t DEF SettlePending, Goto
      <3>2. pc[p] \in Asked(p) /\ current[p] \in Attempts
        BY <2>2, <2>1 DEF SettlePending, TypeInv, CurrentOK
      <3>3. /\ outcome[p].status \in Ended
            /\ p \notin Attempts => outcome[p].by = current[p]
        BY <3>2, <1>i, ToldMeans DEF AnswerOK
      <3>4. Unpaid(p) <=> outcome[p].status = "failed"
        BY <3>3, ConstantsAssumption DEF Unpaid, Ended
      <3>5. pc'[p] = NextStep(p) =>
               /\ pc'[p] = "revert" => outcome[p].status = "failed"
               /\ pc'[p] = "reimburse" => outcome[p].status = "settled" /\ current[p] \notin RouteKnown
        BY <3>3, <3>4 DEF NextStep, Ended
      <3> QED BY <3>1, <3>2, <3>5, <2>1, <1>k, <1>l DEF AnswerOK
    <2>3. CASE Revert(p) \/ ReimburseFee(p) \/ Finish(p)
      <3>1. Leave(p) \/ (pc'[p] = "finish" /\ pc[p] \in Giving)
        BY <2>3, <1>t DEF Revert, ReimburseFee, Finish, Giving, Goto
      <3> QED BY <3>1, <2>1, <1>k, <1>l DEF AnswerOK, Asked, Giving
    <2> QED BY <1>5, <2>2, <2>3 DEF Resolve
  <1>6. ~(p \in Attempts /\ DropConnection(p))
    BY DEF NoDrop, DropConnection, Fault
  <1>7. CASE UNCHANGED <<pc, current, outcome, todo, ledgerVars>>
    BY <1>1, <1>7 DEF Stays
  <1> QED BY <1>1, <1>2, <1>3, <1>4, <1>5, <1>6, <1>7, OneMoves DEF Acts

\* A credit of a payment is by a process that gives it back, or keeps what was credited.
LEMMA PlacesGiven ==
    ASSUME TypeInv, [Next]_vars, NEW a \in Attempts, NEW kinds, kinds \subseteq CreditKinds
    PROVE  \/ Places(kinds, a)' = Places(kinds, a)
           \/ \E p \in Procs :
                 /\ GiveMove(p) /\ Gives(p, a) /\ lnd' = lnd
                 /\ pc[p] = "revert" => kinds \cap RefundKinds # {}
                 /\ pc[p] = "reimburse" => "feeReimbursement" \in kinds
  <1>1. ASSUME NEW p \in Procs, Acts(p)
        PROVE  \/ Places(kinds, a)' = Places(kinds, a)
               \/ /\ GiveMove(p) /\ Gives(p, a) /\ lnd' = lnd
                  /\ pc[p] = "revert" => kinds \cap RefundKinds # {}
                  /\ pc[p] = "reimburse" => "feeReimbursement" \in kinds
    <2>1. CASE UNCHANGED <<ledger, pending>> \/ ClearMove(p)
      BY <2>1, PlacesKept DEF ClearMove
    <2>2. CASE p \in Attempts /\ RecordMove(p)
      <3>1. Append1("payment", p) /\ "payment" \in Kinds /\ "payment" \notin kinds
        BY <2>2 DEF RecordMove, Kinds, CreditKinds
      <3> QED BY <3>1, <2>2, PlacesAppend
    <2>3. CASE GiveMove(p)
      <3>1. PICK kind \in CreditKinds :
               /\ Append1(kind, current[p])
               /\ pc[p] = "revert" => kind \in RefundKinds
               /\ pc[p] = "reimburse" => kind = "feeReimbursement"
        BY <2>3 DEF GiveMove
      <3>2. pc[p] \in Giving /\ current[p] \in Attempts /\ kind \in Kinds
        BY <2>3 DEF GiveMove, Giving, Locked, TypeInv, CurrentOK, CreditKinds
      <3>3. PICK b \in Attempts : b = current[p]
        BY <3>2
      <3>4. Append1(kind, b)
        BY <3>1, <3>3
      <3>5. CASE b = a /\ kind \in kinds
        BY <2>3, <3>1, <3>2, <3>3, <3>5 DEF Gives, GiveMove
      <3>6. CASE b # a \/ kind \notin kinds
        BY <3>2, <3>4, <3>6, PlacesAppend
      <3> QED BY <3>5, <3>6
    <2> QED BY <1>1, <2>1, <2>2, <2>3, LedgerStep DEF LedgerMove
  <1>2. CASE UNCHANGED <<pc, current, outcome, todo, ledgerVars>>
    BY <1>2, PlacesKept DEF ledgerVars
  <1> QED BY <1>1, <1>2, OneMoves

LEMMA RefundStep ==
    ASSUME SingleAttempt, TypeInv, AnswerInv, [Next]_vars, NEW a \in Attempts
    PROVE  RefundOK(a)'
  <1>t. /\ HashOf[a] \in Hashes /\ NodeOK(HashOf[a]) /\ RefundOK(a)
        /\ RefundKinds \subseteq CreditKinds /\ "feeReimbursement" \notin RefundKinds
    BY ConstantsAssumption DEF AnswerInv, RefundKinds, CreditKinds, Kinds
  <1>1. ASSUME Places(RefundKinds, a) # {}
        PROVE  RefundOK(a)'
    <2>1. /\ pc[a] \notin BeforeCall /\ pc'[a] \notin BeforeCall
          /\ lnd[HashOf[a]].by = a => lnd[HashOf[a]].status \in Ended
      BY <1>1, <1>t, CallStep DEF RefundOK, Ended
    <2> QED BY <1>1, <1>t, <2>1, EndKept DEF RefundOK
  <1>2. ASSUME NEW p \in Procs, GiveMove(p), Gives(p, a), lnd' = lnd, pc[p] = "revert"
        PROVE  RefundOK(a)'
    <2>1. /\ pc[p] \in Asked(p) /\ Told(p) /\ outcome[p].status = "failed" /\ current[p] = a
          /\ p \in Attempts => p = a
      BY <1>2 DEF AnswerInv, AnswerOK, Asked, Locked, Gives, TypeInv, CurrentOK
    <2>2. /\ lnd[HashOf[a]].by = a => lnd[HashOf[a]].status = "failed"
          /\ p \notin Attempts => pc[a] \notin BeforeCall
      BY <2>1, ToldMeans DEF AnswerInv
    <2>3. pc'[a] \notin BeforeCall
      <3>1. CASE p \in Attempts
        BY <1>2, <2>1, <3>1 DEF GiveMove, BeforeCall, Unsent
      <3>2. CASE p \notin Attempts
        BY <2>2, <3>2, CallStep
      <3> QED BY <3>1, <3>2
    <2> QED BY <1>2, <2>2, <2>3 DEF RefundOK
  <1>3. CASE Places(RefundKinds, a)' = Places(RefundKinds, a)
    BY <1>1, <1>3 DEF RefundOK
  <1>4. ASSUME NEW p \in Procs, GiveMove(p), Gives(p, a), lnd' = lnd,
               pc[p] = "reimburse" => "feeReimbursement" \in RefundKinds
        PROVE  RefundOK(a)'
    BY <1>2, <1>4, <1>t DEF Gives, Giving
  <1> QED BY <1>3, <1>4, <1>t, PlacesGiven

LEMMA AnswerAlways == ASSUME SingleAttempt, NoDrop PROVE Spec => [](TypeInv /\ AnswerInv)
  <1>1. Init => AnswerInv
    <2> SUFFICES ASSUME Init PROVE AnswerInv
      OBVIOUS
    <2>1. ASSUME NEW h \in Hashes PROVE NodeOK(h)
      <3>1. lnd[h].status = "none" /\ lnd[h].by = None
        BY AnswerFields DEF Init, NoAnswer
      <3> QED BY <3>1 DEF NodeOK
    <2>2. ASSUME NEW p \in Procs PROVE AnswerOK(p)
      BY DEF Init, AnswerOK, Asked, Locked
    <2>3. ASSUME NEW a \in Attempts PROVE RefundOK(a)
      <3>1. Places(RefundKinds, a) = {}
        BY SMT DEF Init, Places
      <3> QED BY <3>1 DEF RefundOK
    <2> QED BY <2>1, <2>2, <2>3 DEF AnswerInv
  <1>2. TypeInv /\ AnswerInv /\ [Next]_vars => AnswerInv'
    BY NodeNext, AnswerStep, RefundStep DEF AnswerInv
  <1> QED BY <1>1, <1>2, TypeInit, TypeNext, PTL DEF Spec

\* If an invoice is tried once and no connection to the node fails while a payment is in
\* flight: what is given back is not in flight and does not settle later, although locks
\* are lost and processes stop (recordLnSendRevert, reimburseFailedUsdPayment).
THEOREM NeverRefundedAndPaid ==
    ASSUME SingleAttempt, NoDrop PROVE Spec => []RefundedNeverPaid
  <1>1. TypeInv /\ AnswerInv => RefundedNeverPaid
    <2> SUFFICES ASSUME AnswerInv, NEW a \in Attempts,
                        Refunds(a) > 0, lnd[HashOf[a]].by = a
                 PROVE  lnd[HashOf[a]].status = "failed"
      BY DEF RefundedNeverPaid
    <2>1. Places(RefundKinds, a) # {}
      <3>1. SUFFICES ASSUME Places(RefundKinds, a) = {} PROVE FALSE
        OBVIOUS
      <3>2. Refunds(a) = 0
        BY <3>1, FS_EmptySet DEF Refunds, Count, RefundKinds
      <3> QED BY <3>2, SMT
    <2> QED BY <2>1 DEF AnswerInv, RefundOK
  <1> QED BY <1>1, AnswerAlways, PTL

\* Under the same assumptions settlePendingLnSend never clears the flag of a payment that
\* is in flight.
THEOREM InFlightStaysPending ==
    ASSUME SingleAttempt, NoDrop PROVE Spec => PendingWhileInFlight
  <1>1. ASSUME TypeInv, AnswerInv, [Next]_vars, NEW a \in pending \ pending', lnd[HashOf[a]].by = a
        PROVE  lnd[HashOf[a]].status # "inflight"
    <2>1. PICK p \in Procs : LedgerMove(p)
      BY <1>1, OneMoves, LedgerStep DEF LedgerMove, ledgerVars
    <2>2. ClearMove(p)
      BY <1>1, <2>1 DEF LedgerMove, RecordMove, GiveMove
    <2>3. current[p] = a /\ a \in Attempts
      BY <1>1, <2>2, ClearStep
    <2>4. pc[p] \in Asked(p) /\ Told(p)
      BY <1>1, <2>2 DEF ClearMove, AnswerInv, AnswerOK, Asked, Locked
    <2> QED BY <1>1, <2>3, <2>4, ToldMeans DEF AnswerInv
  <1>2. TypeInv /\ AnswerInv /\ [Next]_vars =>
          [\A a \in pending \ pending' :
              lnd[HashOf[a]].by = a => lnd[HashOf[a]].status # "inflight"]_vars
    BY <1>1
  <1> QED BY <1>2, AnswerAlways, PTL DEF Spec, PendingWhileInFlight

-----------------------------------------------------------------------------
(***************************************************************************)
(* A resolved payment is charged what the node paid.                       *)
(***************************************************************************)
OnlyLocksFail == FaultKinds \subseteq {"loseLock"}
FeesShown == ZeroDisplayFee \subseteq RouteKnown

FeeKinds == {"feeReimbursement"}
FeeSpent(a) == a \in RouteKnown \/ lnd[HashOf[a]].fee = MaxFee[a]
PaidInFull(a) == PaidByLnd(a) /\ FeeSpent(a)

ChargeOK(a) ==
    /\ Places(FeeKinds, a) # {} => PaidByLnd(a) /\ ~FeeSpent(a)
    /\ Recorded(a) /\ a \notin pending /\ (\A p \in Procs : ~Gives(p, a)) =>
          Credits(a) # {} \/ PaidInFull(a)

ChargeInv == TypeInv /\ CreditInv /\ AnswerInv /\ \A a \in Attempts : ChargeOK(a)

\* What was paid, and for which fee, does not change any more.
LEMMA PaidKept ==
    ASSUME SingleAttempt, TypeInv, AnswerInv, [Next]_vars, NEW a \in Attempts, PaidByLnd(a)
    PROVE  PaidByLnd(a)' /\ FeeSpent(a)' = FeeSpent(a)
  <1>1. NodeOK(HashOf[a]) /\ lnd[HashOf[a]].status \in Ended
    BY ConstantsAssumption DEF AnswerInv, PaidByLnd, Ended
  <1>2. lnd'[HashOf[a]] = lnd[HashOf[a]]
    BY <1>1, EndKept
  <1> QED BY <1>2 DEF PaidByLnd, FeeSpent

\* What is recorded later was recorded before, unless this step records it.
LEMMA RecordedStep ==
    ASSUME TypeInv, NEW p \in Procs, LedgerMove(p), NEW a \in Attempts,
           Recorded(a)', ~(p = a /\ RecordMove(p))
    PROVE  Recorded(a)
  <1>1. ASSUME NEW kind \in Kinds, NEW b \in Attempts, Append1(kind, b), b # a \/ kind # "payment"
        PROVE  Recorded(a)
    <2> DEFINE e == [kind |-> kind, of |-> b]
    <2> DEFINE f == [kind |-> "payment", of |-> a]
    <2>1. ledger \in Seq(Entries) /\ e \in Entries /\ ledger' = Append(ledger, e)
      BY <1>1, SMT DEF TypeInv, TypeOK, Entries, Append1
    <2>2. e # f
      BY <1>1, SMT
    <2>3. \E i \in DOMAIN ledger' : ledger'[i] = f
      BY DEF Recorded, HasEntry
    <2> HIDE DEF e, f
    <2>4. \E i \in DOMAIN ledger : ledger[i] = f
      BY <2>1, <2>2, <2>3, SMT
    <2> QED BY <2>4 DEF Recorded, HasEntry, f
  <1>2. CASE UNCHANGED <<ledger, pending>> \/ ClearMove(p)
    BY <1>2 DEF Recorded, HasEntry, ClearMove
  <1>3. CASE p \in Attempts /\ RecordMove(p)
    BY <1>1, <1>3 DEF RecordMove, Kinds
  <1>4. CASE GiveMove(p)
    <2>1. PICK kind \in CreditKinds : Append1(kind, current[p])
      BY <1>4 DEF GiveMove
    <2>2. PICK b \in Attempts : b = current[p]
      BY <1>4 DEF GiveMove, Giving, Locked, TypeInv, CurrentOK
    <2>3. Append1(kind, b) /\ kind \in Kinds /\ kind # "payment"
      BY <2>1, <2>2 DEF CreditKinds
    <2> QED BY <2>3, <1>1
  <1> QED BY <1>2, <1>3, <1>4 DEF LedgerMove

\* Who stops giving back without a credit has found the fee spent.
LEMMA GiveEnds ==
    ASSUME SingleAttempt, OnlyLocksFail, FeesShown, TypeInv, CreditInv, AnswerInv,
           NEW p \in Procs, Acts(p), NEW a \in Attempts, Gives(p, a)
    PROVE  GiveMove(p) \/ PaidInFull(a)
  <1>t. /\ HashOf[a] \in Hashes /\ NodeOK(HashOf[a]) /\ current[p] = a
        /\ pc[p] \in Asked(p) /\ Told(p) /\ AnswerOK(p) /\ Credits(a) = {}
        /\ pc \in [Procs -> PCs]
    BY ConstantsAssumption
    DEF AnswerInv, AnswerOK, Asked, Locked, Gives, Giving, CreditInv, CreditOK, TypeInv, TypeOK
  <1>1. Revert(p) \/ ReimburseFee(p)
    <2>1. ~Interrupt(p)
      BY DEF OnlyLocksFail, Interrupt, Fault
    <2>2. ~PayInvoice(p) /\ ~Send(p) /\ ~DropConnection(p) /\ ~AcquireLock(p) /\ ~LockUnavailable(p)
      BY DEF Gives, Giving, PayInvoice, Send, CheckInTransit, CheckBalance, PrepareSend, RecordSend,
         PayStart, PayResult, PayTimeout, DropConnection, AcquireLock, LockUnavailable
    <2>3. ~Update(p) /\ ~\E w \in Wallets : ListPending(p, w)
      BY DEF Gives, Giving, Update, EndList, CheckPending, FindFlow, LookupPayment, Lookup, ListPending
    <2>4. ~SettlePending(p) /\ ~Finish(p)
      BY DEF Gives, Giving, SettlePending, Finish
    <2> QED BY <2>1, <2>2, <2>3, <2>4 DEF Acts, Resolve
  <1>2. CASE Revert(p)
    <2>1. ~HasEntry("void", a)
      <3>1. ASSUME NEW i \in DOMAIN ledger, ledger[i] = [kind |-> "void", of |-> a]
            PROVE  i \in Credits(a)
        BY <3>1, SMT DEF Credits, Places, CreditKinds, Kinds
      <3> QED BY <3>1, <1>t DEF HasEntry
    <2>2. pc[p] = "revert" /\ UNCHANGED <<pending, lnd>>
      BY <1>2 DEF Revert
    <2>3. \E kind \in RefundKinds : Append1(kind, current[p]) /\ Goto(p, "finish")
      BY <1>2, <1>t, <2>1 DEF Revert, RefundKinds
    <2>4. RefundKinds \subseteq CreditKinds
      BY DEF RefundKinds, CreditKinds, Kinds
    <2>5. Goto(p, "finish") => pc'[p] = "finish"
      BY <1>t DEF Goto
    <2> QED BY <2>2, <2>3, <2>4, <2>5 DEF GiveMove, Giving
  <1>3. CASE ReimburseFee(p)
    <2>1. /\ outcome[p].status = "settled" /\ a \notin RouteKnown /\ a \notin ZeroDisplayFee
          /\ pc[p] = "reimburse" /\ UNCHANGED <<pending, lnd>>
      BY <1>3, <1>t DEF ReimburseFee, AnswerOK, FeesShown
    <2>2. PaidByLnd(a) /\ outcome[p] = lnd[HashOf[a]]
      BY <1>t, <2>1, ToldMeans DEF AnswerInv
    <2>3. lnd[HashOf[a]].fee \in 0..MaxFee[a] /\ MaxFee[a] \in Nat
      BY <1>t, <2>2, ConstantsAssumption DEF NodeOK, PaidByLnd
    <2>4. MaxFee[a] - outcome[p].fee > 0 \/ lnd[HashOf[a]].fee = MaxFee[a]
      BY <2>2, <2>3, SMT
    <2>5. Goto(p, "finish") /\ (MaxFee[a] - outcome[p].fee > 0 => Append1("feeReimbursement", a))
      BY <1>3, <1>t, <2>1 DEF ReimburseFee
    <2>6. pc'[p] = "finish" /\ "feeReimbursement" \in CreditKinds
      BY <2>5, <1>t DEF Goto, CreditKinds, Kinds
    <2>7. CASE lnd[HashOf[a]].fee = MaxFee[a]
      BY <2>2, <2>7 DEF PaidInFull, FeeSpent
    <2>8. CASE MaxFee[a] - outcome[p].fee > 0
      BY <2>1, <2>5, <2>6, <2>8, <1>t DEF GiveMove, Giving
    <2> QED BY <2>4, <2>7, <2>8
  <1> QED BY <1>1, <1>2, <1>3

\* Who reimburses a fee knows that the payment was made, for less.
LEMMA FeeStep ==
    ASSUME SingleAttempt, ChargeInv, [Next]_vars, NEW a \in Attempts, Places(FeeKinds, a)' # {}
    PROVE  PaidByLnd(a)' /\ ~FeeSpent(a)'
  <1>t. /\ TypeInv /\ AnswerInv /\ ChargeOK(a)
        /\ FeeKinds \subseteq CreditKinds /\ FeeKinds \cap RefundKinds = {}
    BY DEF ChargeInv, FeeKinds, CreditKinds, RefundKinds, Kinds
  <1>1. CASE Places(FeeKinds, a)' = Places(FeeKinds, a)
    BY <1>1, <1>t, PaidKept DEF ChargeOK
  <1>2. ASSUME NEW p \in Procs, GiveMove(p), Gives(p, a), pc[p] # "revert"
        PROVE  PaidByLnd(a)' /\ ~FeeSpent(a)'
    <2>1. /\ pc[p] = "reimburse" /\ current[p] = a /\ pc[p] \in Asked(p) /\ Told(p)
          /\ outcome[p].status = "settled" /\ a \notin RouteKnown
      BY <1>2, <1>t DEF Gives, Giving, AnswerInv, AnswerOK, Asked, Locked
    <2>2. PaidByLnd(a) /\ outcome[p] = lnd[HashOf[a]]
      BY <1>t, <2>1, ToldMeans DEF AnswerInv
    <2>3. MaxFee[a] - lnd[HashOf[a]].fee > 0
      BY <1>2, <2>1, <2>2 DEF GiveMove
    <2>4. lnd[HashOf[a]].fee # MaxFee[a]
      BY <2>3, ConstantsAssumption, SMT
    <2> QED BY <1>t, <2>1, <2>2, <2>4, PaidKept DEF FeeSpent
  <1> QED BY <1>1, <1>2, <1>t, PlacesGiven

\* What is no longer pending has been credited, unless it was paid for the fee charged.
LEMMA ResolvedStep ==
    ASSUME SingleAttempt, OnlyLocksFail, FeesShown, ChargeInv, NEW p \in Procs, Acts(p),
           \A q \in Procs \ {p} : Stays(q), NEW a \in Attempts, Recorded(a)', a \notin pending',
           \A q \in Procs : ~Gives(q, a)'
    PROVE  Credits(a)' # {} \/ PaidInFull(a)
  <1>t. TypeInv /\ CreditInv /\ AnswerInv /\ ChargeOK(a) /\ CreditOK(a)
    BY DEF ChargeInv, CreditInv
  <1>1. CASE Gives(p, a)
    <2>1. GiveMove(p) \/ PaidInFull(a)
      BY <1>1, <1>t, GiveEnds
    <2>2. current[p] = a /\ Credits(a) = {}
      BY <1>1, <1>t DEF Gives, CreditOK
    <2> QED BY <2>1, <2>2, <1>t, CreditsStep
  <1>2. CASE ~Gives(p, a)
    <2>1. \A q \in Procs : ~Gives(q, a)
      BY <1>2 DEF Stays, Gives
    <2>2. LedgerMove(p)
      BY <1>t, LedgerStep
    <2>3. CASE a \in pending
      <3>1. ClearMove(p)
        BY <2>2, <2>3 DEF LedgerMove, RecordMove, GiveMove
      <3>2. current[p] = a /\ pc[p] = "settle" /\ pc'[p] = NextStep(p) /\ current'[p] = a
        BY <3>1, <2>3, <1>t, ClearStep DEF ClearMove
      <3>3. NextStep(p) \notin Giving
        BY <3>2 DEF Gives
      <3>4. ~Unpaid(p) /\ a \in RouteKnown
        BY <3>2, <3>3 DEF NextStep, Giving
      <3>5. pc[p] \in Asked(p) /\ Told(p)
        BY <3>2, <1>t DEF AnswerInv, AnswerOK, Asked, Locked
      <3>6. outcome[p].status \in Ended /\ (outcome[p].status = "settled" => PaidByLnd(a))
        BY <3>2, <3>5, <1>t, ToldMeans DEF AnswerInv
      <3> QED BY <3>4, <3>6 DEF Unpaid, Ended, PaidInFull, FeeSpent
    <2>4. CASE a \notin pending
      <3>1. ~(p = a /\ RecordMove(p))
        BY DEF RecordMove
      <3>2. Recorded(a)
        BY <1>t, <2>2, <3>1, RecordedStep
      <3>3. Credits(a) # {} \/ PaidInFull(a)
        BY <1>t, <2>1, <2>4, <3>2 DEF ChargeOK
      <3>4. GiveMove(p) => current[p] \in Attempts /\ current[p] # a
        BY <1>2, <1>t DEF GiveMove, Gives, Giving, Locked, TypeInv, CurrentOK
      <3>5. Credits(a)' = Credits(a)
        BY <2>2, <3>4, <1>t, CreditsStep DEF LedgerMove
      <3> QED BY <3>3, <3>5
    <2> QED BY <2>3, <2>4
  <1> QED BY <1>1, <1>2

LEMMA ChargeNext ==
    ASSUME SingleAttempt, OnlyLocksFail, FeesShown, ChargeInv, [Next]_vars, NEW a \in Attempts
    PROVE  ChargeOK(a)'
  <1>t. TypeInv /\ AnswerInv /\ ChargeOK(a)
    BY DEF ChargeInv
  <1>1. PaidInFull(a) => PaidInFull(a)'
    BY <1>t, PaidKept DEF PaidInFull
  <1>2. ASSUME Recorded(a)', a \notin pending', \A q \in Procs : ~Gives(q, a)'
        PROVE  Credits(a)' # {} \/ PaidInFull(a)'
    <2>1. CASE UNCHANGED <<pc, current, outcome, todo, ledgerVars>>
      <3>1. Credits(a)' = Credits(a) /\ pending' = pending /\ UNCHANGED ledger
        BY <2>1, PlacesKept DEF ledgerVars, Credits
      <3>2. Recorded(a) /\ a \notin pending /\ \A q \in Procs : ~Gives(q, a)
        BY <1>2, <2>1, <3>1 DEF Recorded, HasEntry, Gives
      <3> QED BY <1>1, <1>t, <3>1, <3>2 DEF ChargeOK
    <2>2. ASSUME NEW p \in Procs, Acts(p), \A q \in Procs \ {p} : Stays(q)
          PROVE  Credits(a)' # {} \/ PaidInFull(a)'
      BY <1>1, <1>2, <2>2, ResolvedStep
    <2> QED BY <1>t, <2>1, <2>2, OneMoves
  <1> QED BY <1>2, FeeStep DEF ChargeOK

LEMMA ChargeAlways ==
    ASSUME SingleAttempt, OnlyLocksFail, FeesShown PROVE Spec => []ChargeInv
  <1>n. NoDrop
    BY DEF OnlyLocksFail, NoDrop
  <1> DEFINE Each == \A a \in Attempts : ChargeOK(a)
  <1>1. Init => Each
    <2> SUFFICES ASSUME Init, NEW a \in Attempts PROVE ChargeOK(a)
      OBVIOUS
    <2>1. Places(FeeKinds, a) = {} /\ DOMAIN ledger = {}
      BY SMT DEF Init, Places
    <2> QED BY <2>1 DEF ChargeOK, Recorded, HasEntry
  <1>2. TypeInv /\ CreditInv /\ AnswerInv /\ Each /\ [Next]_vars => Each'
    BY ChargeNext DEF ChargeInv
  <1>3. ChargeInv <=> TypeInv /\ CreditInv /\ AnswerInv /\ Each
    BY DEF ChargeInv
  <1> HIDE DEF Each
  <1> QED BY <1>1, <1>2, <1>3, <1>n, CreditAlways, AnswerAlways, PTL DEF Spec

\* If an invoice is tried once, no fault but the loss of a lock happens, and a fee that is
\* not known in advance is not 0 in the display currency: a resolved payment is charged
\* exactly what the node paid, whoever resolved it, the attempt or an updater.
THEOREM ResolvedIsChargedExactly ==
    ASSUME SingleAttempt, OnlyLocksFail, FeesShown PROVE Spec => []ChargedExactly
  <1>1. ASSUME ChargeInv, NEW a \in Attempts, Resolved(a)
        PROVE  IF PaidByLnd(a)
               THEN /\ Refunds(a) = 0
                    /\ Count(FeeKinds, a) = IF FeeSpent(a) THEN 0 ELSE 1
               ELSE Refunds(a) = 1 /\ Count(FeeKinds, a) = 0
    <2>t. /\ TypeInv /\ CreditOK(a) /\ RefundOK(a) /\ ChargeOK(a)
          /\ CreditKinds = RefundKinds \cup FeeKinds
      BY <1>1 DEF ChargeInv, CreditInv, AnswerInv, CreditKinds, RefundKinds, FeeKinds, Kinds
    <2>1. Credits(a) = Places(RefundKinds, a) \cup Places(FeeKinds, a)
      BY <2>t DEF Credits, Places
    <2>2. \A p \in Procs : ~Gives(p, a)
      BY <1>1 DEF Resolved, Idle, Gives, Giving, HashOfProc
    <2>3. Credits(a) # {} \/ PaidInFull(a)
      BY <1>1, <2>t, <2>2 DEF Resolved, ChargeOK
    <2>4. \A i, j \in Credits(a) : i = j
      BY <2>t DEF CreditOK
    <2>5. \A S \in SUBSET Credits(a) :
             (S = {} => Cardinality(S) = 0) /\ (S # {} => Cardinality(S) = 1)
      <3>1. ASSUME NEW S \in SUBSET Credits(a)
            PROVE  (S = {} => Cardinality(S) = 0) /\ (S # {} => Cardinality(S) = 1)
        <4>1. \A x, y \in S : x = y
          BY <2>4
        <4> QED BY <4>1, CountOne
      <3> QED BY <3>1
    <2>6. /\ Refunds(a) = Cardinality(Places(RefundKinds, a))
          /\ Count(FeeKinds, a) = Cardinality(Places(FeeKinds, a))
      BY DEF Refunds, Count, RefundKinds
    <2>7. /\ Places(RefundKinds, a) \in SUBSET Credits(a) /\ Places(FeeKinds, a) \in SUBSET Credits(a)
      BY <2>1
    <2>8. Places(RefundKinds, a) # {} => ~PaidByLnd(a)
      BY <2>t DEF RefundOK, PaidByLnd
    <2>9. Places(FeeKinds, a) # {} => PaidByLnd(a) /\ ~FeeSpent(a)
      BY <2>t DEF ChargeOK
    <2>10. CASE PaidByLnd(a)
      <3>1. Places(RefundKinds, a) = {}
        BY <2>8, <2>10
      <3>2. FeeSpent(a) <=> Places(FeeKinds, a) = {}
        BY <2>1, <2>3, <2>9, <3>1 DEF PaidInFull
      <3> QED BY <2>5, <2>6, <2>7, <2>10, <3>1, <3>2
    <2>11. CASE ~PaidByLnd(a)
      <3>1. Places(FeeKinds, a) = {} /\ Places(RefundKinds, a) # {}
        BY <2>1, <2>3, <2>9, <2>11 DEF PaidInFull
      <3> QED BY <2>5, <2>6, <2>7, <2>11, <3>1
    <2> QED BY <2>10, <2>11
  <1>2. ChargeInv => ChargedExactly
    BY <1>1 DEF ChargedExactly, FeeKinds, FeeSpent
  <1> QED BY <1>2, ChargeAlways, PTL

=============================================================================
