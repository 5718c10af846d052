-------------------------- MODULE OnChainSendProofs --------------------------
(***************************************************************************)
(* Proofs about OnChainSend, for any number of handlers at the same time:  *)
(* the types, the events that are not skipped, the balances of the wallets *)
(* and that the ledger follows Bria.                                       *)
(***************************************************************************)
EXTENDS OnChainSend, BriaStreamProofs

\* Most leaves are first-order steps: Zenon is tried first, unless a leaf cites SMT.
USE Zenon, SMT

-----------------------------------------------------------------------------
(***************************************************************************)
(* The types of the variables, and what is known at each step.             *)
(***************************************************************************)
EventTypes == {"submitted", "cancelled", "broadcast", "settled"}
Events == [type : EventTypes, of : Payouts]
Steps == {"checkReconciled", "reconcile"}

Labels == {"idle", "lock", "done"} \cup Locked
BriaStates == {"none", "queued", "cancelled", "broadcast", "settled"}

RequestTypes ==
    /\ pc \in [Payments -> Labels]
    /\ lock \in [Wallets -> Payments \cup {None}]
    /\ aborted \in [Payments -> BOOLEAN]
LedgerTypes ==
    /\ balance \in [Wallets -> Int]
    /\ recorded \subseteq Payments /\ pending \subseteq recorded /\ voided \subseteq recorded
    /\ payoutId \subseteq recorded /\ txId \subseteq payoutId
    /\ reconciled \in [Payments -> Nat] /\ pendingFee \subseteq payoutId
    /\ coldTransfers \in [Rebalances -> Nat]
BriaTypes == bria \in [Payouts -> BriaStates]

\* A handler that corrects a fee has found the payment by its payout id.
Reconciles(k) ==
    /\ EventOf(k).type = "broadcast"
    /\ Payout(k) \in payoutId /\ FeeMayDiffer(Payout(k))

StepsInv ==
    /\ \A p \in Payments : pc[p] \in {"queue", "revert"} => p \in recorded
    /\ \A k \in Slots : slot[k].step \in Steps => Reconciles(k)

TypeInv ==
    /\ StreamInv(Events, Steps)
    /\ RequestTypes /\ LedgerTypes /\ BriaTypes
    /\ StepsInv

LEMMA TypesOK == TypeInv => TypeOK
  BY DEF TypeInv, StreamInv, TypeOK, RequestTypes, LedgerTypes, BriaTypes, Labels, BriaStates

LEMMA StepNames ==
    /\ \A step \in Steps \cup {"handle", "persist"} : step \in StepsOf(Steps) \ {"idle"}
    /\ "persist" \notin Steps /\ "handle" \notin Steps /\ "idle" \notin Steps
  BY DEF Steps, StepsOf

\* A handler that is not idle handles an event of a payout.
LEMMA TakenEvent ==
    ASSUME TypeInv, NEW k \in Slots, slot[k].step # "idle"
    PROVE  /\ slot[k] # Free /\ slot[k].seq \in 1..Len(log)
           /\ EventOf(k) \in Events /\ Payout(k) \in Payouts /\ EventOf(k).type \in EventTypes
           /\ EventOf(k) = Event(EventOf(k).type, Payout(k))
  <1>1. EventOf(k) \in Events /\ slot[k] # Free /\ slot[k].seq \in 1..Len(log)
    BY TakenSlot DEF TypeInv
  <1> QED BY <1>1 DEF Payout, Events, Event

\* The ways in which a handler moves: it goes on, or it ends, and no other one does.
GoesTo(k, step) ==
    /\ UNCHANGED <<log, persisted, connection>>
    /\ slot'[k].step = step /\ slot'[k].seq = slot[k].seq
Ends(k) == UNCHANGED <<log, persisted>> /\ slot'[k] = Free /\ slot'[k].step = "idle"
Others(k) == \A j \in Slots \ {k} : slot'[j] = slot[j]

LEMMA ContinueStep ==
    ASSUME TypeInv, NEW k \in Slots, slot[k].step # "idle", UNCHANGED faults,
           NEW step \in Steps \cup {"persist"}, Continue(k, step)
    PROVE  GoesTo(k, step) /\ Others(k) /\ StreamMove(Events, Steps)
  <1>1. slot[k] # Free /\ slot \in [Slots -> SlotStates(Steps)] /\ faults \in 0..MaxFaults
    BY TakenSlot DEF TypeInv, StreamInv, StreamTypeOK
  <1>2. step \in StepsOf(Steps) \ {"idle"}
    BY StepNames
  <1>3. Step(k, step) /\ UNCHANGED <<log, persisted, connection>>
    BY DEF Continue
  <1>4. GoesTo(k, step) /\ Others(k)
    BY <1>1, <1>2, <1>3, StepSlot DEF GoesTo, Others
  <1>5. HandlerGoes(k, Steps)
    BY <1>1, <1>2, <1>3 DEF HandlerGoes
  <1> QED BY <1>1, <1>3, <1>4, <1>5 DEF StreamMove

LEMMA RetryStep ==
    ASSUME TypeInv, NEW k \in Slots, slot[k].step # "idle", faults' \in 0..MaxFaults, Retry(k)
    PROVE  Ends(k) /\ Others(k) /\ StreamMove(Events, Steps)
  <1>1. slot[k] # Free /\ slot \in [Slots -> SlotStates(Steps)]
    BY TakenSlot DEF TypeInv, StreamInv
  <1>2. Ends(k) /\ Others(k)
    BY <1>1, DoneSlot DEF Retry, Ends, Others
  <1> QED BY <1>1, <1>2 DEF StreamMove

LEMMA TypeInit == Init => TypeInv
  <1> SUFFICES ASSUME Init PROVE TypeInv
    OBVIOUS
  <1>1. StreamInv(Events, Steps)
    BY StreamInvInit DEF Init
  <1>2. RequestTypes /\ BriaTypes
    BY SendAssumption DEF Init, RequestTypes, BriaTypes, Labels, BriaStates
  <1>3. LedgerTypes
    BY SendAssumption, SMT DEF Init, LedgerTypes
  <1>4. StepsInv
    BY StepNames DEF Init, StreamInit, StepsInv, Free
  <1> QED BY <1>1, <1>2, <1>3, <1>4 DEF TypeInv

\* Nothing that the ledger knows of a payment is taken back.
LedgerGrows == payoutId \subseteq payoutId' /\ voided \subseteq voided' /\ recorded \subseteq recorded'

\* Slots that keep their events, and none that comes to the correction of a fee.
LEMMA SlotsKept ==
    ASSUME TypeInv, LedgerGrows,
           \A p \in Payments : pc'[p] \in {"queue", "revert"} => p \in recorded',
           \A i \in 1..Len(log) : log'[i] = log[i],
           \A j \in Slots : slot'[j] = slot[j] \/ slot'[j].step \notin Steps
    PROVE  StepsInv'
  <1>1. ASSUME NEW j \in Slots, slot'[j].step \in Steps PROVE Reconciles(j)'
    <2>1. slot'[j] = slot[j] /\ slot[j].step # "idle" /\ Reconciles(j)
      BY <1>1, StepNames DEF TypeInv, StepsInv
    <2>2. slot[j].seq \in 1..Len(log)
      BY <2>1, TakenEvent
    <2> QED BY <2>1, <2>2 DEF Reconciles, FeeMayDiffer, Payout, EventOf, LedgerGrows
  <1> QED BY <1>1 DEF StepsInv

\* Bria adds an event to its log.
LogGrows == \A i \in 1..Len(log) : log'[i] = log[i]
Adds(type, p) == LogGrows /\ Len(log') = Len(log) + 1 /\ log'[Len(log')] = Event(type, p)

LEMMA EmitType ==
    ASSUME TypeInv, NEW p \in Payouts, NEW type \in EventTypes, Emit(Event(type, p)),
           UNCHANGED <<connection, slot, persisted>>, faults' \in 0..MaxFaults
    PROVE  StreamMove(Events, Steps) /\ Adds(type, p)
  <1>1. Event(type, p) \in Events /\ log \in Seq(Events)
    BY DEF Event, Events, TypeInv, StreamInv
  <1> QED BY <1>1, EmitStep DEF StreamMove, Adds, LogGrows

LEMMA SubmitType ==
    ASSUME TypeInv, NEW p \in Payouts, Submit(p), faults' \in 0..MaxFaults
    PROVE  /\ StreamMove(Events, Steps) /\ Adds("submitted", p) /\ BriaTypes'
           /\ UNCHANGED <<slot, persisted>>
           /\ bria'[p] = "queued" /\ \A q \in Payouts \ {p} : bria'[q] = bria[q]
  <1>1. "submitted" \in EventTypes /\ bria \in [Payouts -> BriaStates]
    BY DEF EventTypes, TypeInv, BriaTypes
  <1>2. /\ bria' = [bria EXCEPT ![p] = "queued"] /\ Emit(Event("submitted", p))
        /\ UNCHANGED <<connection, slot, persisted>>
    BY DEF Submit
  <1>3. StreamMove(Events, Steps) /\ Adds("submitted", p)
    BY <1>1, <1>2, EmitType
  <1> QED BY <1>1, <1>2, <1>3 DEF BriaTypes, BriaStates

\* A request moves on: its label changes, and it may give back the lock.
LEMMA LabelStep ==
    ASSUME RequestTypes, NEW p \in Payments, NEW label \in Labels, Goto(p, label)
    PROVE  /\ pc' \in [Payments -> Labels]
           /\ pc'[p] = label /\ \A q \in Payments \ {p} : pc'[q] = pc[q]
  BY DEF RequestTypes, Goto

LEMMA ReleaseStep ==
    ASSUME RequestTypes, NEW p \in Payments, Release(p)
    PROVE  /\ lock' \in [Wallets -> Payments \cup {None}]
           /\ \A w \in Wallets : lock'[w] = lock[w] \/ (lock[w] = p /\ lock'[w] = None)
  BY SendAssumption DEF RequestTypes, Release

LEMMA CreditStep ==
    ASSUME LedgerTypes, NEW p \in Payments, NEW n \in Int, Credit(p, n)
    PROVE  /\ balance' \in [Wallets -> Int]
           /\ balance'[WalletOf[p]] = balance[WalletOf[p]] + n
           /\ \A w \in Wallets \ {WalletOf[p]} : balance'[w] = balance[w]
  BY SendAssumption, SMT DEF LedgerTypes, Credit

LEMMA DebitType == \A p \in Payments : Debit(p) \in Nat /\ -Debit(p) \in Int /\ WalletOf[p] \in Wallets
  BY SendAssumption, SMT DEF Debit

\* The request of a payment, up to the payout that it submits.
LEMMA RequestType ==
    ASSUME TypeInv, NEW p \in Payments, PayOnChain(p) \/ Request(p)
    PROVE  /\ StreamMove(Events, Steps)
           /\ RequestTypes' /\ LedgerTypes' /\ BriaTypes' /\ StepsInv'
           /\ LogGrows /\ UNCHANGED <<slot, persisted>> /\ LedgerGrows
           /\ \A q \in Payments \ {p} : pc'[q] = pc[q]
           /\ \A q \in Payouts \ {p} : bria'[q] = bria[q]
  <1> USE DEF requestVars, ledgerVars, streamVars, connection
  <1> DEFINE Kept == /\ LogGrows /\ UNCHANGED <<slot, persisted>> /\ LedgerGrows
                     /\ \A q \in Payments \ {p} : pc'[q] = pc[q]
                     /\ \A q \in Payouts \ {p} : bria'[q] = bria[q]
             Goal == /\ StreamMove(Events, Steps)
                     /\ RequestTypes' /\ LedgerTypes' /\ BriaTypes' /\ StepsInv'
                     /\ Kept
  <1> SUFFICES Goal
    OBVIOUS
  <1>t. RequestTypes /\ LedgerTypes /\ BriaTypes /\ faults \in 0..MaxFaults
    BY DEF TypeInv, StreamInv, StreamTypeOK
  <1>l. {"idle", "lock", "done", "checkBalance", "record", "queue", "revert"} = Labels
    BY DEF Labels, Locked
  <1>q. \A q \in Payments : pc[q] \in {"queue", "revert"} => q \in recorded
    BY DEF TypeInv, StepsInv
  <1>g. ASSUME StreamMove(Events, Steps), RequestTypes', LedgerTypes', BriaTypes', Kept,
               pc'[p] \in {"queue", "revert"} => p \in recorded'
        PROVE  Goal
    <2>1. \A q \in Payments : pc'[q] \in {"queue", "revert"} => q \in recorded'
      BY <1>g, <1>q DEF LedgerGrows
    <2>2. StepsInv'
      BY <1>g, <2>1, SlotsKept DEF LogGrows
    <2> QED BY <1>g, <2>2
  <1>s. ASSUME UNCHANGED streamVars PROVE StreamMove(Events, Steps) /\ LogGrows
    BY <1>s, <1>t DEF StreamMove, LogGrows
  <1>b. UNCHANGED bria => BriaTypes'
    BY <1>t DEF BriaTypes
  <1>y. UNCHANGED ledgerVars => LedgerTypes' /\ LedgerGrows
    BY <1>t DEF LedgerTypes, LedgerGrows
  <1>v. ASSUME NEW label \in Labels, Goto(p, label), Release(p) \/ UNCHANGED lock, UNCHANGED aborted
        PROVE  RequestTypes' /\ pc'[p] = label /\ \A q \in Payments \ {p} : pc'[q] = pc[q]
    BY <1>v, <1>t, LabelStep, ReleaseStep DEF RequestTypes
  <1> HIDE DEF Goal
  <1>1. CASE PayOnChain(p) \/ LockUnavailable(p)
    <2>1. UNCHANGED <<streamVars, lock, aborted, ledgerVars, bria>>
      BY <1>1, Zenon DEF PayOnChain, LockUnavailable
    <2>2. PICK label \in {"lock", "done"} : Goto(p, label)
      BY <1>1 DEF PayOnChain, LockUnavailable
    <2> QED BY <2>1, <2>2, <1>g, <1>s, <1>b, <1>y, <1>v, <1>l
  <1>2. CASE AcquireLock(p)
    <2>1. UNCHANGED <<streamVars, ledgerVars, bria>> /\ Goto(p, "checkBalance")
      BY <1>2 DEF AcquireLock
    <2>2. aborted' \in [Payments -> BOOLEAN]
      BY <1>2, <1>t DEF AcquireLock, RequestTypes
    <2>3. lock' \in [Wallets -> Payments \cup {None}]
      BY <1>2, <1>t, SendAssumption DEF AcquireLock, RequestTypes
    <2>4. pc' \in [Payments -> Labels] /\ pc'[p] = "checkBalance"
          /\ \A q \in Payments \ {p} : pc'[q] = pc[q]
      BY <2>1, <1>t, <1>l, LabelStep
    <2> QED BY <2>1, <2>2, <2>3, <2>4, <1>g, <1>s, <1>b, <1>y DEF RequestTypes
  <1>3. CASE CheckBalance(p)
    <2>1. UNCHANGED <<streamVars, aborted, ledgerVars, bria>>
      BY <1>3 DEF CheckBalance
    <2>2. \/ Goto(p, "record") /\ UNCHANGED lock
          \/ Goto(p, "done") /\ Release(p)
      BY <1>3 DEF CheckBalance, Leave
    <2> QED BY <2>1, <2>2, <1>g, <1>s, <1>b, <1>y, <1>v, <1>l
  <1>4. CASE RecordSend(p)
    <2>1. UNCHANGED <<streamVars, lock, aborted, bria>> /\ Goto(p, "queue")
      BY <1>4 DEF RecordSend
    <2>2. balance' \in [Wallets -> Int]
      BY <1>4, <1>t, CreditStep, DebitType DEF RecordSend
    <2>3. p \in recorded' /\ LedgerTypes' /\ LedgerGrows
      BY <1>4, <1>t, <2>2 DEF RecordSend, LedgerTypes, LedgerGrows
    <2> QED BY <2>1, <2>3, <1>g, <1>s, <1>b, <1>v, <1>l
  <1>5. CASE QueuePayout(p)
    <2>1. pc[p] = "queue" /\ p \in recorded /\ p \in Payouts /\ UNCHANGED <<aborted, ledgerVars>>
      BY <1>5, <1>q DEF QueuePayout, Payouts
    <2>2. CASE Goto(p, "revert") /\ UNCHANGED <<lock, bria, streamVars>>
      BY <2>1, <2>2, <1>g, <1>s, <1>b, <1>y, <1>v, <1>l
    <2>3. ASSUME Submit(p), faults' \in 0..MaxFaults,
                 Leave(p) \/ (Goto(p, "revert") /\ UNCHANGED lock)
          PROVE  Goal
      <3>1. /\ StreamMove(Events, Steps) /\ LogGrows /\ BriaTypes' /\ UNCHANGED <<slot, persisted>>
            /\ \A q \in Payouts \ {p} : bria'[q] = bria[q]
        BY <2>1, <2>3, SubmitType DEF Adds
      <3> QED BY <2>1, <2>3, <3>1, <1>g, <1>y, <1>v, <1>l DEF Leave
    <2>4. SendFault("lostAnswer") => faults' \in 0..MaxFaults
      BY <1>t, StreamAssumption, SMT DEF SendFault
    <2> QED BY <1>5, <1>t, <2>2, <2>3, <2>4 DEF QueuePayout
  <1>6. CASE Revert(p)
    <2>1. UNCHANGED <<streamVars, aborted, bria>> /\ Goto(p, "done") /\ Release(p)
      BY <1>6 DEF Revert, Leave
    <2>2. balance' \in [Wallets -> Int] /\ voided' = voided \cup {p} /\ p \in recorded
      <3>1. p \in recorded
        BY <1>6, <1>q DEF Revert
      <3>2. CASE p \in voided
        BY <1>6, <1>t, <3>1, <3>2 DEF Revert, LedgerTypes
      <3>3. CASE p \notin voided
        BY <1>6, <1>t, <3>1, <3>3, CreditStep, DebitType, SMT DEF Revert, Void
      <3> QED BY <3>2, <3>3
    <2>3. LedgerTypes' /\ LedgerGrows
      BY <1>6, <1>t, <2>2 DEF Revert, LedgerTypes, LedgerGrows
    <2> QED BY <2>1, <2>3, <1>g, <1>s, <1>b, <1>v, <1>l
  <1>7. CASE RevertFails(p)
    <2>1. /\ UNCHANGED <<log, connection, slot, persisted, aborted, bria>>
          /\ Goto(p, "done") /\ Release(p)
      BY <1>7 DEF RevertFails, Leave
    <2>2. faults' \in 0..MaxFaults
      BY <1>7, <1>t, StreamAssumption, SMT DEF RevertFails, SendFault
    <2>3. LedgerTypes' /\ LedgerGrows
      BY <1>7, <1>t DEF RevertFails, LedgerTypes, LedgerGrows
    <2>4. StreamMove(Events, Steps) /\ LogGrows
      BY <2>1, <2>2 DEF StreamMove, LogGrows
    <2> QED BY <2>1, <2>3, <2>4, <1>g, <1>b, <1>v, <1>l
  <1> QED BY <1>1, <1>2, <1>3, <1>4, <1>5, <1>6, <1>7 DEF Request

\* Bria moves a payout, or takes one of the cron job.
StateBefore(type) ==
    IF type = "submitted" THEN "none" ELSE IF type = "settled" THEN "broadcast" ELSE "queued"
StateAfter(type) == IF type = "submitted" THEN "queued" ELSE type
BriaMoves(p, type) ==
    /\ bria[p] = StateBefore(type) /\ (type = "submitted" => p \in Rebalances)
    /\ bria' = [bria EXCEPT ![p] = StateAfter(type)]
    /\ Emit(Event(type, p))
    /\ UNCHANGED <<connection, slot, persisted, faults, requestVars, ledgerVars>>

LEMMA BriaType ==
    ASSUME TypeInv, NEW p \in Payouts, NEW type \in EventTypes, BriaMoves(p, type)
    PROVE  /\ StreamMove(Events, Steps) /\ Adds(type, p)
           /\ RequestTypes' /\ LedgerTypes' /\ BriaTypes' /\ StepsInv' /\ LedgerGrows
           /\ UNCHANGED <<slot, persisted, requestVars, ledgerVars>>
           /\ bria[p] = StateBefore(type) /\ bria'[p] = StateAfter(type)
           /\ \A q \in Payouts \ {p} : bria'[q] = bria[q]
  <1> USE DEF requestVars, ledgerVars, BriaMoves
  <1>t. RequestTypes /\ LedgerTypes /\ BriaTypes /\ faults \in 0..MaxFaults
    BY DEF TypeInv, StreamInv, StreamTypeOK
  <1>1. StreamMove(Events, Steps) /\ Adds(type, p)
    BY <1>t, EmitType
  <1>2. LedgerTypes' /\ LedgerGrows
    BY <1>t DEF LedgerTypes, LedgerGrows
  <1>3. RequestTypes'
    BY <1>t DEF RequestTypes
  <1>4. BriaTypes'
    BY <1>t DEF BriaTypes, BriaStates, EventTypes, StateAfter
  <1>5. StepsInv'
    <2>1. UNCHANGED <<pc, recorded, slot>> /\ LogGrows
      BY <1>1 DEF Adds
    <2>2. \A q \in Payments : pc[q] \in {"queue", "revert"} => q \in recorded
      BY DEF TypeInv, StepsInv
    <2> QED BY <2>1, <2>2, <1>2, SlotsKept DEF LogGrows
  <1>6. bria'[p] = StateAfter(type) /\ \A q \in Payouts \ {p} : bria'[q] = bria[q]
    BY <1>t DEF BriaTypes
  <1> QED BY <1>1, <1>2, <1>3, <1>4, <1>5, <1>6

\* The handlers of the events of Bria.
LEMMA HandleType ==
    ASSUME TypeInv, NEW k \in Slots, Handle(k)
    PROVE  /\ StreamMove(Events, Steps)
           /\ RequestTypes' /\ LedgerTypes' /\ BriaTypes' /\ StepsInv' /\ LedgerGrows
           /\ slot[k].step # "idle" /\ Others(k)
           /\ UNCHANGED <<log, persisted, faults, pc, lock, bria, recorded>>
           /\ slot'[k].step = "idle" \/ \E step \in Steps \cup {"persist"} : GoesTo(k, step)
  <1> USE DEF requestVars, ledgerVars
  <1> DEFINE Goal ==
        /\ StreamMove(Events, Steps)
        /\ RequestTypes' /\ LedgerTypes' /\ BriaTypes' /\ StepsInv' /\ LedgerGrows
        /\ slot[k].step # "idle" /\ Others(k)
        /\ UNCHANGED <<log, persisted, faults, pc, lock, bria, recorded>>
        /\ slot'[k].step = "idle" \/ \E step \in Steps \cup {"persist"} : GoesTo(k, step)
  <1> SUFFICES Goal
    OBVIOUS
  <1>t. RequestTypes /\ LedgerTypes /\ BriaTypes /\ faults \in 0..MaxFaults
    BY DEF TypeInv, StreamInv, StreamTypeOK
  <1>u. slot[k].step # "idle" => Payout(k) \in Payouts
    BY TakenEvent
  <1>h. UNCHANGED <<faults, requestVars, bria>>
    BY DEF Handle, PayoutSubmitted, PayoutCancelled, PayoutBroadcast, CheckReconciled, Reconcile,
           ColdBroadcast, PayoutSettled, HandlerUnchanged
  <1>r. RequestTypes' /\ BriaTypes'
    BY <1>t, <1>h DEF RequestTypes, BriaTypes
  <1>q. \A q \in Payments : pc[q] \in {"queue", "revert"} => q \in recorded
    BY DEF TypeInv, StepsInv
  <1>e. ASSUME slot[k].step # "idle", LedgerTypes', LedgerGrows, UNCHANGED recorded,
               Returns(k) \/ Retry(k)
        PROVE  Goal
    <2>1. /\ StreamMove(Events, Steps) /\ Others(k) /\ UNCHANGED <<log, persisted>>
          /\ GoesTo(k, "persist") \/ slot'[k].step = "idle"
      BY <1>e, <1>h, <1>t, ContinueStep, RetryStep DEF Returns, GoesTo, Ends
    <2>2. \A j \in Slots : slot'[j] = slot[j] \/ slot'[j].step \notin Steps
      BY <2>1, StepNames DEF Others, GoesTo
    <2>3. StepsInv'
      BY <1>e, <1>q, <1>h, <2>1, <2>2, SlotsKept
    <2> QED BY <1>e, <1>h, <1>r, <2>1, <2>3
  <1>c. ASSUME slot[k].step # "idle", LedgerTypes', LedgerGrows, UNCHANGED recorded,
               Reconciles(k), NEW step \in Steps, Continue(k, step)
        PROVE  Goal
    <2>1. StreamMove(Events, Steps) /\ Others(k) /\ GoesTo(k, step)
      BY <1>c, <1>h, ContinueStep
    <2>2. EventOf(k)' = EventOf(k) /\ Reconciles(k)'
      BY <1>c, <2>1 DEF GoesTo, EventOf, Reconciles, Payout, FeeMayDiffer, LedgerGrows
    <2>3. ASSUME NEW j \in Slots \ {k}, slot'[j].step \in Steps PROVE Reconciles(j)'
      <3>1. slot'[j] = slot[j] /\ Reconciles(j) /\ UNCHANGED log
        BY <2>1, <2>3 DEF Others, GoesTo, TypeInv, StepsInv
      <3> QED BY <1>c, <3>1 DEF EventOf, Reconciles, Payout, FeeMayDiffer, LedgerGrows
    <2>4. StepsInv'
      BY <1>c, <1>h, <1>q, <2>2, <2>3 DEF StepsInv
    <2> QED BY <1>c, <1>h, <1>r, <2>1, <2>4 DEF GoesTo
  <1>a. /\ slot[k].step \in Steps \cup {"handle"} => slot[k].step # "idle"
        /\ slot[k].step \in Steps => Reconciles(k)
        /\ "checkReconciled" \in Steps /\ "reconcile" \in Steps
    BY DEF TypeInv, StepsInv, Steps
  <1>y. UNCHANGED ledgerVars => LedgerTypes' /\ LedgerGrows
    BY <1>t DEF LedgerTypes, LedgerGrows
  <1> HIDE DEF Goal
  <1>1. CASE PayoutSubmitted(k)
    <2>1. LedgerTypes' /\ LedgerGrows
      BY <1>1, <1>t DEF PayoutSubmitted, LedgerTypes, LedgerGrows
    <2> QED BY <1>1, <2>1, <1>e, <1>a DEF PayoutSubmitted, Handling, At
  <1>2. CASE PayoutCancelled(k)
    <2>1. slot[k].step # "idle" /\ UNCHANGED recorded /\ (Returns(k) \/ Retry(k))
      BY <1>2, <1>a DEF PayoutCancelled, Handling, At
    <2>2. CASE Payout(k) \in recorded \ voided
      <3>1. Void(Payout(k)) /\ Payout(k) \in Payments
        BY <1>2, <2>2, <1>t DEF PayoutCancelled, LedgerTypes
      <3>2. balance' \in [Wallets -> Int] /\ voided' = voided \cup {Payout(k)}
        BY <3>1, <1>t, CreditStep, DebitType, SMT DEF Void
      <3>3. LedgerTypes' /\ LedgerGrows
        BY <1>2, <1>t, <2>2, <3>2 DEF PayoutCancelled, LedgerTypes, LedgerGrows
      <3> QED BY <2>1, <3>3, <1>e
    <2>3. CASE Payout(k) \notin recorded \ voided
      <3>1. UNCHANGED ledgerVars
        BY <1>2, <2>3 DEF PayoutCancelled
      <3> QED BY <2>1, <3>1, <1>e, <1>y
    <2> QED BY <2>2, <2>3
  <1>3. CASE PayoutBroadcast(k)
    <2>1. LedgerTypes' /\ LedgerGrows /\ UNCHANGED recorded
      BY <1>3, <1>t DEF PayoutBroadcast, LedgerTypes, LedgerGrows
    <2>2. slot[k].step # "idle" /\ EventOf(k).type = "broadcast"
      BY <1>3, <1>a DEF PayoutBroadcast, Handling, At
    <2>3. \/ Payout(k) \in payoutId /\ FeeMayDiffer(Payout(k)) /\ Continue(k, "checkReconciled")
          \/ Returns(k)
      BY <1>3 DEF PayoutBroadcast
    <2> QED BY <2>1, <2>2, <2>3, <1>e, <1>c, <1>a DEF Reconciles
  <1>4. CASE CheckReconciled(k)
    BY <1>4, <1>e, <1>c, <1>a, <1>y DEF CheckReconciled, At, Returns
  <1>5. CASE Reconcile(k)
    <2>1. slot[k].step = "reconcile" /\ Payout(k) \in payoutId
      BY <1>5, <1>a DEF Reconcile, At, Reconciles
    <2>2. LedgerTypes' /\ LedgerGrows
      BY <1>5, <2>1, <1>t, SMT DEF Reconcile, LedgerTypes, LedgerGrows
    <2> QED BY <1>5, <2>1, <2>2, <1>e, <1>a DEF Reconcile
  <1>6. CASE ColdBroadcast(k)
    <2>1. LedgerTypes' /\ LedgerGrows
      BY <1>6, <1>t, SMT DEF ColdBroadcast, LedgerTypes, LedgerGrows
    <2> QED BY <1>6, <2>1, <1>e, <1>a DEF ColdBroadcast, Handling, At
  <1>7. CASE PayoutSettled(k)
    <2>1. LedgerTypes' /\ LedgerGrows
      BY <1>7, <1>t DEF PayoutSettled, LedgerTypes, LedgerGrows
    <2> QED BY <1>7, <2>1, <1>e, <1>a DEF PayoutSettled, Handling, At
  <1> QED BY <1>1, <1>2, <1>3, <1>4, <1>5, <1>6, <1>7 DEF Handle

\* The stream, a lock that expires and a step that changes nothing.
Elsewhere ==
    \/ StreamStep /\ UNCHANGED <<requestVars, ledgerVars, bria>>
    \/ \E w \in Wallets : LoseLock(w)
    \/ UNCHANGED vars

LEMMA ElsewhereType ==
    ASSUME TypeInv, Elsewhere
    PROVE  /\ StreamMove(Events, Steps) /\ UNCHANGED <<log, pc, ledgerVars, bria>>
           /\ RequestTypes' /\ LedgerTypes' /\ BriaTypes' /\ StepsInv' /\ LedgerGrows
           /\ \A j \in Slots : slot'[j] = slot[j] \/ slot'[j].step \in {"idle", "handle"}
  <1> USE DEF requestVars, ledgerVars, connection, streamVars
  <1> DEFINE Slots1 == \A j \in Slots : slot'[j] = slot[j] \/ slot'[j].step \in {"idle", "handle"}
  <1>t. /\ RequestTypes /\ LedgerTypes /\ BriaTypes /\ faults \in 0..MaxFaults /\ sent \in Nat
        /\ slot \in [Slots -> SlotStates(Steps)]
    BY SMT DEF TypeInv, StreamInv, StreamTypeOK
  <1>f. ASSUME NEW kind, Fault(kind) \/ SendFault(kind) PROVE faults' \in 0..MaxFaults
    BY <1>t, <1>f, StreamAssumption, SMT DEF Fault, SendFault
  <1>q. \A q \in Payments : pc[q] \in {"queue", "revert"} => q \in recorded
    BY DEF TypeInv, StepsInv
  <1>1. UNCHANGED <<pc, ledgerVars, bria>> /\ RequestTypes'
    <2>1. ASSUME NEW w \in Wallets, LoseLock(w) PROVE RequestTypes'
      <3>1. /\ lock' = [lock EXCEPT ![w] = None] /\ aborted' = [aborted EXCEPT ![lock[w]] = TRUE]
            /\ UNCHANGED pc
        BY <2>1 DEF LoseLock
      <3>2. lock' \in [Wallets -> Payments \cup {None}] /\ pc' \in [Payments -> Labels]
        BY <3>1, <1>t DEF RequestTypes
      <3>3. aborted' \in [Payments -> BOOLEAN]
        BY <3>1, <1>t DEF RequestTypes
      <3> QED BY <3>2, <3>3 DEF RequestTypes
    <2>2. ASSUME UNCHANGED requestVars PROVE RequestTypes'
      BY <2>2, <1>t DEF RequestTypes
    <2>3. UNCHANGED <<pc, ledgerVars, bria>>
      BY Zenon DEF Elsewhere, LoseLock, vars
    <2> QED BY <2>1, <2>2, <2>3 DEF Elsewhere, vars
  <1>2. LedgerTypes' /\ BriaTypes' /\ LedgerGrows
    BY <1>1, <1>t DEF LedgerTypes, BriaTypes, LedgerGrows
  <1>3. StreamMove(Events, Steps) /\ UNCHANGED log /\ Slots1
    <2>1. CASE \E j \in Slots : Deliver(j)
      <3>1. PICK j \in Slots : Deliver(j)
        BY <2>1
      <3>2. slot'[j].step = "handle" /\ \A i \in Slots \ {j} : slot'[i] = slot[i]
        BY <3>1, <1>t, DeliverSlot
      <3> QED BY <3>1, <3>2, <1>t DEF Deliver, StreamMove
    <2>2. CASE \E j \in Slots : Persist(j)
      <3>1. PICK j \in Slots : Persist(j)
        BY <2>2
      <3>2. slot'[j].step = "idle" /\ \A i \in Slots \ {j} : slot'[i] = slot[i]
        BY <3>1, <1>t, DoneSlot DEF Persist
      <3> QED BY <3>1, <3>2, <1>t DEF Persist, StreamMove
    <2>3. CASE \E j \in Slots : HandlerFails(j) \/ PersistFails(j)
      <3>1. PICK j \in Slots : HandlerFails(j) \/ PersistFails(j)
        BY <2>3
      <3>2. slot[j].step # "idle" /\ Retry(j) /\ faults' \in 0..MaxFaults
        BY <3>1, <1>f, TakenSlot DEF HandlerFails, PersistFails, At, TypeInv
      <3> QED BY <3>2, RetryStep DEF Ends, Others
    <2>4. CASE StreamFails
      BY <2>4, <1>f DEF StreamFails, StreamMove
    <2>5. CASE Refresh \/ Connect
      BY <2>5, <1>t DEF Refresh, Connect, StreamMove
    <2>6. CASE Crash
      <3>1. \A j \in Slots : slot'[j].step = "idle"
        BY <2>6, CrashSlots
      <3> QED BY <2>6, <3>1, <1>f DEF Crash, StreamMove
    <2>7. CASE \E w \in Wallets : LoseLock(w)
      <3>1. UNCHANGED <<log, connection, slot, persisted>> /\ faults' \in 0..MaxFaults
        BY <2>7, <1>f DEF LoseLock
      <3> QED BY <3>1 DEF StreamMove
    <2>8. CASE UNCHANGED vars
      BY <2>8, <1>t DEF vars, StreamMove
    <2> QED
      BY <2>1, <2>2, <2>3, <2>4, <2>5, <2>6, <2>7, <2>8 DEF Elsewhere, StreamStep
  <1>4. StepsInv'
    <2>1. \A j \in Slots : slot'[j] = slot[j] \/ slot'[j].step \notin Steps
      BY <1>3, StepNames
    <2> QED BY <1>1, <1>2, <1>3, <1>q, <2>1, SlotsKept
  <1> QED BY <1>1, <1>2, <1>3, <1>4

\* The steps, by who takes them.
LEMMA NextCases ==
    ASSUME [Next]_vars
    PROVE  \/ \E p \in Payments : PayOnChain(p) \/ Request(p)
           \/ \E p \in Payouts, type \in EventTypes : BriaMoves(p, type)
           \/ \E k \in Slots : Handle(k)
           \/ Elsewhere
  BY DEF Next, Elsewhere, RebalanceToColdWallet, Submit, Cancel, Broadcast, Settle, BriaStep,
         EventTypes, Payouts, BriaMoves, StateBefore, StateAfter

LEMMA TypeNext ==
    ASSUME TypeInv, [Next]_vars
    PROVE  StreamMove(Events, Steps) /\ TypeInv' /\ LogGrows /\ LedgerGrows
  <1>1. /\ StreamMove(Events, Steps)
        /\ RequestTypes' /\ LedgerTypes' /\ BriaTypes' /\ StepsInv' /\ LogGrows /\ LedgerGrows
    <2>1. CASE \E p \in Payments : PayOnChain(p) \/ Request(p)
      BY <2>1, RequestType
    <2>2. CASE \E p \in Payouts, type \in EventTypes : BriaMoves(p, type)
      BY <2>2, BriaType DEF Adds
    <2>3. CASE \E k \in Slots : Handle(k)
      BY <2>3, HandleType DEF LogGrows
    <2>4. CASE Elsewhere
      BY <2>4, ElsewhereType DEF LogGrows
    <2> QED BY <2>1, <2>2, <2>3, <2>4, NextCases
  <1> QED BY <1>1, StreamInvNext DEF TypeInv

\* In every execution the variables have their types; in particular what is pending, voided,
\* has a payout id, a hash or a fee to be corrected has a journal (the updates of the ledger
\* pass over or refuse what they do not find).
THEOREM TypeCorrect == Spec => []TypeOK
  <1>1. TypeInv /\ [Next]_vars => TypeInv'
    BY TypeNext
  <1> QED BY <1>1, TypeInit, TypesOK, PTL DEF Spec

\* With any number of handlers at the same time, no event about a payout is skipped unless a
\* later one arrived while it was handled, whatever fails, stops or connects again in
\* between (afterSequence, getLatestSequence).
THEOREM NoPayoutSkipped == Spec => []EventsCovered
  <1>1. Init => TypeInv /\ CoveredInv
    BY TypeInit, CoveredInit DEF Init
  <1>2. TypeInv /\ CoveredInv /\ [Next]_vars => TypeInv' /\ CoveredInv'
    BY TypeNext, CoveredNext DEF TypeInv
  <1>3. TypeInv /\ CoveredInv => EventsCovered
    BY CoveredImplies DEF TypeInv
  <1> QED BY <1>1, <1>2, <1>3, PTL DEF Spec

-----------------------------------------------------------------------------
(***************************************************************************)
(* The balances: a request between the check and the record holds the lock *)
(* of its wallet, so that the balance it has checked is there.             *)
(***************************************************************************)
SolventInv ==
    /\ \A p \in Payments : pc[p] \in Locked => lock[WalletOf[p]] = p
    /\ \A p \in Payments : pc[p] = "record" => balance[WalletOf[p]] >= Debit(p)
    /\ BalanceNonNegative

\* A step outside the locked part of the requests, by which no balance gets smaller.
LEMMA SolventKept ==
    ASSUME TypeInv, SolventInv,
           \A p \in Payments : pc'[p] \in Locked => pc'[p] = pc[p] /\ lock'[WalletOf[p]] = p,
           \A w \in Wallets : balance'[w] >= balance[w], LedgerTypes'
    PROVE  SolventInv'
  <1>1. balance \in [Wallets -> Int] /\ balance' \in [Wallets -> Int]
    BY DEF TypeInv, LedgerTypes
  <1>2. "record" \in Locked
    BY DEF Locked
  <1> QED BY <1>1, <1>2, DebitType, SMT DEF SolventInv, BalanceNonNegative, Debit

LEMMA SolventNext ==
    ASSUME "loseLock" \notin SendFaults, TypeInv, SolventInv, [Next]_vars
    PROVE  SolventInv'
  <1> USE DEF requestVars, ledgerVars
  <1>t. /\ RequestTypes /\ LedgerTypes /\ RequestTypes' /\ LedgerTypes'
        /\ balance \in [Wallets -> Int] /\ balance' \in [Wallets -> Int]
    BY TypeNext DEF TypeInv, LedgerTypes
  <1>s. /\ \A p \in Payments : pc[p] \in Locked => lock[WalletOf[p]] = p
        /\ \A p \in Payments : pc[p] = "record" => balance[WalletOf[p]] >= Debit(p)
        /\ \A w \in Wallets : balance[w] >= 0
    BY DEF SolventInv, BalanceNonNegative
  <1>l. /\ {"idle", "lock", "done", "checkBalance", "record", "queue", "revert"} = Labels
        /\ {"checkBalance", "record", "queue", "revert"} = Locked
    BY DEF Labels, Locked
  <1>1. ASSUME NEW p \in Payments, PayOnChain(p) \/ Request(p) PROVE SolventInv'
    <2>w. WalletOf[p] \in Wallets /\ Debit(p) \in Nat
      BY DebitType
    <2>o. \A q \in Payments \ {p} : pc'[q] = pc[q]
      BY <1>1, RequestType
    \* The requests that hold another lock, when this one holds its own.
    <2>x. ASSUME pc[p] \in Locked
          PROVE  \A q \in Payments \ {p} : pc[q] \in Locked => WalletOf[q] # WalletOf[p]
      BY <2>x, <1>s
    <2>h. ASSUME pc'[p] \in Locked => pc'[p] = pc[p] /\ lock'[WalletOf[p]] = p,
                 Release(p) \/ UNCHANGED lock, \A w \in Wallets : balance'[w] >= balance[w]
          PROVE  SolventInv'
      <3>1. ASSUME NEW q \in Payments \ {p}, pc'[q] \in Locked PROVE lock'[WalletOf[q]] = q
        <4>1. lock[WalletOf[q]] = q /\ WalletOf[q] \in Wallets
          BY <3>1, <2>o, <1>s, DebitType
        <4> QED BY <4>1, <2>h, <1>t, ReleaseStep
      <3> QED BY <2>h, <2>o, <3>1, <1>t, SolventKept
    <2>u. UNCHANGED balance => \A w \in Wallets : balance'[w] >= balance[w]
      BY <1>t, SMT
    <2>1. CASE PayOnChain(p) \/ LockUnavailable(p)
      <3>1. pc'[p] \notin Locked /\ UNCHANGED <<lock, balance>>
        BY <2>1, <1>t, <1>l, LabelStep DEF PayOnChain, LockUnavailable
      <3> QED BY <3>1, <2>h, <2>u
    <2>2. CASE AcquireLock(p)
      <3>1. /\ lock[WalletOf[p]] = None /\ lock' = [lock EXCEPT ![WalletOf[p]] = p]
            /\ UNCHANGED balance /\ Goto(p, "checkBalance")
        BY <2>2 DEF AcquireLock
      <3>2. lock'[WalletOf[p]] = p /\ \A w \in Wallets \ {WalletOf[p]} : lock'[w] = lock[w]
        BY <3>1, <2>w, <1>t DEF RequestTypes
      <3>3. pc'[p] = "checkBalance"
        BY <3>1, <1>t, <1>l, LabelStep
      <3>4. ASSUME NEW q \in Payments \ {p}, pc'[q] \in Locked PROVE lock'[WalletOf[q]] = q
        <4>1. lock[WalletOf[q]] = q /\ WalletOf[q] \in Wallets
          BY <3>4, <2>o, <1>s, DebitType
        <4> QED BY <4>1, <3>1, <3>2, SendAssumption
      <3> QED BY <3>1, <3>2, <3>3, <3>4, <2>o, <1>s, <1>l DEF SolventInv, BalanceNonNegative, Debit
    <2>3. CASE CheckBalance(p)
      <3>1. UNCHANGED balance /\ pc[p] \in Locked
        BY <2>3, <1>l DEF CheckBalance
      <3>2. CASE Goto(p, "done") /\ Release(p)
        <4>1. pc'[p] \notin Locked
          BY <3>2, <1>t, <1>l, LabelStep
        <4> QED BY <3>1, <3>2, <4>1, <2>h, <2>u
      <3>3. CASE balance[WalletOf[p]] >= Debit(p) /\ Goto(p, "record") /\ UNCHANGED lock
        <4>1. pc'[p] = "record"
          BY <3>3, <1>t, <1>l, LabelStep
        <4> QED BY <3>1, <3>3, <4>1, <2>o, <1>s DEF SolventInv, BalanceNonNegative, Debit
      <3> QED BY <2>3, <3>2, <3>3 DEF CheckBalance, Leave
    <2>4. CASE RecordSend(p)
      <3>1. pc[p] = "record" /\ UNCHANGED lock /\ Credit(p, -Debit(p)) /\ Goto(p, "queue")
        BY <2>4 DEF RecordSend
      <3>2. /\ balance'[WalletOf[p]] = balance[WalletOf[p]] + (-Debit(p))
            /\ \A w \in Wallets \ {WalletOf[p]} : balance'[w] = balance[w]
        BY <3>1, <1>t, CreditStep, DebitType
      <3>3. balance[WalletOf[p]] >= Debit(p) /\ balance[WalletOf[p]] \in Int
        BY <3>1, <2>w, <1>s, <1>t
      <3>4. \A w \in Wallets : balance'[w] >= 0
        BY <3>2, <3>3, <2>w, <1>s, SMT
      <3>5. pc'[p] = "queue"
        BY <3>1, <1>t, <1>l, LabelStep
      <3>6. ASSUME NEW q \in Payments, pc'[q] = "record" PROVE balance'[WalletOf[q]] >= Debit(q)
        <4>1. q # p /\ pc[q] = "record" /\ WalletOf[q] \in Wallets \ {WalletOf[p]}
          BY <3>6, <3>5, <3>1, <2>o, <2>x, <1>l, DebitType
        <4> QED BY <4>1, <3>2, <1>s
      <3>7. \A q \in Payments : pc'[q] \in Locked => lock'[WalletOf[q]] = q
        BY <3>1, <3>5, <2>o, <1>s, <1>l
      <3> QED BY <3>4, <3>6, <3>7 DEF SolventInv, BalanceNonNegative, Debit
    <2>5. CASE QueuePayout(p)
      <3>1. UNCHANGED balance /\ pc[p] \in Locked /\ pc[p] = "queue"
        BY <2>5, <1>l DEF QueuePayout
      <3>2. CASE Goto(p, "done") /\ Release(p)
        <4>1. pc'[p] \notin Locked
          BY <3>2, <1>t, <1>l, LabelStep
        <4> QED BY <3>1, <3>2, <4>1, <2>h, <2>u
      <3>3. CASE Goto(p, "revert") /\ UNCHANGED lock
        <4>1. pc'[p] = "revert"
          BY <3>3, <1>t, <1>l, LabelStep
        <4> QED BY <3>1, <3>3, <4>1, <2>o, <1>s DEF SolventInv, BalanceNonNegative, Debit
      <3> QED BY <2>5, <3>2, <3>3 DEF QueuePayout, Leave
    <2>6. CASE Revert(p)
      <3>1. Goto(p, "done") /\ Release(p) /\ (Credit(p, Debit(p)) \/ UNCHANGED balance)
        BY <2>6 DEF Revert, Leave, Void
      <3>2. \A w \in Wallets : balance'[w] >= balance[w]
        BY <3>1, <1>t, <2>w, <2>u, CreditStep, SMT
      <3>3. pc'[p] \notin Locked
        BY <3>1, <1>t, <1>l, LabelStep
      <3> QED BY <3>1, <3>2, <3>3, <2>h
    <2>7. CASE RevertFails(p)
      <3>1. Goto(p, "done") /\ Release(p) /\ UNCHANGED balance
        BY <2>7 DEF RevertFails, Leave
      <3>2. pc'[p] \notin Locked
        BY <3>1, <1>t, <1>l, LabelStep
      <3> QED BY <3>1, <3>2, <2>h, <2>u
    <2> QED BY <1>1, <2>1, <2>2, <2>3, <2>4, <2>5, <2>6, <2>7 DEF Request
  <1>2. ASSUME UNCHANGED <<pc, lock>>, \A w \in Wallets : balance'[w] >= balance[w]
        PROVE  SolventInv'
    BY <1>2, <1>s, <1>t, SolventKept
  <1>u. UNCHANGED balance => \A w \in Wallets : balance'[w] >= balance[w]
    BY <1>t, SMT
  <1>3. CASE \E p \in Payouts, type \in EventTypes : BriaMoves(p, type)
    BY <1>3, <1>2, <1>u, BriaType
  <1>4. ASSUME NEW k \in Slots, Handle(k) PROVE SolventInv'
    <2>1. UNCHANGED <<pc, lock>>
      BY <1>4, HandleType
    <2>2. CASE PayoutCancelled(k)
      <3>1. CASE Payout(k) \in recorded \ voided
        <4>1. Payout(k) \in Payments /\ Credit(Payout(k), Debit(Payout(k)))
          BY <2>2, <3>1, <1>t DEF PayoutCancelled, Void, LedgerTypes
        <4>2. \A w \in Wallets : balance'[w] >= balance[w]
          BY <4>1, <1>t, DebitType, CreditStep, SMT
        <4> QED BY <4>2, <2>1, <1>2
      <3>2. CASE Payout(k) \notin recorded \ voided
        BY <2>1, <2>2, <3>2, <1>2, <1>u DEF PayoutCancelled
      <3> QED BY <3>1, <3>2
    <2>3. CASE ~PayoutCancelled(k)
      <3>1. UNCHANGED balance
        BY <1>4, <2>3 DEF Handle, PayoutSubmitted, PayoutBroadcast, CheckReconciled, Reconcile,
           ColdBroadcast, PayoutSettled
      <3> QED BY <2>1, <3>1, <1>2, <1>u
    <2> QED BY <2>2, <2>3
  <1>5. CASE Elsewhere
    <2>1. UNCHANGED <<pc, balance>>
      BY <1>5, ElsewhereType
    <2>2. UNCHANGED lock
      BY <1>5 DEF Elsewhere, LoseLock, SendFault, vars
    <2> QED BY <2>1, <2>2, <1>2, <1>u
  <1> QED BY <1>1, <1>3, <1>4, <1>5, NextCases

\* While the locks of the wallets last, no wallet is overdrawn by payments that are checked,
\* recorded and given back at the same time, whatever Bria and its events do.
THEOREM NoOverdraft == ASSUME "loseLock" \notin SendFaults PROVE Spec => []BalanceNonNegative
  <1>1. Init => TypeInv /\ SolventInv
    BY TypeInit, SendAssumption, SMT DEF Init, SolventInv, BalanceNonNegative, Locked
  <1>2. TypeInv /\ SolventInv /\ [Next]_vars => TypeInv' /\ SolventInv'
    BY TypeNext, SolventNext
  <1>3. SolventInv => BalanceNonNegative
    BY DEF SolventInv
  <1> QED BY <1>1, <1>2, <1>3, PTL DEF Spec

-----------------------------------------------------------------------------
(***************************************************************************)
(* What the request of a payment writes.                                   *)
(***************************************************************************)
RequestWrites(p) ==
    /\ UNCHANGED <<coldTransfers, reconciled, txId, pendingFee>>
    /\ UNCHANGED <<log, bria>> \/ (QueuePayout(p) /\ Submit(p))
    /\ UNCHANGED voided \/ (UNCHANGED <<log, bria>> /\ voided' = voided \cup {p} /\ Goto(p, "done"))
    /\ pending' \subseteq pending \/ (pc[p] = "record" /\ pending' = pending \cup {p})
    /\ pc[p] # "done" /\ (pc[p] = "revert" => Goto(p, "done"))

LEMMA RequestStep ==
    ASSUME NEW p, PayOnChain(p) \/ Request(p)
    PROVE  RequestWrites(p)
  <1>1. CASE PayOnChain(p) \/ AcquireLock(p) \/ LockUnavailable(p) \/ CheckBalance(p)
    <2>1. UNCHANGED <<streamVars, ledgerVars, bria>> /\ pc[p] \notin {"done", "revert"}
      BY <1>1 DEF PayOnChain, AcquireLock, LockUnavailable, CheckBalance
    <2> QED BY <2>1 DEF RequestWrites, streamVars, ledgerVars
  <1>2. CASE RecordSend(p)
    BY <1>2 DEF RecordSend, RequestWrites, streamVars
  <1>3. CASE QueuePayout(p)
    <2>1. UNCHANGED ledgerVars /\ pc[p] = "queue" /\ (UNCHANGED <<log, bria>> \/ Submit(p))
      BY <1>3 DEF QueuePayout, streamVars
    <2> QED BY <1>3, <2>1 DEF RequestWrites, ledgerVars
  <1>4. CASE Revert(p)
    BY <1>4 DEF Revert, Void, Leave, RequestWrites, streamVars
  <1>5. CASE RevertFails(p)
    BY <1>5 DEF RevertFails, Leave, RequestWrites
  <1> QED BY <1>1, <1>2, <1>3, <1>4, <1>5 DEF Request

-----------------------------------------------------------------------------
(***************************************************************************)
(* The log of Bria: a payout is submitted before anything else is told of  *)
(* it, it is broadcast before it is settled, and its payment was recorded. *)
(***************************************************************************)
Told(type, p, n) == \E j \in 1..n : log[j] = Event(type, p)

EventInOrder(i) ==
    /\ log[i].type # "submitted" => Told("submitted", log[i].of, i - 1)
    /\ log[i].type = "settled" => Told("broadcast", log[i].of, i - 1)
    /\ log[i].of \in Payments => log[i].of \in recorded /\ pc[log[i].of] \in {"revert", "done"}

LogInv ==
    /\ \A i \in 1..Len(log) : EventInOrder(i)
    /\ \A p \in Payouts :
        /\ bria[p] # "none" => Told("submitted", p, Len(log))
        /\ bria[p] \in {"broadcast", "settled"} => Told("broadcast", p, Len(log))

\* No payment leaves the end of its request.
PcKept == \A p \in Payments : pc[p] \in {"revert", "done"} => pc'[p] \in {"revert", "done"}

LEMMA OldEvents ==
    ASSUME TypeInv, LogInv, LogGrows, LedgerGrows, PcKept, Len(log) <= Len(log'), Len(log') \in Nat
    PROVE  /\ \A i \in 1..Len(log) : EventInOrder(i)'
           /\ \A p, type, n : n \in 0..Len(log) /\ Told(type, p, n) => Told(type, p, n)'
           /\ \A p, type : Told(type, p, Len(log)) => Told(type, p, Len(log))'
  <1>1. Len(log) \in Nat
    BY SMT DEF TypeInv, StreamInv
  <1>2. ASSUME NEW p, NEW type, NEW n \in 0..Len(log), Told(type, p, n) PROVE Told(type, p, n)'
    BY <1>1, <1>2, SMT DEF Told, LogGrows, Event
  <1>3. ASSUME NEW p, NEW type, Told(type, p, Len(log)) PROVE Told(type, p, Len(log))'
    BY <1>1, <1>3, SMT DEF Told, LogGrows, Event
  <1>4. ASSUME NEW i \in 1..Len(log) PROVE EventInOrder(i)'
    <2>1. log'[i] = log[i] /\ EventInOrder(i) /\ i - 1 \in 0..Len(log)
      BY <1>1, SMT DEF LogGrows, LogInv
    <2> QED BY <2>1, <1>2 DEF EventInOrder, LedgerGrows, PcKept
  <1> QED BY <1>2, <1>3, <1>4

LEMMA NewEvent ==
    ASSUME TypeInv, LogInv, LedgerGrows, PcKept, NEW p \in Payouts, NEW type \in EventTypes,
           Adds(type, p), \A q \in Payouts \ {p} : bria'[q] = bria[q],
           type # "submitted" => bria[p] = StateBefore(type), bria'[p] = StateAfter(type),
           p \in Payments => p \in recorded' /\ pc'[p] \in {"revert", "done"}
    PROVE  LogInv'
  <1>1. /\ Len(log) \in Nat /\ Len(log') = Len(log) + 1 /\ LogGrows
        /\ log'[Len(log')] = Event(type, p)
    BY SMT DEF TypeInv, StreamInv, Adds
  <1>2. log'[Len(log')].type = type /\ log'[Len(log')].of = p
    BY <1>1, SMT DEF Event
  <1>4. Told(type, p, Len(log))'
    BY <1>1, SMT DEF Told, Event
  <1>5. /\ \A i \in 1..Len(log) : EventInOrder(i)'
        /\ \A q, t, n : n \in 0..Len(log) /\ Told(t, q, n) => Told(t, q, n)'
        /\ \A q, t : Told(t, q, Len(log)) => Told(t, q, Len(log))'
    BY <1>1, OldEvents, SMT
  <1>6. /\ \A q \in Payouts : bria[q] # "none" => Told("submitted", q, Len(log))
        /\ \A q \in Payouts : bria[q] \in {"broadcast", "settled"} => Told("broadcast", q, Len(log))
    BY DEF LogInv
  <1>7. ASSUME NEW i \in 1..Len(log') PROVE EventInOrder(i)'
    <2>1. CASE i = Len(log')
      <3>1. i - 1 = Len(log) /\ i - 1 \in 0..Len(log)
        BY <2>1, <1>1, SMT
      <3>2. type # "submitted" => Told("submitted", p, i - 1)
        BY <3>1, <1>6 DEF StateBefore
      <3>3. type = "settled" => Told("broadcast", p, i - 1)
        BY <3>1, <1>6 DEF StateBefore
      <3> QED BY <1>2, <1>5, <2>1, <3>1, <3>2, <3>3 DEF EventInOrder
    <2>2. CASE i # Len(log')
      <3>1. i \in 1..Len(log)
        BY <2>2, <1>1, SMT
      <3> QED BY <3>1, <1>5
    <2> QED BY <2>1, <2>2
  <1>8. ASSUME NEW q \in Payouts
        PROVE  /\ bria'[q] # "none" => Told("submitted", q, Len(log))'
               /\ bria'[q] \in {"broadcast", "settled"} => Told("broadcast", q, Len(log))'
    <2>1. CASE q # p
      BY <2>1, <1>5, <1>6
    <2>2. CASE q = p
      BY <2>2, <1>4, <1>5, <1>6 DEF StateBefore, StateAfter, EventTypes
    <2> QED BY <2>1, <2>2
  <1> QED BY <1>7, <1>8 DEF LogInv

LEMMA LogNext ==
    ASSUME TypeInv, LogInv, [Next]_vars
    PROVE  LogInv'
  <1> USE DEF requestVars, ledgerVars, streamVars
  <1>t. LogGrows /\ LedgerGrows /\ RequestTypes /\ Len(log) \in Nat /\ Len(log) <= Len(log)
    BY TypeNext, SMT DEF TypeInv, StreamInv
  <1>l. {"idle", "lock", "done", "checkBalance", "record", "queue", "revert"} = Labels
    BY DEF Labels, Locked
  <1>s. "submitted" \in EventTypes /\ "broadcast" \in EventTypes
    BY DEF EventTypes
  <1>k. ASSUME UNCHANGED <<log, bria>>, PcKept PROVE LogInv'
    BY <1>k, <1>t, OldEvents DEF LogInv
  <1>1. ASSUME NEW p \in Payments, PayOnChain(p) \/ Request(p) PROVE LogInv'
    <2>o. (\A q \in Payments \ {p} : pc'[q] = pc[q]) /\ \A q \in Payouts \ {p} : bria'[q] = bria[q]
      BY <1>1, RequestType
    <2>1. CASE QueuePayout(p) /\ Submit(p)
      <3>1. pc[p] = "queue" /\ p \in recorded /\ p \in Payouts
        BY <2>1 DEF QueuePayout, TypeInv, StepsInv, Payouts
      <3>2. pc'[p] \in {"revert", "done"} /\ PcKept
        BY <2>1, <2>o, <3>1, <1>t, <1>l, LabelStep DEF QueuePayout, Leave, PcKept
      <3>3. faults' \in 0..MaxFaults
        BY <2>1, StreamAssumption, SMT
        DEF QueuePayout, SendFault, TypeInv, StreamInv, StreamTypeOK
      <3>4. Adds("submitted", p) /\ bria'[p] = StateAfter("submitted")
        BY <2>1, <3>1, <3>3, SubmitType DEF StateAfter
      <3> QED BY <3>1, <3>2, <3>4, <2>o, <1>t, <1>s, NewEvent DEF LedgerGrows
    <2>2. CASE ~(QueuePayout(p) /\ Submit(p))
      <3>1. UNCHANGED <<log, bria>> /\ pc[p] # "done" /\ (pc[p] = "revert" => Goto(p, "done"))
        BY <1>1, <2>2, RequestStep DEF RequestWrites
      <3>2. pc[p] \notin {"revert", "done"} \/ pc'[p] = "done"
        BY <3>1, <1>t, <1>l, LabelStep
      <3> QED BY <3>1, <3>2, <2>o, <1>k DEF PcKept
    <2> QED BY <2>1, <2>2
  <1>2. ASSUME NEW p \in Payouts, NEW type \in EventTypes, BriaMoves(p, type) PROVE LogInv'
    <2>1. /\ Adds(type, p) /\ UNCHANGED <<pc, recorded>>
          /\ bria[p] = StateBefore(type) /\ bria'[p] = StateAfter(type)
          /\ \A q \in Payouts \ {p} : bria'[q] = bria[q]
      BY <1>2, BriaType
    <2>2. p \in Payments => p \in recorded /\ pc[p] \in {"revert", "done"}
      <3> SUFFICES ASSUME p \in Payments PROVE p \in recorded /\ pc[p] \in {"revert", "done"}
        OBVIOUS
      <3>1. bria[p] # "none"
        BY <1>2, <2>1, SendAssumption DEF BriaMoves, StateBefore
      <3>2. PICK j \in 1..Len(log) : log[j] = Event("submitted", p)
        BY <3>1 DEF LogInv, Told
      <3> QED BY <3>2, SMT DEF LogInv, EventInOrder, Event
    <2>3. PcKept
      BY <2>1 DEF PcKept
    <2> QED BY <2>1, <2>2, <2>3, <1>t, NewEvent
  <1>3. CASE \E k \in Slots : Handle(k)
    BY <1>3, <1>k, HandleType DEF PcKept
  <1>4. CASE Elsewhere
    BY <1>4, <1>k, ElsewhereType DEF PcKept
  <1> QED BY <1>1, <1>2, <1>3, <1>4, NextCases

-----------------------------------------------------------------------------
(***************************************************************************)
(* A payout is broadcast once.                                             *)
(***************************************************************************)
BroadcastInv ==
    /\ \A i \in 1..Len(log) : log[i].type = "broadcast" => bria[log[i].of] \in {"broadcast", "settled"}
    /\ \A i, m \in 1..Len(log) : log[i].type = "broadcast" /\ log[i] = log[m] => i = m

LEMMA BroadcastLog ==
    ASSUME TypeInv, BroadcastInv, NEW p \in Payouts, NEW type \in EventTypes, Adds(type, p),
           \A q \in Payouts \ {p} : bria'[q] = bria[q],
           \/ type = "settled" /\ bria'[p] = "settled"
           \/ /\ \A i \in 1..Len(log) : log[i].type = "broadcast" => log[i].of # p
              /\ type = "broadcast" => bria'[p] = "broadcast"
    PROVE  BroadcastInv'
  <1>1. /\ Len(log) \in Nat /\ Len(log') = Len(log) + 1
        /\ \A i \in 1..Len(log) : log'[i] = log[i] /\ log[i].of \in Payouts
        /\ log'[Len(log')] = Event(type, p)
    <2>1. log \in Seq(Events)
      BY DEF TypeInv, StreamInv
    <2>2. Len(log) \in Nat /\ \A i \in 1..Len(log) : log[i] \in Events
      BY <2>1, SMT
    <2>3. \A i \in 1..Len(log) : log[i].of \in Payouts
      BY <2>2 DEF Events
    <2> QED BY <2>2, <2>3 DEF Adds, LogGrows
  <1>2. \A i \in 1..Len(log') : i \in 1..Len(log) \/ i = Len(log')
    BY <1>1, SMT
  <1>3. Event(type, p).type = type /\ Event(type, p).of = p
    BY SMT DEF Event
  <1>4. /\ \A i \in 1..Len(log) : log[i].type = "broadcast" => bria[log[i].of] \in {"broadcast", "settled"}
        /\ \A i, m \in 1..Len(log) : log[i].type = "broadcast" /\ log[i] = log[m] => i = m
    BY DEF BroadcastInv
  <1>5. \A i \in 1..Len(log') : log'[i].type = "broadcast" => bria'[log'[i].of] \in {"broadcast", "settled"}
    <2>1. ASSUME NEW i \in 1..Len(log), log[i].type = "broadcast"
          PROVE  bria'[log[i].of] \in {"broadcast", "settled"}
      BY <2>1, <1>1, <1>4
    <2> QED BY <2>1, <1>1, <1>2, <1>3
  <1>6. \A i \in 1..Len(log) : log[i].type = "broadcast" => log[i] # Event(type, p)
    BY <1>3, <1>4
  <1>7. \A i, m \in 1..Len(log') : log'[i].type = "broadcast" /\ log'[i] = log'[m] => i = m
    BY <1>1, <1>2, <1>4, <1>6
  <1> QED BY <1>5, <1>7 DEF BroadcastInv

LEMMA BroadcastNext ==
    ASSUME TypeInv, LogInv, BroadcastInv, [Next]_vars
    PROVE  BroadcastInv'
  <1>k. UNCHANGED <<log, bria>> => BroadcastInv'
    BY DEF BroadcastInv
  <1>s. "submitted" \in EventTypes
    BY DEF EventTypes
  <1>1. ASSUME NEW p \in Payments, PayOnChain(p) \/ Request(p) PROVE BroadcastInv'
    <2>1. CASE QueuePayout(p) /\ Submit(p)
      <3>1. pc[p] = "queue" /\ p \in Payouts
        BY <2>1 DEF QueuePayout, Payouts
      <3>2. \A i \in 1..Len(log) : log[i].of # p
        BY <3>1 DEF LogInv, EventInOrder
      <3>3. faults' \in 0..MaxFaults
        BY <2>1, StreamAssumption, SMT
        DEF QueuePayout, SendFault, TypeInv, StreamInv, StreamTypeOK, streamVars
      <3>4. Adds("submitted", p) /\ \A q \in Payouts \ {p} : bria'[q] = bria[q]
        BY <2>1, <3>1, <3>3, SubmitType
      <3> QED BY <3>1, <3>2, <3>4, <1>s, BroadcastLog
    <2>2. CASE ~(QueuePayout(p) /\ Submit(p))
      BY <1>1, <2>2, <1>k, RequestStep DEF RequestWrites
    <2> QED BY <2>1, <2>2
  <1>2. ASSUME NEW p \in Payouts, NEW type \in EventTypes, BriaMoves(p, type) PROVE BroadcastInv'
    <2>1. /\ Adds(type, p) /\ bria[p] = StateBefore(type) /\ bria'[p] = StateAfter(type)
          /\ \A q \in Payouts \ {p} : bria'[q] = bria[q]
      BY <1>2, BriaType
    <2>2. CASE type = "settled"
      BY <2>1, <2>2, BroadcastLog DEF StateAfter
    <2>3. CASE type # "settled"
      <3>1. bria[p] \notin {"broadcast", "settled"} /\ (type = "broadcast" => bria'[p] = "broadcast")
        BY <2>1, <2>3 DEF StateBefore, StateAfter
      <3>2. \A i \in 1..Len(log) : log[i].type = "broadcast" => log[i].of # p
        BY <3>1 DEF BroadcastInv
      <3> QED BY <2>1, <3>1, <3>2, BroadcastLog
    <2> QED BY <2>2, <2>3
  <1>3. CASE (\E k \in Slots : Handle(k)) \/ Elsewhere
    BY <1>3, <1>k, HandleType, ElsewhereType
  <1> QED BY <1>1, <1>2, <1>3, NextCases

-----------------------------------------------------------------------------
(***************************************************************************)
(* What a step leaves of the handlers, of the events and of the ledger.    *)
(***************************************************************************)
\* A handler past the beginning is the one that moves, or stays where it is.
LEMMA SlotCases ==
    ASSUME TypeInv, [Next]_vars, NEW j \in Slots, slot'[j].step \notin {"idle", "handle"}
    PROVE  /\ Handle(j) \/ slot'[j] = slot[j]
           /\ slot[j].step # "idle" /\ slot'[j].seq = slot[j].seq /\ slot[j].seq \in 1..Len(log)
           /\ EventOf(j)' = EventOf(j) /\ Payout(j)' = Payout(j)
  <1>1. (Handle(j) /\ slot[j].step # "idle") \/ slot'[j] = slot[j]
    <2>1. CASE \E p \in Payments : PayOnChain(p) \/ Request(p)
      BY <2>1, RequestType
    <2>2. CASE \E p \in Payouts, type \in EventTypes : BriaMoves(p, type)
      BY <2>2, BriaType
    <2>3. CASE \E k \in Slots : Handle(k)
      BY <2>3, HandleType DEF Others
    <2>4. CASE Elsewhere
      BY <2>4, ElsewhereType
    <2> QED BY <2>1, <2>2, <2>3, <2>4, NextCases
  <1>2. slot[j].step # "idle" /\ slot'[j].seq = slot[j].seq
    BY <1>1, HandleType DEF GoesTo
  <1>3. slot[j].seq \in 1..Len(log)
    BY <1>2, TakenEvent
  <1>4. \A i \in 1..Len(log) : log'[i] = log[i]
    BY TypeNext DEF LogGrows
  <1> QED BY <1>1, <1>2, <1>3, <1>4 DEF EventOf, Payout

\* What the ledger knows stays: only the pending flags are taken back.
LedgerMonotone ==
    /\ LedgerGrows /\ txId \subseteq txId'
    /\ \A r \in Rebalances : coldTransfers[r] > 0 => coldTransfers'[r] > 0
    /\ \A p \in Payments : reconciled[p] >= 1 => reconciled'[p] >= 1

LEMMA LedgerStep == ASSUME TypeInv, [Next]_vars PROVE LedgerMonotone
  <1> USE DEF LedgerMonotone, ledgerVars
  <1>t. LedgerGrows /\ LedgerTypes
    BY TypeNext DEF TypeInv
  <1>1. CASE \E p \in Payments : PayOnChain(p) \/ Request(p)
    BY <1>1, <1>t, RequestStep DEF RequestWrites
  <1>2. CASE (\E p \in Payouts, type \in EventTypes : BriaMoves(p, type)) \/ Elsewhere
    BY <1>2, <1>t, BriaType, ElsewhereType
  <1>3. ASSUME NEW k \in Slots, Handle(k) PROVE LedgerMonotone
    <2>1. CASE Reconcile(k)
      <3>1. UNCHANGED <<txId, coldTransfers>> /\ reconciled' = [reconciled EXCEPT ![Payout(k)] = @ + 1]
        BY <2>1 DEF Reconcile
      <3>2. \A p \in Payments : reconciled[p] >= 1 => reconciled'[p] >= 1
        BY <3>1, <1>t, SMT DEF LedgerTypes
      <3> QED BY <3>1, <3>2, <1>t
    <2>2. CASE ColdBroadcast(k)
      <3>1. /\ UNCHANGED <<txId, reconciled>>
            /\ coldTransfers' = [coldTransfers EXCEPT ![Payout(k)] = @ + 1]
        BY <2>2 DEF ColdBroadcast
      <3>2. \A r \in Rebalances : coldTransfers[r] > 0 => coldTransfers'[r] > 0
        BY <3>1, <1>t, SMT DEF LedgerTypes
      <3> QED BY <3>1, <3>2, <1>t
    <2>3. CASE ~Reconcile(k) /\ ~ColdBroadcast(k)
      BY <1>3, <2>3, <1>t DEF Handle, PayoutSubmitted, PayoutCancelled, PayoutBroadcast,
         CheckReconciled, PayoutSettled
    <2> QED BY <2>1, <2>2, <2>3
  <1> QED BY <1>1, <1>2, <1>3, NextCases

\* The correction of a fee is made by one handler.
LEMMA ReconciledBy ==
    ASSUME [Next]_vars, ~UNCHANGED <<reconciled>>
    PROVE  \E k \in Slots : Reconcile(k)
  <1> USE DEF ledgerVars
  <1>1. ASSUME NEW p, PayOnChain(p) \/ Request(p) PROVE UNCHANGED reconciled
    BY <1>1, RequestStep DEF RequestWrites
  <1>2. ASSUME NEW k \in Slots, Handle(k) PROVE UNCHANGED reconciled \/ Reconcile(k)
    BY <1>2 DEF Handle, PayoutSubmitted, PayoutCancelled, PayoutBroadcast, CheckReconciled,
       ColdBroadcast, PayoutSettled
  <1>3. CASE (\E p \in Payouts, type \in EventTypes : BriaMoves(p, type)) \/ Elsewhere
    BY <1>3 DEF BriaMoves, Elsewhere, LoseLock, vars
  <1> QED BY <1>1, <1>2, <1>3, NextCases

\* A handler comes to the correction of a fee by not finding one.
LEMMA ReconcileFound ==
    ASSUME TypeInv, NEW k \in Slots, Handle(k), slot'[k].step = "reconcile"
    PROVE  /\ slot[k].step = "checkReconciled" /\ reconciled[Payout(k)] = 0
           /\ UNCHANGED <<reconciled, voided>>
  <1>h. slot[k].step # "idle" /\ UNCHANGED faults /\ faults \in 0..MaxFaults
    BY HandleType DEF TypeInv, StreamInv, StreamTypeOK
  <1>c. ASSUME NEW step \in {"persist", "checkReconciled"}, Continue(k, step) PROVE FALSE
    BY <1>h, <1>c, ContinueStep DEF GoesTo, Steps
  <1>r. Retry(k) => FALSE
    BY <1>h, RetryStep DEF Ends
  <1>1. CheckReconciled(k)
    BY <1>c, <1>r DEF Handle, PayoutSubmitted, PayoutCancelled, PayoutBroadcast, Reconcile,
       ColdBroadcast, PayoutSettled, Returns
  <1>2. slot[k].step = "checkReconciled" /\ UNCHANGED <<reconciled, voided>>
    BY <1>1 DEF CheckReconciled, At, ledgerVars
  <1>3. ~(reconciled[Payout(k)] > 0)
    BY <1>1, <1>c DEF CheckReconciled
  <1>4. reconciled[Payout(k)] \in Nat
    BY <1>2 DEF TypeInv, StepsInv, Reconciles, Steps, LedgerTypes
  <1> QED BY <1>2, <1>3, <1>4, SMT

-----------------------------------------------------------------------------
(***************************************************************************)
(* A fee is corrected once.                                                *)
(***************************************************************************)
Doubled(p) == \E n \in doubled : log[n] = Event("broadcast", p)

OnceInv ==
    /\ \A p \in Payments : reconciled[p] <= 1 \/ Doubled(p)
    /\ \A k \in Slots : slot[k].step = "reconcile" => reconciled[Payout(k)] = 0 \/ Doubled(Payout(k))

LEMMA DoubledStays ==
    ASSUME TypeInv, [Next]_vars, NEW p, Doubled(p)
    PROVE  Doubled(p)'
  <1>1. doubled \subseteq doubled' /\ doubled \subseteq 1..Len(log) /\ LogGrows
    BY TypeNext, OverlapsGrow DEF TypeInv, StreamInv, StreamTypeOK
  <1>2. PICK n \in doubled : log[n] = Event("broadcast", p)
    BY DEF Doubled
  <1>3. n \in doubled' /\ log'[n] = Event("broadcast", p)
    BY <1>1, <1>2 DEF LogGrows
  <1> QED BY <1>3 DEF Doubled, Event

\* A handler that corrects a fee handles the broadcast of the payment.
LEMMA ReconcilesEvent ==
    ASSUME TypeInv, NEW k \in Slots, slot[k].step \in Steps
    PROVE  /\ slot[k].seq \in 1..Len(log) /\ log[slot[k].seq] = Event("broadcast", Payout(k))
           /\ log[slot[k].seq].type = "broadcast" /\ log[slot[k].seq].of = Payout(k)
           /\ Payout(k) \in Payments /\ Payout(k) \in payoutId /\ FeeMayDiffer(Payout(k))
           /\ slot[k].step # "idle"
  <1>1. slot[k].step # "idle" /\ Reconciles(k)
    BY StepNames DEF TypeInv, StepsInv
  <1>2. slot[k].seq \in 1..Len(log) /\ EventOf(k) = Event(EventOf(k).type, Payout(k))
    BY <1>1, TakenEvent
  <1> QED BY <1>1, <1>2 DEF Reconciles, EventOf, Payout, TypeInv, LedgerTypes

LEMMA OnceNext ==
    ASSUME TypeInv, CoveredInv, BroadcastInv, OnceInv, [Next]_vars
    PROVE  OnceInv'
  <1>r. "reconcile" \in Steps
    BY DEF Steps
  <1>1. CASE UNCHANGED reconciled
    <2>1. ASSUME NEW p \in Payments PROVE reconciled'[p] <= 1 \/ Doubled(p)'
      BY <1>1, <2>1, DoubledStays DEF OnceInv
    <2>2. ASSUME NEW j \in Slots, slot'[j].step = "reconcile"
          PROVE  reconciled'[Payout(j)'] = 0 \/ Doubled(Payout(j))'
      <3> DEFINE p == Payout(j)
      <3>1. Payout(j)' = p /\ (Handle(j) \/ slot'[j] = slot[j])
        BY <2>2, SlotCases
      <3>2. reconciled[p] = 0 \/ Doubled(p)
        BY <2>2, <3>1, ReconcileFound DEF OnceInv
      <3>3. ASSUME NEW q, q = p PROVE reconciled'[q] = 0 \/ Doubled(q)'
        <4> HIDE DEF p
        <4> QED BY <1>1, <3>2, <3>3, DoubledStays
      <3> QED BY <3>1, <3>3 DEF Doubled
    <2> QED BY <2>1, <2>2 DEF OnceInv
  <1>2. CASE ~UNCHANGED reconciled
    <2>1. PICK k \in Slots : Reconcile(k)
      BY <1>2, ReconciledBy
    <2>2. /\ slot[k].step = "reconcile" /\ Handle(k) /\ Returns(k)
          /\ reconciled' = [reconciled EXCEPT ![Payout(k)] = @ + 1]
      BY <2>1 DEF Reconcile, At, Handle
    <2>3. slot'[k].step = "persist" /\ Others(k)
      BY <2>2, HandleType, ContinueStep DEF GoesTo, Returns
    <2>4. reconciled \in [Payments -> Nat] /\ Payout(k) \in Payments
      BY <2>2, <1>r, ReconcilesEvent DEF TypeInv, LedgerTypes
    <2>5. /\ reconciled'[Payout(k)] = reconciled[Payout(k)] + 1
          /\ \A p \in Payments \ {Payout(k)} : reconciled'[p] = reconciled[p]
      BY <2>2, <2>4
    <2>6. ASSUME NEW p \in Payments PROVE reconciled'[p] <= 1 \/ Doubled(p)'
      <3>1. CASE p = Payout(k)
        <4>1. reconciled[p] = 0 \/ Doubled(p)
          BY <3>1, <2>2 DEF OnceInv
        <4>2. reconciled[p] = 0 => reconciled'[p] <= 1
          BY <3>1, <2>5, SMT
        <4> QED BY <4>1, <4>2, DoubledStays
      <3>2. CASE p # Payout(k)
        BY <3>2, <2>5, DoubledStays DEF OnceInv
      <3> QED BY <3>1, <3>2
    <2>7. ASSUME NEW j \in Slots, slot'[j].step = "reconcile"
          PROVE  reconciled'[Payout(j)'] = 0 \/ Doubled(Payout(j))'
      <3>1. j # k /\ slot'[j] = slot[j] /\ Payout(j)' = Payout(j)
        BY <2>3, <2>7, SlotCases DEF Others
      <3>2. reconciled[Payout(j)] = 0 \/ Doubled(Payout(j))
        BY <2>7, <3>1 DEF OnceInv
      <3>3. Payout(j) \in Payments
        BY <2>7, <3>1, <1>r, ReconcilesEvent
      <3>4. CASE Payout(j) = Payout(k)
        <4>1. /\ slot[j].seq \in 1..Len(log) /\ log[slot[j].seq] = Event("broadcast", Payout(j))
              /\ slot[k].seq \in 1..Len(log) /\ log[slot[k].seq] = Event("broadcast", Payout(k))
              /\ log[slot[k].seq].type = "broadcast"
          BY <2>2, <2>7, <3>1, <1>r, ReconcilesEvent
        <4>2. slot[j].seq = slot[k].seq /\ slot[j].seq # 0
          BY <4>1, <3>4, SMT DEF BroadcastInv
        <4>3. slot[j].seq \in doubled
          BY <4>2, <3>1 DEF CoveredInv
        <4>4. Doubled(Payout(j))
          BY <4>1, <4>3 DEF Doubled
        <4>5. ASSUME NEW q, q = Payout(j) PROVE Doubled(q)'
          BY <4>4, <4>5, DoubledStays
        <4> QED BY <4>5, <3>1 DEF Doubled
      <3>5. CASE Payout(j) # Payout(k)
        <4>1. ASSUME NEW q, q = Payout(j) PROVE reconciled'[q] = 0 \/ Doubled(q)'
          BY <4>1, <3>2, <3>3, <3>5, <2>5, DoubledStays
        <4> QED BY <4>1, <3>1 DEF Doubled
      <3> QED BY <3>4, <3>5
    <2> QED BY <2>6, <2>7 DEF OnceInv
  <1> QED BY <1>1, <1>2

-----------------------------------------------------------------------------
(***************************************************************************)
(* What is persisted shows in the ledger.                                  *)
(***************************************************************************)
\* No event of the payout, up to this one, was overtaken.
InOrder(i) == \A j \in 1..i : log[j].of = log[i].of => j \notin overtaken

ShowsAlways(e) ==
    /\ e.of \in Rebalances /\ e.type = "broadcast" => coldTransfers[e.of] > 0
    /\ e.of \in Payments =>
        /\ e.type = "submitted" => e.of \in payoutId
        /\ e.type = "cancelled" => e.of \in voided
ShowsInOrder(e) ==
    e.of \in Payments =>
        /\ e.type = "broadcast" => e.of \in txId /\ (e.of \in FeeDiffers => reconciled[e.of] >= 1)
        /\ e.type = "settled" => /\ e.of \notin pending
                                 /\ e.of \notin pendingFee \/ e.of \in voided
Shows(i) == ShowsAlways(log[i]) /\ (InOrder(i) => ShowsInOrder(log[i]))

\* What waits to be persisted shows too, and a fee is corrected after the hash is known.
ShowInv ==
    /\ \A i \in persisted : Shows(i)
    /\ \A k \in Slots, i \in 1..Len(log) : slot[k].step = "persist" /\ slot[k].seq = i => Shows(i)
    /\ \A k \in Slots : slot[k].step \in Steps => Payout(k) \in txId

\* A fee that is corrected although the payout was settled in order is that of a payment
\* that was given back.
Delivered(i) == i \in persisted \/ IsHandled(i)
LateInv ==
    \A k \in Slots, i \in 1..Len(log) :
        slot[k].step = "reconcile" /\ Delivered(i) /\ InOrder(i)
            /\ log[i].type = "settled" /\ log[i].of = Payout(k) => Payout(k) \in voided

\* What was in order until now was so before, and so was all that came before it.
LEMMA OrderBefore ==
    ASSUME TypeInv, [Next]_vars, NEW i \in 1..Len(log), InOrder(i)'
    PROVE  InOrder(i)
  <1>1. overtaken \subseteq overtaken' /\ LogGrows /\ Len(log) \in Nat
    BY TypeNext, OverlapsGrow, SMT DEF TypeInv, StreamInv
  <1>2. \A j \in 1..i : j \in 1..Len(log)
    BY <1>1, SMT
  <1> QED BY <1>1, <1>2 DEF InOrder, LogGrows

\* An event of the same payout that was told before one in order is persisted, and shows.
LEMMA ToldInOrder ==
    ASSUME TypeInv, CoveredInv, ShowInv, NEW i \in 1..Len(log), Delivered(i), InOrder(i),
           NEW type, NEW p, log[i].of = p, Told(type, p, i - 1)
    PROVE  ShowsAlways(Event(type, p)) /\ ShowsInOrder(Event(type, p))
  <1>1. 1..(i - 1) \subseteq Past
    BY DEF Delivered, IsHandled, CoveredInv
  <1>2. PICK j \in 1..(i - 1) : log[j] = Event(type, p)
    BY DEF Told
  <1>3. log[j].of = p /\ j \in 1..i /\ 1..j \subseteq 1..i
    BY <1>2, SMT DEF Event
  <1>4. j \in persisted /\ InOrder(j)
    BY <1>1, <1>3 DEF InOrder, Past
  <1> QED BY <1>2, <1>4 DEF ShowInv, Shows

\* An event is delivered before it is persisted.
LEMMA DeliveredBy ==
    ASSUME TypeInv, [Next]_vars, NEW i \in 1..Len(log'), Delivered(i)'
    PROVE  (i \in 1..Len(log) /\ Delivered(i)) \/ \E k \in Slots : Deliver(k) /\ i = sent + 1
  <1>t. /\ slot \in [Slots -> SlotStates(Steps)] /\ persisted \subseteq 1..Len(log) /\ sent \in Nat
        /\ \A k \in Slots : slot[k].seq \in 0..Len(log)
    BY SMT DEF TypeInv, StreamInv, StreamTypeOK
  <1>0. i # 0
    BY SMT
  <1>d. Delivered(i) => i \in 1..Len(log)
    BY <1>t, <1>0, SMT DEF Delivered, IsHandled
  <1>u. ASSUME UNCHANGED persisted, \A j \in Slots : slot'[j].seq \in {slot[j].seq, 0}
        PROVE  Delivered(i)
    BY <1>u, <1>0 DEF Delivered, IsHandled
  <1>h. ASSUME NEW k \in Slots, HandlerGoes(k, Steps) \/ Retry(k) PROVE Delivered(i)
    BY <1>h, <1>t, <1>u, StepSlot, DoneSlot DEF HandlerGoes, Retry
  <1>p. ASSUME NEW k \in Slots, Persist(k) PROVE Delivered(i)
    <2>1. persisted' = persisted \cup {slot[k].seq} /\ slot'[k].seq = 0
          /\ \A j \in Slots \ {k} : slot'[j] = slot[j]
      BY <1>p, <1>t, DoneSlot DEF Persist
    <2> QED BY <2>1, <1>0 DEF Delivered, IsHandled
  <1>v. ASSUME NEW k \in Slots, Deliver(k) PROVE Delivered(i) \/ i = sent + 1
    <2>1. UNCHANGED persisted /\ slot'[k].seq = sent + 1 /\ \A j \in Slots \ {k} : slot'[j] = slot[j]
      BY <1>v, <1>t, DeliverSlot DEF Deliver
    <2> QED BY <2>1 DEF Delivered, IsHandled
  <1>c. CASE Crash
    BY <1>c, <1>u, <1>d, CrashSlots DEF Crash
  <1>s. UNCHANGED <<slot, persisted>> => Delivered(i)
    BY <1>u
  <1>m. StreamMove(Events, Steps)
    BY TypeNext
  <1> QED BY <1>d, <1>h, <1>p, <1>v, <1>c, <1>s, <1>m DEF StreamMove, StreamFails, Refresh, Connect

LEMMA LateNext ==
    ASSUME TypeInv, CoveredInv, LogInv, BroadcastInv, ShowInv, LateInv, [Next]_vars
    PROVE  LateInv'
  <1> SUFFICES ASSUME NEW k \in Slots, NEW i \in 1..Len(log'), slot'[k].step = "reconcile",
                      Delivered(i)', InOrder(i)', log'[i].type = "settled",
                      log'[i].of = Payout(k)'
               PROVE  Payout(k)' \in voided'
    BY DEF LateInv
  <1> DEFINE p == Payout(k)
  <1>r. "reconcile" \in Steps /\ "checkReconciled" \in Steps
    BY DEF Steps
  <1>g. LedgerGrows /\ LogGrows /\ Len(log) \in Nat /\ sent \in Nat
    BY TypeNext, SMT DEF TypeInv, StreamInv, StreamTypeOK
  <1>1. Payout(k)' = p /\ (Handle(k) \/ slot'[k] = slot[k])
    BY SlotCases
  <1>2. slot[k].step \in Steps
    BY <1>1, <1>r, ReconcileFound
  <1>3. /\ slot[k].seq \in 1..Len(log) /\ log[slot[k].seq] = Event("broadcast", p)
        /\ log[slot[k].seq].type = "broadcast" /\ log[slot[k].seq].of = p
        /\ p \in Payments /\ FeeMayDiffer(p)
    BY <1>2, ReconcilesEvent
  <1>4. i \in 1..Len(log)
    <2>1. ASSUME NEW j \in Slots, Deliver(j), i = sent + 1 PROVE i \in 1..Len(log)
      BY <2>1, <1>g, SMT DEF Deliver
    <2> QED BY <2>1, DeliveredBy
  <1>5. log[i].type = "settled" /\ log[i].of = p /\ InOrder(i)
    BY <1>1, <1>4, <1>g, OrderBefore DEF LogGrows
  <1>6. Told("broadcast", p, i - 1)
    BY <1>4, <1>5 DEF LogInv, EventInOrder
  <1>7. CASE Delivered(i) /\ slot'[k] = slot[k]
    BY <1>7, <1>1, <1>4, <1>5, <1>g DEF LateInv, LedgerGrows
  <1>8. CASE Delivered(i) /\ Handle(k)
    <2>1. reconciled[p] = 0
      BY <1>8, ReconcileFound
    <2>2. ShowsInOrder(Event("broadcast", p))
      BY <1>8, <1>4, <1>5, <1>6, ToldInOrder
    <2>3. p \in FeeDiffers => reconciled[p] >= 1
      BY <2>2, <1>3, SMT DEF ShowsInOrder, Event
    <2>4. p \in voided
      BY <2>1, <2>3, <1>3, SMT DEF FeeMayDiffer
    <2> QED BY <2>4, <1>1, <1>g DEF LedgerGrows
  <1>9. ASSUME NEW j \in Slots, Deliver(j), i = sent + 1 PROVE FALSE
    <2>1. PICK m \in 1..(i - 1) : log[m] = Event("broadcast", p)
      BY <1>6 DEF Told
    <2>2. m \in 1..sent /\ m \in 1..Len(log) /\ m \in 1..i
      BY <1>9, <1>4, <1>g, <2>1, SMT
    <2>3. m = slot[k].seq
      BY <1>3, <2>1, <2>2 DEF BroadcastInv
    <2>4. m \in overtaken'
      BY <1>9, <2>2, <2>3 DEF Deliver, HandledOf, IsHandled
    <2>5. log'[m].of = log'[i].of
      BY <1>3, <1>4, <1>5, <2>2, <2>3, <1>g DEF LogGrows
    <2> QED BY <2>2, <2>4, <2>5 DEF InOrder
  <1> QED BY <1>1, <1>7, <1>8, <1>9, DeliveredBy

\* A payment does not become pending again; a correction that does is made by a handler.
LEMMA PendingBy ==
    ASSUME TypeInv, LogInv, [Next]_vars, NEW i \in 1..Len(log), log[i].of \in Payments
    PROVE  /\ log[i].of \notin pending => log[i].of \notin pending'
           /\ pendingFee' \subseteq pendingFee \/ \E k \in Slots : Reconcile(k)
  <1> USE DEF ledgerVars
  <1>1. ASSUME NEW p \in Payments, PayOnChain(p) \/ Request(p)
        PROVE  UNCHANGED pendingFee /\ (log[i].of \notin pending => log[i].of \notin pending')
    <2>1. /\ UNCHANGED pendingFee
          /\ pending' \subseteq pending \/ (pc[p] = "record" /\ pending' = pending \cup {p})
      BY <1>1, RequestStep DEF RequestWrites
    <2>2. pc[log[i].of] # "record"
      BY DEF LogInv, EventInOrder
    <2> QED BY <2>1, <2>2
  <1>2. CASE (\E p \in Payouts, type \in EventTypes : BriaMoves(p, type)) \/ Elsewhere
    BY <1>2, BriaType, ElsewhereType
  <1>3. ASSUME NEW k \in Slots, Handle(k)
        PROVE  pending' \subseteq pending /\ (pendingFee' \subseteq pendingFee \/ Reconcile(k))
    BY <1>3 DEF Handle, PayoutSubmitted, PayoutCancelled, PayoutBroadcast, CheckReconciled,
       Reconcile, ColdBroadcast, PayoutSettled
  <1> QED BY <1>1, <1>2, <1>3, NextCases

LEMMA PendingFeeBy ==
    ASSUME TypeInv, LogInv, LateInv, [Next]_vars, NEW i \in 1..Len(log), Delivered(i), InOrder(i),
           log[i].of \in Payments, log[i].type = "settled", log[i].of \in pendingFee'
    PROVE  log[i].of \in pendingFee \cup voided
  <1>1. ASSUME NEW k \in Slots, Reconcile(k) PROVE log[i].of \in pendingFee \cup voided
    <2>1. slot[k].step = "reconcile" /\ pendingFee' = pendingFee \cup {Payout(k)}
      BY <1>1 DEF Reconcile, At
    <2> QED BY <2>1 DEF LateInv
  <1> QED BY <1>1, PendingBy

\* What an event shows in the ledger stays there.
LEMMA ShowsStays ==
    ASSUME TypeInv, LogInv, LateInv, [Next]_vars, NEW i \in 1..Len(log), Delivered(i), Shows(i)
    PROVE  Shows(i)'
  <1>1. LedgerMonotone /\ log'[i] = log[i]
    BY LedgerStep, TypeNext DEF LogGrows
  <1>2. ASSUME NEW e, e = log[i] PROVE ShowsAlways(e)'
    BY <1>1, <1>2 DEF Shows, ShowsAlways, LedgerMonotone, LedgerGrows
  <1>3. ASSUME InOrder(i)', NEW e, e = log[i] PROVE ShowsInOrder(e)'
    <2>1. InOrder(i) /\ ShowsInOrder(e)
      BY <1>3, OrderBefore DEF Shows
    <2>2. ASSUME e.of \in Payments, e.type = "settled"
          PROVE  e.of \notin pending' /\ (e.of \in pendingFee' => e.of \in voided')
      BY <1>1, <1>3, <2>1, <2>2, PendingBy, PendingFeeBy DEF ShowsInOrder, LedgerMonotone, LedgerGrows
    <2>3. ASSUME e.of \in Payments, e.type = "broadcast"
          PROVE  e.of \in txId' /\ (e.of \in FeeDiffers => reconciled'[e.of] >= 1)
      BY <1>1, <2>1, <2>3 DEF ShowsInOrder, LedgerMonotone
    <2> QED BY <2>2, <2>3 DEF ShowsInOrder
  <1> QED BY <1>1, <1>2, <1>3 DEF Shows, ShowsAlways, ShowsInOrder

\* What the handler of an event knows of it and of the ledger.
Knows(k, e) ==
    /\ LedgerTypes /\ EventOf(k) = e /\ Payout(k) = e.of
    /\ e.of \in Payments => e.of \notin Rebalances /\ e.of \in recorded
    /\ e.of \notin Payments => e.of \in Rebalances
    /\ slot[k].step \in Steps => e.type = "broadcast" /\ e.of \in txId /\ e.of \in Payments
Known(e) == e.of \in Payments /\ e.type # "submitted" => e.of \in payoutId

LEMMA HandlerKnows ==
    ASSUME TypeInv, CoveredInv, LogInv, ShowInv, NEW k \in Slots, slot[k].step # "idle"
    PROVE  /\ Knows(k, EventOf(k)) /\ slot[k].seq \in 1..Len(log)
           /\ InOrder(slot[k].seq) => Known(EventOf(k))
  <1>1. /\ slot[k].seq \in 1..Len(log) /\ Payout(k) \in Payouts /\ Payout(k) = EventOf(k).of
        /\ EventOf(k) = log[slot[k].seq]
    BY TakenEvent DEF Payout, EventOf
  <1>2. /\ Payout(k) \in Payments => Payout(k) \notin Rebalances
        /\ Payout(k) \notin Payments => Payout(k) \in Rebalances
    BY <1>1, SendAssumption DEF Payouts
  <1>3. EventInOrder(slot[k].seq)
    BY <1>1 DEF LogInv
  <1>4. LedgerTypes /\ (slot[k].step \in Steps => Payout(k) \in txId /\ EventOf(k).type = "broadcast")
    BY DEF ShowInv, TypeInv, StepsInv, Reconciles
  <1>5. Knows(k, EventOf(k))
    BY <1>1, <1>2, <1>3, <1>4 DEF Knows, EventInOrder, LedgerTypes
  <1>6. ASSUME InOrder(slot[k].seq), EventOf(k).of \in Payments, EventOf(k).type # "submitted"
        PROVE  EventOf(k).of \in payoutId
    <2>1. Told("submitted", EventOf(k).of, slot[k].seq - 1)
      BY <1>1, <1>3, <1>6 DEF EventInOrder
    <2>2. Delivered(slot[k].seq)
      BY DEF Delivered, IsHandled
    <2>3. ShowsAlways(Event("submitted", EventOf(k).of))
      BY <1>1, <1>6, <2>1, <2>2, ToldInOrder
    <2> QED BY <1>6, <2>3, SMT DEF ShowsAlways, Event
  <1> QED BY <1>1, <1>5, <1>6 DEF Known

\* How a handler leaves the event: to be handled again, at another step, or to be persisted.
Leaves(k, e) ==
    \/ Retry(k)
    \/ Continue(k, "checkReconciled") /\ e.of \in txId'
    \/ Continue(k, "reconcile") /\ e.of \in txId'
    \/ Returns(k) /\ ShowsAlways(e)' /\ (Known(e) => ShowsInOrder(e)')

LEMMA SubmittedLeaves ==
    ASSUME NEW k, NEW e, Knows(k, e), PayoutSubmitted(k)
    PROVE  Leaves(k, e)
  BY DEF PayoutSubmitted, Handling, Knows, Leaves, ShowsAlways, ShowsInOrder

LEMMA CancelledLeaves ==
    ASSUME NEW k, NEW e, Knows(k, e), PayoutCancelled(k)
    PROVE  Leaves(k, e)
  <1>1. /\ e.type = "cancelled"
        /\ Retry(k) \/ (Returns(k) /\ (e.of \in recorded => e.of \in voided'))
    BY DEF PayoutCancelled, Handling, Void, Knows
  <1> QED BY <1>1 DEF Knows, Leaves, ShowsAlways, ShowsInOrder

LEMMA BroadcastLeaves ==
    ASSUME NEW k, NEW e, Knows(k, e), PayoutBroadcast(k)
    PROVE  Leaves(k, e)
  <1>1. /\ e.type = "broadcast" /\ e.of \in Payments /\ e.of \notin Rebalances
        /\ txId' = txId \cup ({e.of} \cap payoutId)
        /\ \/ e.of \in payoutId /\ Continue(k, "checkReconciled")
           \/ ~(e.of \in payoutId \cap FeeDiffers) /\ Returns(k)
    BY DEF PayoutBroadcast, Handling, Knows
  <1> QED BY <1>1 DEF Leaves, ShowsAlways, ShowsInOrder, Known

LEMMA CheckReconciledLeaves ==
    ASSUME NEW k, NEW e, Knows(k, e), CheckReconciled(k)
    PROVE  Leaves(k, e)
  <1>1. /\ UNCHANGED <<txId, reconciled>> /\ slot[k].step = "checkReconciled"
        /\ Continue(k, IF reconciled[Payout(k)] > 0 THEN "persist" ELSE "reconcile")
    BY DEF CheckReconciled, At, ledgerVars
  <1>2. /\ e.type = "broadcast" /\ e.of \in txId' /\ e.of \in Payments /\ e.of \notin Rebalances
        /\ Payout(k) = e.of /\ reconciled[e.of] \in Nat
    BY <1>1 DEF Knows, Steps, LedgerTypes
  <1>3. CASE reconciled[e.of] > 0
    <2>1. reconciled'[e.of] >= 1
      BY <1>1, <1>2, <1>3, SMT
    <2> QED BY <1>1, <1>2, <1>3, <2>1 DEF Leaves, Returns, ShowsAlways, ShowsInOrder
  <1>4. CASE ~(reconciled[e.of] > 0)
    BY <1>1, <1>2, <1>4 DEF Leaves
  <1> QED BY <1>3, <1>4

LEMMA ReconcileLeaves ==
    ASSUME NEW k, NEW e, Knows(k, e), Reconcile(k)
    PROVE  Leaves(k, e)
  <1>1. /\ UNCHANGED txId /\ slot[k].step = "reconcile" /\ Returns(k)
        /\ reconciled' = [reconciled EXCEPT ![Payout(k)] = @ + 1]
    BY DEF Reconcile, At
  <1>2. /\ e.type = "broadcast" /\ e.of \in txId' /\ e.of \in Payments /\ e.of \notin Rebalances
        /\ Payout(k) = e.of /\ reconciled \in [Payments -> Nat]
    BY <1>1 DEF Knows, Steps, LedgerTypes
  <1>3. reconciled'[e.of] >= 1
    BY <1>1, <1>2, SMT
  <1> QED BY <1>1, <1>2, <1>3 DEF Leaves, ShowsAlways, ShowsInOrder

LEMMA ColdLeaves ==
    ASSUME NEW k, NEW e, Knows(k, e), ColdBroadcast(k)
    PROVE  Leaves(k, e)
  <1>1. /\ Returns(k) /\ Payout(k) \in Rebalances
        /\ coldTransfers' = [coldTransfers EXCEPT ![Payout(k)] = @ + 1]
    BY DEF ColdBroadcast
  <1>2. /\ coldTransfers \in [Rebalances -> Nat] /\ e.of \in Rebalances /\ e.of \notin Payments
        /\ Payout(k) = e.of
    BY <1>1 DEF Knows, LedgerTypes
  <1>3. coldTransfers'[e.of] > 0
    BY <1>1, <1>2, SMT
  <1> QED BY <1>1, <1>2, <1>3 DEF Leaves, ShowsAlways, ShowsInOrder

LEMMA SettledLeaves ==
    ASSUME NEW k, NEW e, Knows(k, e), PayoutSettled(k)
    PROVE  Leaves(k, e)
  <1>1. /\ Retry(k) \/ Returns(k)
        /\ e.type = "settled"
        /\ pending' = pending \ ({e.of} \cap payoutId)
        /\ pendingFee' = pendingFee \ ({e.of} \cap payoutId)
    BY DEF PayoutSettled, Handling, Knows
  <1> QED BY <1>1 DEF Leaves, ShowsAlways, ShowsInOrder, Known

LEMMA HandlerShows ==
    ASSUME TypeInv, CoveredInv, LogInv, ShowInv, [Next]_vars, NEW k \in Slots, Handle(k)
    PROVE  /\ \A i : slot'[k].step = "persist" /\ slot[k].seq = i => Shows(i)'
           /\ slot'[k].step \in Steps => EventOf(k).of \in txId'
  <1> DEFINE i == slot[k].seq
  <1>1. slot[k].step # "idle" /\ UNCHANGED <<log, faults>> /\ faults \in 0..MaxFaults
    BY HandleType DEF TypeInv, StreamInv, StreamTypeOK
  <1>2. Knows(k, log[i]) /\ i \in 1..Len(log) /\ (InOrder(i) => Known(log[i])) /\ EventOf(k) = log[i]
    BY <1>1, HandlerKnows DEF EventOf
  <1>3. ASSUME NEW e, e = log[i] PROVE Leaves(k, e)
    BY <1>2, <1>3, SubmittedLeaves, CancelledLeaves, BroadcastLeaves, CheckReconciledLeaves,
       ReconcileLeaves, ColdLeaves, SettledLeaves DEF Handle
  <1>4. ASSUME NEW step \in Steps \cup {"persist"}, Continue(k, step) PROVE slot'[k].step = step
    BY <1>1, <1>4, ContinueStep DEF GoesTo
  <1>5. Retry(k) => slot'[k].step = "idle"
    BY <1>1, RetryStep DEF Ends
  <1>6. ASSUME NEW e, e = log[i]
        PROVE  /\ slot'[k].step \in Steps => e.of \in txId'
               /\ slot'[k].step = "persist" => ShowsAlways(e)' /\ (InOrder(i) => ShowsInOrder(e)')
    BY <1>2, <1>3, <1>4, <1>5, <1>6, StepNames DEF Leaves, Returns, Steps
  <1>7. ASSUME slot'[k].step = "persist", NEW n, n = i PROVE Shows(n)'
    <2>1. InOrder(n)' => InOrder(n)
      BY <1>2, <1>7, OrderBefore
    <2>2. log'[n] = log[i]
      BY <1>1, <1>7
    <2>3. \A e : e = log[i] => ShowsAlways(e)' /\ (InOrder(n) => ShowsInOrder(e)')
      BY <1>6, <1>7
    <2> QED BY <2>1, <2>2, <2>3 DEF Shows, ShowsAlways, ShowsInOrder
  <1>8. \A n : n = i /\ slot'[k].step = "persist" => Shows(n)'
    BY <1>7
  <1> QED BY <1>2, <1>6, <1>8

LEMMA PersistedBy ==
    ASSUME TypeInv, [Next]_vars, NEW i \in persisted', i \notin persisted
    PROVE  \E k \in Slots : slot[k].step = "persist" /\ slot[k].seq = i
  BY TypeNext DEF StreamMove, HandlerGoes, Retry, Deliver, Persist, At, StreamFails, Refresh,
     Connect, Crash

LEMMA ShowNext ==
    ASSUME TypeInv, CoveredInv, LogInv, LateInv, ShowInv, [Next]_vars
    PROVE  ShowInv'
  <1>t. persisted \subseteq 1..Len(log) /\ txId \subseteq txId'
    BY LedgerStep DEF TypeInv, StreamInv, StreamTypeOK, LedgerMonotone
  <1>w. ASSUME NEW k \in Slots, NEW i \in 1..Len(log), slot[k].step = "persist", slot[k].seq = i
        PROVE  Shows(i)'
    BY <1>w, ShowsStays DEF ShowInv, Delivered, IsHandled
  <1>1. ASSUME NEW i \in persisted' PROVE Shows(i)'
    <2>1. CASE i \in persisted
      BY <2>1, <1>t, ShowsStays DEF ShowInv, Delivered
    <2>2. CASE i \notin persisted
      <3>1. PICK k \in Slots : slot[k].step = "persist" /\ slot[k].seq = i
        BY <1>1, <2>2, PersistedBy
      <3>2. i \in 1..Len(log)
        BY <3>1, TakenEvent
      <3> QED BY <3>1, <3>2, <1>w
    <2> QED BY <2>1, <2>2
  <1>2. ASSUME NEW k \in Slots, NEW i, slot'[k].step = "persist", slot'[k].seq = i
        PROVE  Shows(i)'
    <2>1. (Handle(k) \/ slot'[k] = slot[k]) /\ slot[k].seq = i /\ i \in 1..Len(log)
      BY <1>2, SlotCases
    <2> QED BY <1>2, <2>1, <1>w, HandlerShows
  <1>3. ASSUME NEW k \in Slots, slot'[k].step \in Steps PROVE Payout(k)' \in txId'
    <2>1. (Handle(k) \/ slot'[k] = slot[k]) /\ Payout(k)' = Payout(k)
      BY <1>3, StepNames, SlotCases
    <2>2. CASE Handle(k)
      BY <1>3, <2>1, <2>2, HandlerShows DEF Payout
    <2>3. CASE slot'[k] = slot[k]
      BY <1>3, <2>1, <2>3, <1>t DEF ShowInv
    <2> QED BY <2>1, <2>2, <2>3
  <1> QED BY <1>1, <1>2, <1>3 DEF ShowInv

\* The ledger shows every event that was persisted, with any number of handlers at the same
\* time: although events are handled again after errors, restarts and a failed read of the
\* last sequence, a payout whose events were not overtaken is found by its id, its fee is
\* corrected, once unless the broadcast arrived again while it was handled, and what was
\* settled does not become pending again.
THEOREM LedgerFollows == Spec => []LedgerFollowsBria
  <1> DEFINE Inv == /\ TypeInv /\ CoveredInv /\ LogInv /\ BroadcastInv
                    /\ OnceInv /\ LateInv /\ ShowInv
  <1>1. Init => Inv
    <2> SUFFICES ASSUME Init PROVE LogInv /\ BroadcastInv /\ OnceInv /\ LateInv /\ ShowInv
      BY TypeInit, CoveredInit DEF Init
    <2>1. \A k \in Slots : slot[k].step = "idle"
      BY DEF Init, StreamInit, Free
    <2>2. log = <<>> /\ persisted = {} /\ bria = [p \in Payouts |-> "none"] /\ 1..Len(log) = {}
      BY SMT DEF Init, StreamInit
    <2>3. reconciled = [p \in Payments |-> 0]
      BY DEF Init
    <2>4. LogInv
      BY <2>2, SMT DEF LogInv
    <2>5. OnceInv
      BY <2>1, <2>3, SMT DEF OnceInv
    <2> QED BY <2>1, <2>2, <2>4, <2>5, StepNames DEF BroadcastInv, LateInv, ShowInv
  <1>2. Inv /\ [Next]_vars => Inv'
    BY TypeNext, CoveredNext, LogNext, BroadcastNext, OnceNext, LateNext, ShowNext DEF TypeInv
  <1>3. Inv => LedgerFollowsBria
    <2> SUFFICES ASSUME Inv, NEW i \in persisted PROVE LedgerFollowsBria!(i)
      BY DEF LedgerFollowsBria
    <2>1. Shows(i) /\ i \in 1..Len(log) /\ log[i] \in Events
      BY SMT DEF ShowInv, TypeInv, StreamInv, StreamTypeOK
    <2>2. ASSUME log[i].of \in Payments, log[i].type = "broadcast"
          PROVE  reconciled[log[i].of] <= 1 \/ i \in doubled
      <3>1. CASE Doubled(log[i].of)
        <4>1. PICK n \in doubled : log[n] = Event("broadcast", log[i].of)
          BY <3>1 DEF Doubled
        <4>2. log[i] = Event("broadcast", log[i].of)
          BY <2>1, <2>2 DEF Events, Event
        <4>3. n \in 1..Len(log)
          BY DEF TypeInv, StreamInv, StreamTypeOK
        <4> QED BY <2>1, <2>2, <4>1, <4>2, <4>3 DEF BroadcastInv
      <3> QED BY <2>2, <3>1 DEF OnceInv
    <2> QED BY <2>1, <2>2 DEF Shows, ShowsAlways, ShowsInOrder, InOrder
  <1> QED BY <1>1, <1>2, <1>3, PTL DEF Spec

==============================================================================
