------------------------- MODULE OnChainReceiveProofs -------------------------
(***************************************************************************)
(* Proofs about OnChainReceive, for any number of handlers at the same     *)
(* time: the types, the events that are not skipped, the addresses that    *)
(* are not added twice, one credit per output and a new address for a paid *)
(* one.                                                                    *)
(***************************************************************************)
EXTENDS OnChainReceive, BriaStreamProofs

\* Most leaves are first-order steps: Zenon is tried first, unless a leaf cites SMT.
USE Zenon, SMT

-----------------------------------------------------------------------------
(***************************************************************************)
(* The types of the variables, and what is handled at each step.           *)
(***************************************************************************)
EventTypes == {"detected", "dropped", "settled"}
Events == [type : EventTypes, of : Utxos]
PendingSteps == {"checkPending", "persistPending"}
CreditSteps == {"checkRecorded", "readAddress", "record"}
AddressSteps == {"findAddress", "newAddress", "isRecorded", "persistAddress"}
LockedSteps == PendingSteps \cup CreditSteps
Steps == LockedSteps \cup {"remove"} \cup AddressSteps

Owners == Slots \cup {None, Expiring}
UtxoStates == {"none", "detected", "dropped", "settled"}

TypeOK ==
    /\ lock \in [Utxos -> Owners]
    /\ request \in [Slots -> BOOLEAN]
    /\ receipts \in [Utxos -> Nat] /\ requested \subseteq Utxos /\ unread \subseteq Utxos
    /\ pendingReceives \subseteq Utxos
    /\ briaAddresses \subseteq Utxos
    /\ addresses \in Seq(Utxos \cup {First, Own})
    /\ utxo \in [Utxos -> UtxoStates]

\* A handler is at a step of the event that it handles, and Bria has settled the outputs
\* it has told to be settled.
StepsInv ==
    /\ \A k \in Slots :
        /\ slot[k].step \in PendingSteps => Handling(k, "detected")
        /\ slot[k].step \in CreditSteps \cup {"remove"} \cup AddressSteps => Handling(k, "settled")
    /\ \A i \in 1..Len(log) : log[i].type = "settled" => utxo[log[i].of] = "settled"

TypeInv == StreamInv(Events, Steps) /\ TypeOK /\ StepsInv

LEMMA StepNames ==
    /\ \A step \in Steps \cup {"handle", "persist"} : step \in StepsOf(Steps) \ {"idle"}
    /\ "persist" \notin Steps /\ "handle" \notin Steps /\ "idle" \notin Steps
  BY DEF Steps, StepsOf, LockedSteps, PendingSteps, CreditSteps, AddressSteps

\* A handler that is not idle handles an event of an output.
LEMMA TakenEvent ==
    ASSUME TypeInv, NEW k \in Slots, slot[k].step # "idle"
    PROVE  /\ slot[k] # Free /\ slot[k].seq \in 1..Len(log)
           /\ EventOf(k) \in Events /\ Utxo(k) \in Utxos /\ EventOf(k).type \in EventTypes
           /\ EventOf(k) = [type |-> EventOf(k).type, of |-> Utxo(k)]
  <1>1. EventOf(k) \in Events /\ slot[k] # Free /\ slot[k].seq \in 1..Len(log)
    BY TakenSlot DEF TypeInv
  <1> QED BY <1>1 DEF Utxo, Events

\* The ways in which a handler moves: it goes on, or it ends, and no other one does.
Goes1(k, step) ==
    /\ UNCHANGED <<log, persisted, connection>>
    /\ slot'[k].step = step /\ slot'[k].seq = slot[k].seq
Ends(k) == UNCHANGED <<log, persisted>> /\ slot'[k] = Free /\ slot'[k].step = "idle"
Others(k) == \A j \in Slots \ {k} : slot'[j] = slot[j]

LEMMA ContinueStep ==
    ASSUME TypeInv, NEW k \in Slots, slot[k].step # "idle",
           NEW step \in Steps \cup {"persist"}, Continue(k, step)
    PROVE  Goes1(k, step) /\ Others(k) /\ StreamMove(Events, Steps)
  <1>1. slot[k] # Free /\ slot \in [Slots -> SlotStates(Steps)] /\ faults \in 0..MaxFaults
    BY TakenSlot DEF TypeInv, StreamInv, StreamTypeOK
  <1>2. step \in StepsOf(Steps) \ {"idle"}
    BY StepNames
  <1>3. Step(k, step) /\ UNCHANGED <<log, persisted, connection, faults>>
    BY DEF Continue
  <1>4. Goes1(k, step) /\ Others(k)
    BY <1>1, <1>2, <1>3, StepSlot DEF Goes1, Others
  <1>5. HandlerGoes(k, Steps)
    BY <1>1, <1>2, <1>3 DEF HandlerGoes
  <1> QED BY <1>1, <1>3, <1>4, <1>5 DEF StreamMove

LEMMA RetryStep ==
    ASSUME TypeInv, NEW k \in Slots, slot[k].step # "idle", faults' \in 0..MaxFaults, Retry(k)
    PROVE  Ends(k) /\ Others(k) /\ StreamMove(Events, Steps)
  <1>1. slot[k] # Free /\ slot \in [Slots -> SlotStates(Steps)]
    BY TakenSlot DEF TypeInv, StreamInv
  <1>2. Ends(k) /\ Others(k)
    BY <1>1, DoneSlot DEF Retry, Ends, Others
  <1> QED BY <1>1, <1>2 DEF StreamMove

LEMMA TypeInit == Init => TypeInv
  <1> SUFFICES ASSUME Init PROVE TypeInv
    OBVIOUS
  <1>1. StreamInv(Events, Steps)
    BY StreamInvInit DEF Init
  <1>2. TypeOK
    BY ReceiveAssumption, SMT DEF Init, TypeOK, Owners, UtxoStates
  <1>3. StepsInv
    BY StepNames, SMT DEF Init, StreamInit, StepsInv, Free, Steps, LockedSteps
  <1> QED BY <1>1, <1>2, <1>3 DEF TypeInv

\* The current address cannot be read: the handler goes on without asking for a new one.
LEMMA ReadAddressFailsStep ==
    ASSUME TypeInv, NEW k \in Slots, ReadAddressFails(k)
    PROVE  /\ slot[k].step = "readAddress"
           /\ UNCHANGED <<utxo, lock, receipts, requested, pendingReceives, addresses>>
           /\ request' = [request EXCEPT ![k] = FALSE] /\ unread' = unread \cup {Utxo(k)}
           /\ Goes1(k, "record") /\ Others(k) /\ StreamMove(Events, Steps) /\ TypeOK'
  <1>1. /\ slot[k].step = "readAddress" /\ Fault("handler")
        /\ UNCHANGED <<utxo, lock, receipts, requested, pendingReceives, addresses, briaAddresses>>
        /\ request' = [request EXCEPT ![k] = FALSE] /\ unread' = unread \cup {Utxo(k)}
        /\ Step(k, "record") /\ UNCHANGED <<log, connection, persisted>>
    BY DEF ReadAddressFails, At, addressVars
  <1>2. /\ TypeOK /\ faults' \in 0..MaxFaults
        /\ slot \in [Slots -> SlotStates(Steps)] /\ slot[k] # Free /\ Utxo(k) \in Utxos
    <2>1. slot[k] # Free /\ Utxo(k) \in Utxos
      BY <1>1, TakenEvent
    <2>2. TypeOK /\ faults \in 0..MaxFaults /\ slot \in [Slots -> SlotStates(Steps)]
      BY DEF TypeInv, StreamInv, StreamTypeOK
    <2> QED BY <1>1, <2>1, <2>2, StreamAssumption, SMT DEF Fault
  <1>3. "record" \in StepsOf(Steps) \ {"idle"}
    BY DEF StepsOf, Steps, LockedSteps, CreditSteps
  <1>4. Goes1(k, "record") /\ Others(k)
    BY <1>1, <1>2, <1>3, StepSlot DEF Goes1, Others
  <1>5. StreamMove(Events, Steps)
    BY <1>1, <1>2, <1>3 DEF HandlerGoes, StreamMove
  <1>6. TypeOK'
    BY <1>1, <1>2 DEF TypeOK
  <1> QED BY <1>1, <1>4, <1>5, <1>6

\* What each action of a handler does to the stream, and that it keeps the types of the rest.
Moves(k) == Handle(k) \/ ReadAddressFails(k)

LEMMA HandleType ==
    ASSUME TypeInv, NEW k \in Slots, Moves(k)
    PROVE  /\ slot[k].step # "idle" /\ UNCHANGED utxo
           /\ Others(k) /\ StreamMove(Events, Steps) /\ TypeOK'
           /\ \/ Ends(k)
              \/ Goes1(k, "persist")
              \/ Handling(k, "detected") /\ \E step \in PendingSteps : Goes1(k, step)
              \/ /\ Handling(k, "settled")
                 /\ \E step \in CreditSteps \cup {"remove"} \cup AddressSteps : Goes1(k, step)
  <1> USE DEF receiptVars, addressVars, receiveVars, At
  <1> DEFINE Goal ==
        /\ slot[k].step # "idle" /\ UNCHANGED utxo
        /\ Others(k) /\ StreamMove(Events, Steps) /\ TypeOK'
        /\ \/ Ends(k)
           \/ Goes1(k, "persist")
           \/ Handling(k, "detected") /\ \E step \in PendingSteps : Goes1(k, step)
           \/ /\ Handling(k, "settled")
              /\ \E step \in CreditSteps \cup {"remove"} \cup AddressSteps : Goes1(k, step)
  <1>t. TypeOK /\ faults \in 0..MaxFaults
    BY DEF TypeInv, StreamInv, StreamTypeOK
  <1>u. slot[k].step # "idle" => Utxo(k) \in Utxos /\ EventOf(k) \in Events
    BY TakenEvent
  <1>k. slot[k].step # "idle" => EventOf(k).type \in {"detected", "dropped", "settled"}
    BY <1>u DEF Events, EventTypes
  <1>p. slot[k].step \in PendingSteps => Handling(k, "detected")
    BY DEF TypeInv, StepsInv
  <1>s. slot[k].step \in CreditSteps \cup {"remove"} \cup AddressSteps => Handling(k, "settled")
    BY DEF TypeInv, StepsInv
  <1>g. ASSUME slot[k].step # "idle", UNCHANGED utxo, TypeOK', Returns(k) PROVE Goal
    BY <1>g, ContinueStep DEF Returns
  <1>d. ASSUME slot[k].step # "idle", UNCHANGED utxo, TypeOK',
               NEW step \in PendingSteps, Handling(k, "detected"), Continue(k, step)
        PROVE  Goal
    BY <1>d, ContinueStep DEF Steps, LockedSteps
  <1>c. ASSUME slot[k].step # "idle", UNCHANGED utxo, TypeOK', Handling(k, "settled"),
               NEW step \in CreditSteps \cup {"remove"} \cup AddressSteps, Continue(k, step)
        PROVE  Goal
    BY <1>c, ContinueStep DEF Steps, LockedSteps
  <1>r. ASSUME slot[k].step # "idle", UNCHANGED <<utxo, faults>>, TypeOK', Retry(k) PROVE Goal
    BY <1>r, <1>t, RetryStep
  <1>l. Release(k) => lock' \in [Utxos -> Owners]
    BY <1>t DEF Release, TypeOK, Owners
  <1> SUFFICES Goal
    OBVIOUS
  <1> HIDE DEF Goal
  <1>1. CASE AcquireLock(k)
    <2>1. TypeOK' /\ UNCHANGED utxo
      BY <1>1, <1>t, <1>u DEF AcquireLock, TypeOK, Owners
    <2> QED BY <1>1, <2>1, <1>k, <1>g, <1>d, <1>c DEF AcquireLock, Handling, PendingSteps, CreditSteps
  <1>2. CASE LockUnavailable(k)
    BY <1>2, <1>t, <1>r DEF LockUnavailable, TypeOK
  <1>3. CASE CheckPending(k)
    <2>1. TypeOK' /\ UNCHANGED utxo
      BY <1>3, <1>t, <1>l DEF CheckPending, TypeOK
    <2> QED BY <1>3, <2>1, <1>p, <1>g, <1>d, <1>c DEF CheckPending, PendingSteps
  <1>4. CASE PersistPending(k)
    <2>1. TypeOK' /\ UNCHANGED utxo
      BY <1>4, <1>t, <1>u, <1>l DEF PersistPending, TypeOK
    <2> QED BY <1>4, <2>1, <1>g, <1>d, <1>c DEF PersistPending
  <1>5. CASE UtxoDropped(k)
    <2>1. TypeOK' /\ UNCHANGED utxo
      BY <1>5, <1>t DEF UtxoDropped, TypeOK
    <2> QED BY <1>5, <2>1, <1>g, <1>d, <1>c DEF UtxoDropped
  <1>6. CASE CheckRecorded(k)
    <2>1. request' \in [Slots -> BOOLEAN]
      <3>1. UNCHANGED request \/ request' = [request EXCEPT ![k] = Utxo(k) \in requested]
        BY <1>6 DEF CheckRecorded
      <3>2. CASE UNCHANGED request
        BY <3>2, <1>t DEF TypeOK
      <3>3. CASE request' = [request EXCEPT ![k] = Utxo(k) \in requested]
        <4> DEFINE b == Utxo(k) \in requested
        <4>1. b \in BOOLEAN
          BY SMT
        <4>2. request' = [request EXCEPT ![k] = b]
          BY <3>3
        <4>3. request \in [Slots -> BOOLEAN]
          BY <1>t DEF TypeOK
        <4> HIDE DEF b
        <4> QED BY <4>1, <4>2, <4>3, Zenon
      <3> QED BY <3>1, <3>2, <3>3
    <2>2. TypeOK' /\ UNCHANGED utxo
      BY <1>6, <2>1, <1>t, <1>l DEF CheckRecorded, TypeOK
    <2> QED BY <1>6, <2>2, <1>s, <1>g, <1>d, <1>c DEF CheckRecorded, CreditSteps
  <1>7. CASE ReadAddress(k)
    <2>1. request' \in [Slots -> BOOLEAN]
      BY <1>7, <1>t, ZenonT(30) DEF ReadAddress, TypeOK
    <2>2. TypeOK' /\ UNCHANGED utxo
      BY <1>7, <2>1, <1>t DEF ReadAddress, TypeOK
    <2> QED BY <1>7, <2>2, <1>s, <1>g, <1>d, <1>c DEF ReadAddress, CreditSteps
  <1>8. CASE Record(k)
    <2>1. slot[k].step = "record"
      BY <1>8 DEF Record
    <2>2. TypeOK' /\ UNCHANGED utxo
      BY <1>8, <2>1, <1>t, <1>u, <1>l, SMT DEF Record, TypeOK
    <2> QED BY <1>8, <2>1, <2>2, <1>s, <1>g, <1>d, <1>c DEF Record, CreditSteps
  <1>9. CASE RemovePending(k)
    <2>1. TypeOK' /\ UNCHANGED utxo
      BY <1>9, <1>t DEF RemovePending, TypeOK
    <2> QED BY <1>9, <2>1, <1>s, <1>g, <1>d, <1>c DEF RemovePending, AddressSteps, Returns
  <1>10. CASE FindAddress(k) \/ IsRecorded(k)
    <2>1. TypeOK' /\ UNCHANGED utxo
      BY <1>10, <1>t DEF FindAddress, IsRecorded, TypeOK
    <2> QED BY <1>10, <2>1, <1>s, <1>g, <1>d, <1>c DEF FindAddress, IsRecorded, AddressSteps, Returns
  <1>11. CASE NewAddress(k)
    <2>1. TypeOK' /\ UNCHANGED utxo
      BY <1>11, <1>t, <1>u DEF NewAddress, TypeOK
    <2> QED BY <1>11, <2>1, <1>s, <1>c, <1>r DEF NewAddress, AddressSteps
  <1>12. CASE PersistAddress(k)
    <2>1. TypeOK' /\ UNCHANGED utxo
      BY <1>12, <1>t, <1>u, SMT DEF PersistAddress, TypeOK
    <2> QED BY <1>12, <2>1, <1>g, <1>d, <1>c DEF PersistAddress
  <1>13. CASE ReadAddressFails(k)
    <2>1. "record" \in CreditSteps
      BY DEF CreditSteps
    <2>2. Handling(k, "settled")
      BY <1>13, <1>s, ReadAddressFailsStep DEF CreditSteps
    <2> QED BY <1>13, <2>1, <2>2, ReadAddressFailsStep DEF Goal
  <1> QED
    BY <1>1, <1>2, <1>3, <1>4, <1>5, <1>6, <1>7, <1>8, <1>9, <1>10, <1>11, <1>12, <1>13
    DEF Moves, Handle, Goal

\* Bria's step on an output.
LEMMA BriaStepType ==
    ASSUME TypeInv, NEW u \in Utxos, NEW from, NEW to \in EventTypes, BriaStep(u, from, to)
    PROVE  /\ StreamMove(Events, Steps) /\ TypeOK'
           /\ UNCHANGED <<slot, persisted>>
           /\ Len(log') = Len(log) + 1
           /\ \A i \in 1..Len(log) : log'[i] = log[i]
           /\ log'[Len(log')] = [type |-> to, of |-> u]
           /\ utxo'[u] = to /\ \A v \in Utxos \ {u} : utxo'[v] = utxo[v]
  <1>1. [type |-> to, of |-> u] \in Events
    BY DEF Events
  <1>2. TypeOK /\ faults \in 0..MaxFaults /\ log \in Seq(Events)
    BY DEF TypeInv, StreamInv, StreamTypeOK
  <1>3. UNCHANGED <<slot, persisted, connection, faults, lock, request, receipts, requested,
                    unread, pendingReceives, briaAddresses, addresses>>
    BY DEF BriaStep, receiptVars, addressVars
  <1>4. utxo' = [utxo EXCEPT ![u] = to] /\ Emit([type |-> to, of |-> u])
    BY DEF BriaStep
  <1>5. TypeOK'
    BY <1>2, <1>3, <1>4 DEF TypeOK, UtxoStates, EventTypes
  <1>6. StreamMove(Events, Steps)
    BY <1>1, <1>2, <1>3, <1>4 DEF StreamMove
  <1> QED BY <1>1, <1>2, <1>3, <1>4, <1>5, <1>6, EmitStep DEF TypeOK

LEMMA StreamType ==
    ASSUME TypeInv, Stream \/ Stop
    PROVE  StreamMove(Events, Steps) /\ TypeOK' /\ UNCHANGED <<log, utxo>>
  <1>1. TypeOK /\ faults \in 0..MaxFaults
    BY DEF TypeInv, StreamInv, StreamTypeOK
  <1>f. ASSUME NEW kind, Fault(kind) PROVE faults' \in 0..MaxFaults
    BY <1>1, <1>f, StreamAssumption, SMT DEF Fault
  <1>2. CASE Stream
    <2>1. TypeOK' /\ UNCHANGED utxo
      BY <1>1, <1>2 DEF Stream, TypeOK, receiveVars, receiptVars, addressVars
    <2>2. CASE \E k \in Slots : Deliver(k) \/ Persist(k)
      BY <2>1, <2>2, <1>1 DEF Deliver, Persist, StreamMove
    <2>3. CASE \E k \in Slots : PersistFails(k)
      <3>1. PICK k \in Slots : Fault("persist") /\ At(k, "persist") /\ Retry(k)
        BY <2>3 DEF PersistFails
      <3>2. slot[k].step # "idle" /\ faults' \in 0..MaxFaults /\ UNCHANGED log
        BY <3>1, <1>f DEF At, Retry
      <3> QED BY <2>1, <3>1, <3>2, RetryStep
    <2>4. CASE StreamFails
      BY <2>1, <2>4, <1>f DEF StreamFails, StreamMove
    <2>5. CASE Refresh \/ Connect
      BY <2>1, <2>5, <1>1 DEF Refresh, Connect, StreamMove
    <2> QED BY <1>2, <2>2, <2>3, <2>4, <2>5 DEF Stream
  <1>3. CASE Stop
    <2>1. TypeOK' /\ UNCHANGED <<log, utxo>>
      BY <1>1, <1>3 DEF Stop, Crash, TypeOK, Owners, receiptVars, addressVars
    <2> QED BY <2>1, <1>3, <1>f DEF Stop, Crash, StreamMove
  <1> QED BY <1>2, <1>3

LEMMA HandlerErrorType ==
    ASSUME TypeInv, NEW k \in Slots, HandlerError(k)
    PROVE  /\ StreamMove(Events, Steps) /\ TypeOK' /\ UNCHANGED utxo
           /\ slot[k].step # "idle" /\ Ends(k) /\ Others(k)
  <1>1. TypeOK /\ faults \in 0..MaxFaults
    BY DEF TypeInv, StreamInv, StreamTypeOK
  <1>2. Fault("handler") /\ slot[k] # Free /\ Retry(k) /\ Release(k)
    BY DEF HandlerError, HandlerFails
  <1>3. faults' \in 0..MaxFaults
    BY <1>1, <1>2, StreamAssumption, SMT DEF Fault
  <1>4. slot[k].step # "idle"
    BY <1>2, TakenSlot DEF TypeInv
  <1>5. TypeOK' /\ UNCHANGED utxo
    BY <1>1, <1>2 DEF HandlerError, Release, TypeOK, Owners, receiptVars, addressVars
  <1> QED BY <1>2, <1>3, <1>4, <1>5, RetryStep

\* A lock that expires, and an address that the user asks for.
Elsewhere == (\E u \in Utxos : LockExpires(u) \/ LoseLock(u)) \/ CreateOnChainAddress \/ UNCHANGED vars

LEMMA ElsewhereType ==
    ASSUME TypeInv, Elsewhere
    PROVE  StreamMove(Events, Steps) /\ TypeOK' /\ UNCHANGED <<log, slot, persisted, utxo>>
  <1> USE DEF receiptVars, addressVars, receiveVars, streamVars, connection
  <1>1. TypeOK /\ faults \in 0..MaxFaults
    BY DEF TypeInv, StreamInv, StreamTypeOK
  <1>2. ASSUME NEW u \in Utxos, LockExpires(u) \/ LoseLock(u)
        PROVE  /\ TypeOK' /\ UNCHANGED <<log, connection, slot, persisted, utxo>>
               /\ faults' \in 0..MaxFaults
    <2>1. UNCHANGED <<log, connection, slot, persisted, request, receiptVars, pendingReceives,
                      addressVars, utxo>>
      BY <1>2, Zenon DEF LockExpires, LoseLock
    <2>2. lock' = [lock EXCEPT ![u] = None]
      BY <1>2 DEF LockExpires, LoseLock
    <2>3. faults' = faults \/ (faults < MaxFaults /\ faults' = faults + 1)
      BY <1>2 DEF LockExpires, LoseLock
    <2> QED BY <1>1, <2>1, <2>2, <2>3, StreamAssumption, SMT DEF TypeOK, Owners
  <1>3. CASE CreateOnChainAddress
    BY <1>1, <1>3, SMT DEF CreateOnChainAddress, TypeOK, StreamMove
  <1>4. CASE UNCHANGED vars
    BY <1>1, <1>4 DEF vars, TypeOK, StreamMove
  <1> QED BY <1>2, <1>3, <1>4 DEF Elsewhere, StreamMove

\* What a handler handles stays what it is.
LEMMA EventKept ==
    ASSUME TypeInv, NEW k \in Slots, slot[k].step # "idle", slot'[k].seq = slot[k].seq,
           UNCHANGED log \/ \A i \in 1..Len(log) : log'[i] = log[i]
    PROVE  EventOf(k)' = EventOf(k) /\ EventOf(k) \in Events
  <1>1. slot[k].seq \in 1..Len(log) /\ EventOf(k) \in Events
    BY TakenEvent
  <1> QED BY <1>1 DEF EventOf

LEMMA TypeNext == ASSUME TypeInv, [Next]_vars PROVE StreamMove(Events, Steps) /\ TypeInv'
  <1> DEFINE Goal == StreamMove(Events, Steps) /\ TypeOK' /\ StepsInv'
  <1> SUFFICES Goal
    BY StreamInvNext DEF TypeInv
  <1>n. "handle" \notin Steps /\ "persist" \notin Steps /\ "idle" \notin Steps
    BY StepNames
  <1>i. /\ \A j \in Slots :
            /\ slot[j].step \in PendingSteps => EventOf(j).type = "detected"
            /\ slot[j].step \in CreditSteps \cup {"remove"} \cup AddressSteps => EventOf(j).type = "settled"
        /\ \A i \in 1..Len(log) : log[i].type = "settled" => utxo[log[i].of] = "settled"
    BY DEF TypeInv, StepsInv, Handling
  <1>s. PendingSteps \subseteq Steps /\ CreditSteps \cup {"remove"} \cup AddressSteps \subseteq Steps
    BY DEF Steps, LockedSteps
  \* The handlers, each of which stays or goes to a step that is not one of its event's.
  <1>g. ASSUME UNCHANGED <<log, utxo>>,
               \A j \in Slots : slot'[j] = slot[j] \/ slot'[j].step \notin Steps
        PROVE  StepsInv'
    BY <1>g, <1>i, <1>s DEF StepsInv, Handling, EventOf
  <1>1. ASSUME NEW k \in Slots, Moves(k) PROVE Goal
    <2>1. /\ slot[k].step # "idle" /\ UNCHANGED utxo
          /\ Others(k) /\ StreamMove(Events, Steps) /\ TypeOK'
      BY <1>1, HandleType
    <2>2. CASE Ends(k) \/ Goes1(k, "persist")
      BY <2>1, <2>2, <1>g, <1>n DEF Ends, Goes1, Others
    <2>3. ASSUME NEW step \in PendingSteps, Goes1(k, step), Handling(k, "detected") PROVE Goal
      <3>1. EventOf(k)' = EventOf(k) /\ UNCHANGED log
        BY <2>1, <2>3, EventKept DEF Goes1
      <3>2. \A j \in Slots \ {k} : EventOf(j)' = EventOf(j)
        BY <2>1, <3>1 DEF Others, EventOf
      <3>3. step \notin CreditSteps \cup {"remove"} \cup AddressSteps
        BY DEF PendingSteps, CreditSteps, AddressSteps
      <3> QED BY <2>1, <2>3, <3>1, <3>2, <3>3, <1>i DEF StepsInv, Handling, Goes1, Others
    <2>4. ASSUME NEW step \in CreditSteps \cup {"remove"} \cup AddressSteps, Goes1(k, step),
                 Handling(k, "settled")
          PROVE  Goal
      <3>1. EventOf(k)' = EventOf(k) /\ UNCHANGED log
        BY <2>1, <2>4, EventKept DEF Goes1
      <3>2. \A j \in Slots \ {k} : EventOf(j)' = EventOf(j)
        BY <2>1, <3>1 DEF Others, EventOf
      <3>3. step \notin PendingSteps
        BY DEF PendingSteps, CreditSteps, AddressSteps
      <3> QED BY <2>1, <2>4, <3>1, <3>2, <3>3, <1>i DEF StepsInv, Handling, Goes1, Others
    <2> QED BY <1>1, <2>2, <2>3, <2>4, HandleType
  <1>2. ASSUME NEW k \in Slots, HandlerError(k) PROVE Goal
    BY <1>2, <1>g, <1>n, HandlerErrorType DEF Ends, Others
  <1>3. ASSUME NEW u \in Utxos, Detect(u) \/ Drop(u) \/ Settle(u) PROVE Goal
    <2>1. PICK from \in {"none", "detected"}, to \in EventTypes : BriaStep(u, from, to)
      BY <1>3 DEF Detect, Drop, Settle, EventTypes
    <2>2. /\ StreamMove(Events, Steps) /\ TypeOK'
          /\ UNCHANGED <<slot, persisted>>
          /\ Len(log') = Len(log) + 1
          /\ \A i \in 1..Len(log) : log'[i] = log[i]
          /\ log'[Len(log')] = [type |-> to, of |-> u]
          /\ utxo'[u] = to /\ \A v \in Utxos \ {u} : utxo'[v] = utxo[v]
      BY <2>1, BriaStepType, Zenon
    <2>3. /\ log \in Seq(Events) /\ Len(log) \in Nat /\ utxo[u] # "settled"
          /\ \A i \in 1..Len(log) : log[i].of \in Utxos
      <3>1. log \in Seq(Events) /\ Len(log) \in Nat
        BY SMT DEF TypeInv, StreamInv
      <3>2. \A i \in 1..Len(log) : log[i] \in Events
        BY <3>1, SMT
      <3>3. utxo[u] = from
        BY <2>1 DEF BriaStep
      <3> QED BY <3>1, <3>2, <3>3 DEF Events
    <2>4. ASSUME NEW j \in Slots, slot[j].step \in Steps PROVE EventOf(j)' = EventOf(j)
      <3>1. slot[j].step # "idle" /\ slot'[j].seq = slot[j].seq
        BY <2>2, <2>4, <1>n
      <3> QED BY <3>1, <2>2, EventKept
    <2>5. \A i \in 1..Len(log') : log'[i].type = "settled" => utxo'[log'[i].of] = "settled"
      <3>1. ASSUME NEW i \in 1..Len(log), log[i].type = "settled"
            PROVE  utxo'[log[i].of] = "settled"
        BY <3>1, <2>2, <2>3, <1>i
      <3>2. \A i \in 1..Len(log') : i \in 1..Len(log) \/ i = Len(log')
        BY <2>2, <2>3, SMT
      <3>3. log'[Len(log')].type = "settled" => utxo'[log'[Len(log')].of] = "settled"
        BY <2>2, SMT
      <3> QED BY <3>1, <3>2, <3>3, <2>2
    <2> QED BY <2>2, <2>4, <2>5, <1>i, <1>s DEF StepsInv, Handling
  <1>4. CASE Elsewhere
    BY <1>4, <1>g, ElsewhereType
  <1>5. CASE Stream \/ Stop
    <2>1. StreamMove(Events, Steps) /\ TypeOK' /\ UNCHANGED <<log, utxo>>
      BY <1>5, StreamType
    <2>2. slot \in [Slots -> SlotStates(Steps)] /\ sent \in Nat
      BY SMT DEF TypeInv, StreamInv, StreamTypeOK
    <2>3. ASSUME NEW j \in Slots PROVE slot'[j] = slot[j] \/ slot'[j].step \in {"idle", "handle"}
      <3>1. CASE Stop
        BY <3>1, CrashSlots DEF Stop
      <3>2. CASE UNCHANGED slot
        BY <3>2
      <3>3. ASSUME NEW k \in Slots, Deliver(k) \/ Done(k)
            PROVE  slot'[j] = slot[j] \/ slot'[j].step \in {"idle", "handle"}
        BY <3>3, <2>2, DeliverSlot, DoneSlot
      <3> QED
        BY <1>5, <3>1, <3>2, <3>3
        DEF Stream, Persist, PersistFails, Retry, StreamFails, Refresh, Connect
    <2> QED BY <2>1, <2>3, <1>g, <1>n
  <1> QED BY <1>1, <1>2, <1>3, <1>4, <1>5 DEF Next, Moves, Elsewhere

\* With any number of handlers at the same time, no event about an output is skipped unless
\* a later one arrived while it was handled, whatever fails, stops or connects again in
\* between (afterSequence, getLatestSequence).
THEOREM NoReceiptSkipped == Spec => []EventsCovered
  <1>1. Init => TypeInv /\ CoveredInv
    BY TypeInit, CoveredInit DEF Init
  <1>2. TypeInv /\ CoveredInv /\ [Next]_vars => TypeInv' /\ CoveredInv'
    BY TypeNext, CoveredNext DEF TypeInv
  <1>3. TypeInv /\ CoveredInv => EventsCovered
    BY CoveredImplies DEF TypeInv
  <1> QED BY <1>1, <1>2, <1>3, PTL DEF Spec

-----------------------------------------------------------------------------
(***************************************************************************)
(* No address is added twice, unless its event arrived twice at once.      *)
(***************************************************************************)
Settlement(u) == [type |-> "settled", of |-> u]
Doubled(u) == \E n \in doubled : log[n] = Settlement(u)

\* An output is settled by one event, so that two handlers that settle it have the same
\* event; the address that is about to be added is not there, unless they are two.
DistinctInv ==
    /\ \A i, m \in 1..Len(log) : log[i].type = "settled" /\ log[i] = log[m] => i = m
    /\ \A k \in Slots :
         At(k, "persistAddress") => Utxo(k) \notin Range(addresses) \/ Doubled(Utxo(k))
    /\ AddressesDistinct

\* An address is added by the handler that found it missing, or by the user.
LEMMA AddressesStep ==
    ASSUME TypeInv, [Next]_vars
    PROVE  \/ \E k \in Slots : PersistAddress(k)
           \/ CreateOnChainAddress
           \/ UNCHANGED addresses
  <1> USE DEF receiptVars, addressVars, receiveVars
  <1>1. ASSUME NEW k \in Slots, Moves(k) PROVE PersistAddress(k) \/ UNCHANGED addresses
    BY <1>1 DEF Moves, ReadAddressFails, Handle, AcquireLock, LockUnavailable, CheckPending, PersistPending, UtxoDropped,
       CheckRecorded, ReadAddress, Record, RemovePending, FindAddress, NewAddress, IsRecorded
  <1>2. ASSUME NEW k \in Slots, HandlerError(k) PROVE UNCHANGED addresses
    BY <1>2 DEF HandlerError
  <1>3. ASSUME NEW u \in Utxos, Detect(u) \/ Drop(u) \/ Settle(u) \/ LockExpires(u) \/ LoseLock(u)
        PROVE  UNCHANGED addresses
    BY <1>3 DEF Detect, Drop, Settle, BriaStep, LockExpires, LoseLock
  <1>4. CASE Stream \/ Stop \/ UNCHANGED vars
    BY <1>4 DEF Stream, Stop, vars
  <1> QED BY <1>1, <1>2, <1>3, <1>4 DEF Next, Moves

\* A handler gets to the point of adding an address by not finding it in the wallet.
LEMMA FoundMissing ==
    ASSUME TypeInv, NEW k \in Slots, Moves(k), slot'[k].step = "persistAddress"
    PROVE  Utxo(k) \notin Range(addresses) /\ UNCHANGED addresses
  <1> USE DEF receiptVars, addressVars, receiveVars, At
  <1> DEFINE Rest == (Steps \cup {"persist"}) \ {"persistAddress"}
  <1>c. ASSUME slot[k].step # "idle", NEW step \in Rest, Continue(k, step) PROVE FALSE
    BY <1>c, ContinueStep DEF Goes1
  <1>r. ASSUME slot[k].step # "idle", UNCHANGED faults, Retry(k) PROVE FALSE
    BY <1>r, RetryStep DEF Ends, TypeInv, StreamInv, StreamTypeOK
  <1>n. /\ {"checkPending", "persistPending", "checkRecorded", "readAddress", "record", "remove",
            "findAddress", "newAddress", "isRecorded", "persist"} \subseteq Rest
        /\ "persistAddress" \notin Rest
    BY DEF Steps, LockedSteps, PendingSteps, CreditSteps, AddressSteps
  <1> HIDE DEF Rest
  <1>1. CASE AcquireLock(k)
    BY <1>1, <1>c, <1>n DEF AcquireLock
  <1>2. CASE LockUnavailable(k)
    BY <1>2, <1>r DEF LockUnavailable
  <1>3. CASE CheckPending(k)
    BY <1>3, <1>c, <1>n DEF CheckPending, Returns
  <1>4. CASE PersistPending(k) \/ UtxoDropped(k) \/ PersistAddress(k)
    BY <1>4, <1>c, <1>n DEF PersistPending, UtxoDropped, PersistAddress, Returns
  <1>5. CASE CheckRecorded(k)
    BY <1>5, <1>c, <1>n DEF CheckRecorded
  <1>6. CASE ReadAddress(k) \/ Record(k)
    BY <1>6, <1>c, <1>n DEF ReadAddress, Record
  <1>7. CASE RemovePending(k)
    BY <1>7, <1>c, <1>n DEF RemovePending
  <1>8. CASE FindAddress(k)
    BY <1>8, <1>c, <1>n DEF FindAddress
  <1>9. CASE NewAddress(k)
    BY <1>9, <1>c, <1>n, <1>r DEF NewAddress
  <1>10. CASE IsRecorded(k)
    BY <1>10, <1>c, <1>n DEF IsRecorded
  <1>11. CASE ReadAddressFails(k)
    BY <1>11, ReadAddressFailsStep DEF Goes1
  <1> QED
    BY <1>1, <1>2, <1>3, <1>4, <1>5, <1>6, <1>7, <1>8, <1>9, <1>10, <1>11 DEF Moves, Handle

\* A slot that is about to add an address was that before, unless its handler moved.
LEMMA OnlyHandle ==
    ASSUME TypeInv, [Next]_vars, NEW k \in Slots, slot'[k].step = "persistAddress",
           \A j \in Slots : ~Moves(j)
    PROVE  slot'[k] = slot[k] /\ \A i \in 1..Len(log) : log'[i] = log[i]
  <1>t. slot \in [Slots -> SlotStates(Steps)] /\ sent \in Nat
    BY SMT DEF TypeInv, StreamInv, StreamTypeOK
  <1>1. ASSUME NEW j \in Slots, HandlerError(j)
        PROVE  slot'[k] = slot[k] /\ UNCHANGED log
    BY <1>1, HandlerErrorType DEF Ends, Others
  <1>2. ASSUME NEW u \in Utxos, Detect(u) \/ Drop(u) \/ Settle(u)
        PROVE  UNCHANGED slot /\ \A i \in 1..Len(log) : log'[i] = log[i]
    <2>1. PICK from \in {"none", "detected"}, to \in EventTypes : BriaStep(u, from, to)
      BY <1>2 DEF Detect, Drop, Settle, EventTypes
    <2> QED BY <2>1, BriaStepType DEF BriaStep
  <1>3. CASE Elsewhere
    BY <1>3, ElsewhereType
  <1>4. CASE Stream
    <2>1. UNCHANGED log
      BY <1>4, StreamType
    <2>2. ASSUME NEW j \in Slots, Deliver(j) \/ Persist(j) \/ PersistFails(j)
          PROVE  slot'[k] = slot[k]
      <3>1. CASE Deliver(j)
        BY <3>1, <1>t, DeliverSlot
      <3>2. CASE Persist(j) \/ PersistFails(j)
        BY <3>2, <1>t, DoneSlot DEF Persist, PersistFails, Retry
      <3> QED BY <2>2, <3>1, <3>2
    <2>3. CASE StreamFails \/ Refresh \/ Connect
      BY <2>1, <2>3 DEF StreamFails, Refresh, Connect
    <2> QED BY <1>4, <2>1, <2>2, <2>3 DEF Stream
  <1>5. CASE Stop
    BY <1>5, CrashSlots DEF Stop
  <1> QED BY <1>1, <1>2, <1>3, <1>4, <1>5 DEF Next, Moves, Elsewhere

\* Two equal entries of a list that grows were there before, or the new one was there.
LEMMA AppendDistinct ==
    ASSUME NEW S, NEW s \in Seq(S), NEW x \in S,
           NEW i \in DOMAIN Append(s, x), NEW j \in DOMAIN Append(s, x),
           i # j, Append(s, x)[i] = Append(s, x)[j]
    PROVE  \/ i \in DOMAIN s /\ j \in DOMAIN s /\ s[i] = s[j] /\ Append(s, x)[i] = s[i]
           \/ Append(s, x)[i] = x /\ x \in Range(s)
  <1> DEFINE t == Append(s, x)
  <1>1. /\ Len(s) \in Nat /\ DOMAIN s = 1..Len(s) /\ DOMAIN t = 1..(Len(s) + 1)
        /\ t[Len(s) + 1] = x /\ \A n \in 1..Len(s) : t[n] = s[n]
    BY SMT
  <1>2. i \in DOMAIN t /\ j \in DOMAIN t /\ t[i] = t[j]
    OBVIOUS
  <1> SUFFICES \/ i \in DOMAIN s /\ j \in DOMAIN s /\ s[i] = s[j] /\ t[i] = s[i]
               \/ t[i] = x /\ x \in Range(s)
    OBVIOUS
  <1> HIDE DEF t
  <1>3. \A n \in DOMAIN t : n \in 1..Len(s) \/ n = Len(s) + 1
    BY <1>1, SMT
  <1> QED BY <1>1, <1>2, <1>3 DEF Range

LEMMA AppendRange ==
    ASSUME NEW S, NEW s \in Seq(S), NEW x \in S
    PROVE  Range(Append(s, x)) = Range(s) \cup {x}
  <1>1. /\ Len(s) \in Nat /\ DOMAIN s = 1..Len(s) /\ DOMAIN Append(s, x) = 1..(Len(s) + 1)
        /\ Append(s, x)[Len(s) + 1] = x /\ \A n \in 1..Len(s) : Append(s, x)[n] = s[n]
    BY SMT
  <1> QED BY <1>1, SMT DEF Range

\* Bria settles an output once.
LEMMA SettledOnce ==
    ASSUME TypeInv, DistinctInv, [Next]_vars
    PROVE  \A i, m \in 1..Len(log') : log'[i].type = "settled" /\ log'[i] = log'[m] => i = m
  <1>1. CASE UNCHANGED log
    BY <1>1 DEF DistinctInv
  <1>2. ASSUME NEW u \in Utxos, Detect(u) \/ Drop(u) \/ Settle(u)
        PROVE  \A i, m \in 1..Len(log') : log'[i].type = "settled" /\ log'[i] = log'[m] => i = m
    <2>1. PICK from \in {"none", "detected"}, to \in EventTypes : BriaStep(u, from, to)
      BY <1>2 DEF Detect, Drop, Settle, EventTypes
    <2>2. /\ Len(log') = Len(log) + 1
          /\ \A i \in 1..Len(log) : log'[i] = log[i]
          /\ log'[Len(log')] = [type |-> to, of |-> u]
      BY <2>1, BriaStepType, Zenon
    <2>3. Len(log) \in Nat /\ utxo[u] # "settled"
      BY <2>1, SMT DEF BriaStep, TypeInv, StreamInv
    <2>4. \A i \in 1..Len(log) : log[i].type = "settled" => log[i] # [type |-> to, of |-> u]
      <3>1. [type |-> to, of |-> u].of = u
        OBVIOUS
      <3> QED BY <2>3, <3>1 DEF TypeInv, StepsInv
    <2>5. \A i \in 1..Len(log') : i \in 1..Len(log) \/ i = Len(log')
      BY <2>2, <2>3, SMT
    <2>6. \A i, m \in 1..Len(log) : log[i].type = "settled" /\ log[i] = log[m] => i = m
      BY DEF DistinctInv
    <2> QED BY <2>2, <2>4, <2>5, <2>6
  <1>3. CASE Elsewhere \/ Stream \/ Stop
    BY <1>1, <1>3, ElsewhereType, StreamType
  <1>4. ASSUME NEW k \in Slots, Moves(k) \/ HandlerError(k) PROVE UNCHANGED log
    BY <1>4, HandleType, HandlerErrorType DEF Ends, Goes1
  <1> QED BY <1>1, <1>2, <1>3, <1>4 DEF Next, Moves, Elsewhere

\* Two handlers that are about to add the address of one output handle the same event.
LEMMA AddingTwice ==
    ASSUME TypeInv, CoveredInv, DistinctInv, NEW k \in Slots, NEW j \in Slots \ {k},
           At(k, "persistAddress"), At(j, "persistAddress"), Utxo(k) = Utxo(j)
    PROVE  Doubled(Utxo(k))
  <1>1. /\ slot[k].seq \in 1..Len(log) /\ slot[j].seq \in 1..Len(log)
        /\ EventOf(k) = Settlement(Utxo(k)) /\ EventOf(j) = Settlement(Utxo(j))
    <2>1. \A h \in {k, j} : slot[h].step # "idle" /\ EventOf(h).type = "settled"
      BY DEF At, TypeInv, StepsInv, AddressSteps, Handling
    <2> QED BY <2>1, TakenEvent DEF Settlement
  <1>2. slot[k].seq = slot[j].seq
    <2>1. log[slot[k].seq] = log[slot[j].seq] /\ log[slot[k].seq].type = "settled"
      BY <1>1, SMT DEF EventOf, Settlement
    <2> QED BY <1>1, <2>1 DEF DistinctInv
  <1>3. slot[k].seq # 0
    BY <1>1, SMT
  <1> QED BY <1>1, <1>2, <1>3 DEF CoveredInv, Doubled, EventOf

LEMMA DistinctNext ==
    ASSUME TypeInv, CoveredInv, DistinctInv, [Next]_vars
    PROVE  DistinctInv'
  <1> DEFINE DoubledNow(u) == \E n \in doubled' : log'[n] = Settlement(u)
  <1>t. addresses \in Seq(Utxos \cup {First, Own})
    BY DEF TypeInv, TypeOK
  <1>d. \A i, j \in DOMAIN addresses : i # j /\ addresses[i] = addresses[j] => Doubled(addresses[i])
    BY DEF DistinctInv, AddressesDistinct, Doubled, Settlement
  <1>g. \A u : Doubled(u) => DoubledNow(u)
    <2>1. /\ doubled \subseteq doubled' /\ doubled \subseteq 1..Len(log)
          /\ \A i \in 1..Len(log) : log'[i] = log[i]
      BY TypeNext, OverlapsGrow DEF TypeInv, StreamInv, StreamTypeOK
    <2> QED BY <2>1 DEF Doubled, Settlement
  <1> HIDE DEF DoubledNow
  \* The addresses before and after, whichever is added.
  <1>a. ASSUME NEW x \in Utxos \cup {Own}, addresses' = Append(addresses, x),
               x \notin Range(addresses) \/ Doubled(x)
        PROVE  AddressesDistinct' /\ Range(addresses') = Range(addresses) \cup {x}
    <2>1. x \in Utxos \cup {First, Own}
      OBVIOUS
    <2>2. ASSUME NEW i \in DOMAIN addresses', NEW j \in DOMAIN addresses', i # j,
                 addresses'[i] = addresses'[j]
          PROVE  Doubled(addresses'[i])
      <3>1. \/ i \in DOMAIN addresses /\ j \in DOMAIN addresses /\ addresses[i] = addresses[j]
               /\ addresses'[i] = addresses[i]
            \/ addresses'[i] = x /\ x \in Range(addresses)
        BY <1>a, <1>t, <2>1, <2>2, AppendDistinct, SMT
      <3> QED BY <1>a, <1>d, <2>2, <3>1
    <2>3. \A i, j \in DOMAIN addresses' :
            i # j /\ addresses'[i] = addresses'[j] => DoubledNow(addresses'[i])
      BY <2>2, <1>g
    <2>4. Range(addresses') = Range(addresses) \cup {x}
      BY <1>a, <1>t, <2>1, AppendRange
    <2> QED BY <2>3, <2>4 DEF AddressesDistinct, DoubledNow, Settlement
  \* A handler that is about to add an address, and one that was and stays there.
  <1>n. ASSUME NEW k \in Slots, slot'[k].step = "persistAddress", ~Moves(k)
        PROVE  /\ At(k, "persistAddress") /\ Utxo(k)' = Utxo(k)
               /\ Utxo(k) \in Utxos
               /\ Utxo(k) \notin Range(addresses) \/ Doubled(Utxo(k))
    <2>1. slot'[k] = slot[k] /\ \A i \in 1..Len(log) : log'[i] = log[i]
      <3>1. CASE \A j \in Slots : ~Moves(j)
        BY <1>n, <3>1, OnlyHandle
      <3>2. ASSUME NEW j \in Slots, Moves(j)
            PROVE  slot'[k] = slot[k] /\ \A i \in 1..Len(log) : log'[i] = log[i]
        BY <1>n, <3>2, HandleType DEF Others, Ends, Goes1
      <3> QED BY <3>1, <3>2
    <2>2. slot[k].seq \in 1..Len(log) /\ Utxo(k) \in Utxos
      BY <1>n, <2>1, TakenEvent
    <2> QED BY <1>n, <2>1, <2>2 DEF DistinctInv, At, Utxo, EventOf
  <1>s. ASSUME NEW k \in Slots, slot'[k].step = "persistAddress", Moves(k)
        PROVE  (Utxo(k) \notin Range(addresses))'
    <2>1. Utxo(k) \notin Range(addresses) /\ UNCHANGED addresses
      BY <1>s, FoundMissing
    <2>2. UNCHANGED log /\ slot'[k].seq = slot[k].seq
      BY <1>s, HandleType DEF Goes1, Ends
    <2> QED BY <2>1, <2>2 DEF Utxo, EventOf
  <1> SUFFICES /\ AddressesDistinct'
               /\ \A k \in Slots : slot'[k].step = "persistAddress" /\ ~Moves(k) =>
                     Utxo(k)' \notin Range(addresses') \/ DoubledNow(Utxo(k)')
    BY SettledOnce, <1>s DEF DistinctInv, At, Doubled, DoubledNow, Settlement
  <1>1. ASSUME NEW k \in Slots, PersistAddress(k)
        PROVE  /\ AddressesDistinct'
               /\ \A j \in Slots : slot'[j].step = "persistAddress" /\ ~Moves(j) =>
                     Utxo(j)' \notin Range(addresses') \/ DoubledNow(Utxo(j)')
    <2>1. At(k, "persistAddress") /\ Moves(k) /\ addresses' = Append(addresses, Utxo(k))
      BY <1>1 DEF PersistAddress, Moves, Handle
    <2>2. Utxo(k) \in Utxos /\ (Utxo(k) \notin Range(addresses) \/ Doubled(Utxo(k)))
      BY <2>1, TakenEvent DEF DistinctInv, At
    <2>3. AddressesDistinct' /\ Range(addresses') = Range(addresses) \cup {Utxo(k)}
      BY <2>1, <2>2, <1>a
    <2>4. ASSUME NEW j \in Slots, slot'[j].step = "persistAddress", ~Moves(j)
          PROVE  Utxo(j)' \notin Range(addresses') \/ DoubledNow(Utxo(j)')
      <3>1. /\ At(j, "persistAddress") /\ Utxo(j)' = Utxo(j) /\ j # k
            /\ Utxo(j) \notin Range(addresses) \/ Doubled(Utxo(j))
        BY <2>1, <2>4, <1>n
      <3>2. Utxo(j) = Utxo(k) => Doubled(Utxo(j))
        BY <2>1, <3>1, AddingTwice
      <3> QED BY <2>3, <3>1, <3>2, <1>g
    <2> QED BY <2>3, <2>4
  <1>2. CASE CreateOnChainAddress
    <2>1. addresses' = Append(addresses, Own) /\ Own \notin Range(addresses)
      BY <1>2 DEF CreateOnChainAddress
    <2>2. AddressesDistinct' /\ Range(addresses') = Range(addresses) \cup {Own}
      BY <2>1, <1>a
    <2> QED BY <2>2, <1>n, <1>g, ReceiveAssumption
  <1>3. CASE UNCHANGED addresses
    <2>1. AddressesDistinct'
      <3>1. \A i, j \in DOMAIN addresses : i # j /\ addresses[i] = addresses[j] => DoubledNow(addresses[i])
        BY <1>d, <1>g
      <3> QED BY <1>3, <3>1 DEF AddressesDistinct, DoubledNow, Settlement
    <2> QED BY <1>3, <2>1, <1>n, <1>g
  <1> QED BY <1>1, <1>2, <1>3, AddressesStep

\* With any number of handlers at the same time the wallet never gets one address twice
\* unless the event of the output arrived again while it was handled, although a handler
\* that failed or stopped after adding it is run again (isRecorded before persistNew).
THEOREM OneOfEachAddress == Spec => []AddressesDistinct
  <1> DEFINE Inv == TypeInv /\ CoveredInv /\ DistinctInv
  <1>1. Init => Inv
    <2> SUFFICES ASSUME Init PROVE DistinctInv
      BY TypeInit, CoveredInit DEF Init
    <2>1. \A k \in Slots : slot[k].step = "idle"
      BY DEF Init, StreamInit, Free
    <2>2. AddressesDistinct
      BY SMT DEF Init, AddressesDistinct
    <2> QED BY <2>1, <2>2, SMT DEF Init, StreamInit, DistinctInv, At
  <1>2. Inv /\ [Next]_vars => Inv'
    BY TypeNext, CoveredNext, DistinctNext DEF TypeInv
  <1>3. Inv => AddressesDistinct
    BY DEF DistinctInv
  <1> QED BY <1>1, <1>2, <1>3, PTL DEF Spec

-----------------------------------------------------------------------------
(***************************************************************************)
(* One receipt per output, as long as no lock is lost.                     *)
(***************************************************************************)
Credited(u) == receipts[u] = 1 /\ u \notin pendingReceives

\* A handler in its locked section holds the lock of its output.  When it is about to
\* write a pending receive or a receipt, there is no receipt; past the receipt there is
\* one, and past "remove" the output is not pending any more.
SlotCredit(k) ==
    /\ slot[k].step \in LockedSteps => lock[Utxo(k)] = k
    /\ slot[k].step \in {"persistPending", "readAddress", "record"} => receipts[Utxo(k)] = 0
    /\ slot[k].step = "remove" => receipts[Utxo(k)] = 1
    /\ slot[k].step \in AddressSteps => Credited(Utxo(k))
    /\ At(k, "persist") /\ Handling(k, "settled") => Credited(Utxo(k))

CreditInv == CreditedOnce /\ \A k \in Slots : SlotCredit(k)

\* A step of a handler that writes neither a receipt nor a pending receive, and touches no
\* lock of another handler.
Quiet(k) ==
    /\ UNCHANGED <<receipts, log, persisted, utxo>>
    /\ pendingReceives' \subseteq pendingReceives
    /\ \A u \in Utxos : lock[u] \in Slots \ {k} => lock'[u] = lock[u]
    /\ Others(k)

LEMMA QuietStep ==
    ASSUME TypeInv, CreditInv, NEW k \in Slots, Quiet(k)
    PROVE  CreditedOnce' /\ \A j \in Slots \ {k} : SlotCredit(j)'
  <1>1. CreditedOnce'
    BY DEF CreditInv, CreditedOnce, Quiet, IsPersisted
  <1>2. ASSUME NEW j \in Slots \ {k} PROVE SlotCredit(j)'
    <2>1. slot'[j] = slot[j] /\ Utxo(j)' = Utxo(j) /\ EventOf(j)' = EventOf(j)
      BY DEF Quiet, Others, Utxo, EventOf
    <2>2. SlotCredit(j)
      BY DEF CreditInv
    <2>3. slot[j].step \in LockedSteps => lock'[Utxo(j)'] = j
      <3>1. slot[j].step \in LockedSteps => Utxo(j) \in Utxos
        <4>1. slot[j].step \in LockedSteps => slot[j].step # "idle"
          BY DEF LockedSteps, PendingSteps, CreditSteps
        <4> QED BY <4>1, TakenEvent
      <3> QED BY <2>1, <2>2, <3>1 DEF SlotCredit, Quiet
    <2> QED BY <2>1, <2>2, <2>3 DEF SlotCredit, Credited, Handling, At, Quiet
  <1> QED BY <1>1, <1>2

\* Where a handler is when it does not have to know anything of its output.
LEMMA CarefreeSlot ==
    ASSUME NEW k \in Slots,
           \/ slot'[k].step \in {"idle", "handle"}
           \/ slot'[k].step = "persist" /\ ~Handling(k, "settled")'
    PROVE  SlotCredit(k)'
  BY DEF SlotCredit, LockedSteps, PendingSteps, CreditSteps, AddressSteps, At

\* Releasing the locks of one handler leaves those of the others.
LEMMA ReleaseStep ==
    ASSUME TypeInv, NEW k \in Slots, Release(k)
    PROVE  \A u \in Utxos : lock[u] \in Slots \ {k} => lock'[u] = lock[u]
  BY DEF Release

\* Two handlers in their locked sections work on different outputs.
LEMMA LockedApart ==
    ASSUME CreditInv, NEW k \in Slots, NEW j \in Slots \ {k},
           slot[k].step \in LockedSteps, slot[j].step \in LockedSteps
    PROVE  Utxo(j) # Utxo(k)
  BY DEF CreditInv, SlotCredit

LEMMA CreditHandle ==
    ASSUME TypeInv, CreditInv, NEW k \in Slots, Moves(k)
    PROVE  CreditInv'
  <1> USE DEF receiptVars, addressVars, receiveVars, At
  <1>1. /\ slot[k].step # "idle" /\ UNCHANGED utxo /\ Others(k)
        /\ SlotCredit(k)
    BY HandleType DEF CreditInv
  <1>2. Utxo(k) \in Utxos /\ EventOf(k).type \in EventTypes
    BY <1>1, TakenEvent
  <1>3. TypeOK /\ (slot[k].step \in CreditSteps \cup {"remove"} \cup AddressSteps => Handling(k, "settled"))
    BY DEF TypeInv, StepsInv
  \* What is left to show for a quiet step.
  <1>q. ASSUME Quiet(k), SlotCredit(k)' PROVE CreditInv'
    BY <1>q, QuietStep DEF CreditInv
  \* A handler that goes to a step, or ends.
  <1>g. ASSUME NEW step \in Steps \cup {"persist"}, Continue(k, step)
        PROVE  /\ UNCHANGED <<log, persisted>>
               /\ slot'[k].step = step /\ EventOf(k)' = EventOf(k) /\ Utxo(k)' = Utxo(k)
    <2>1. Goes1(k, step)
      BY <1>g, <1>1, ContinueStep
    <2> QED BY <2>1 DEF Goes1, EventOf, Utxo
  <1>r. ASSUME Retry(k), UNCHANGED faults PROVE UNCHANGED <<log, persisted>> /\ SlotCredit(k)'
    <2>1. faults' \in 0..MaxFaults
      BY <1>r DEF TypeInv, StreamInv, StreamTypeOK
    <2>2. Ends(k)
      BY <1>r, <2>1, <1>1, RetryStep
    <2> QED BY <2>2, CarefreeSlot DEF Ends
  <1>l. Release(k) => \A u \in Utxos : lock[u] \in Slots \ {k} => lock'[u] = lock[u]
    BY ReleaseStep
  <1> USE DEF Quiet
  <1>4. CASE AcquireLock(k)
    <2> DEFINE step == IF Handling(k, "detected") THEN "checkPending" ELSE "checkRecorded"
    <2>1. /\ lock[Utxo(k)] = None /\ lock' = [lock EXCEPT ![Utxo(k)] = k]
          /\ UNCHANGED <<receipts, pendingReceives>> /\ Continue(k, step)
      BY <1>4 DEF AcquireLock
    <2>2. step \in {"checkPending", "checkRecorded"} /\ step \in Steps
      BY DEF Steps, LockedSteps, PendingSteps, CreditSteps
    <2> HIDE DEF step
    <2>3. UNCHANGED <<log, persisted>> /\ slot'[k].step = step /\ Utxo(k)' = Utxo(k)
      BY <2>1, <2>2, <1>g
    <2>4. lock'[Utxo(k)] = k /\ \A u \in Utxos : lock[u] \in Slots \ {k} => lock'[u] = lock[u]
      BY <2>1, <1>2, <1>3, ReceiveAssumption DEF TypeOK
    <2>5. SlotCredit(k)'
      BY <2>2, <2>3, <2>4 DEF SlotCredit, LockedSteps, PendingSteps, CreditSteps, AddressSteps
    <2> QED BY <1>1, <2>1, <2>3, <2>4, <2>5, <1>q
  <1>5. CASE LockUnavailable(k)
    <2>1. Retry(k) /\ UNCHANGED <<faults, lock, receipts, pendingReceives>>
      BY <1>5 DEF LockUnavailable
    <2> QED BY <2>1, <1>1, <1>r, <1>q
  <1>6. CASE CheckPending(k)
    <2>1. At(k, "checkPending") /\ Handling(k, "detected")
      BY <1>6 DEF CheckPending, TypeInv, StepsInv, PendingSteps
    <2>2. CASE receipts[Utxo(k)] > 0
      <3>1. Returns(k) /\ Release(k) /\ UNCHANGED receipts /\ pendingReceives' \subseteq pendingReceives
        BY <1>6, <2>2 DEF CheckPending
      <3>2. UNCHANGED <<log, persisted>> /\ slot'[k].step = "persist" /\ EventOf(k)' = EventOf(k)
        BY <3>1, <1>g DEF Returns
      <3>3. SlotCredit(k)'
        BY <2>1, <3>2, CarefreeSlot DEF Handling
      <3> QED BY <1>1, <3>1, <3>2, <3>3, <1>l, <1>q
    <2>3. CASE ~(receipts[Utxo(k)] > 0)
      <3>1. Continue(k, "persistPending") /\ UNCHANGED <<lock, receipts, pendingReceives>>
        BY <1>6, <2>3 DEF CheckPending
      <3>2. UNCHANGED <<log, persisted>> /\ slot'[k].step = "persistPending" /\ Utxo(k)' = Utxo(k)
        BY <3>1, <1>g DEF Steps, LockedSteps, PendingSteps
      <3>3. receipts[Utxo(k)] = 0 /\ lock[Utxo(k)] = k
        BY <2>1, <2>3, <1>1, <1>2, <1>3, SMT DEF SlotCredit, TypeOK, LockedSteps, PendingSteps
      <3>4. SlotCredit(k)'
        BY <3>1, <3>2, <3>3 DEF SlotCredit, AddressSteps
      <3> QED BY <1>1, <3>1, <3>2, <3>4, <1>q
    <2> QED BY <2>2, <2>3
  <1>7. CASE PersistPending(k)
    <2>1. /\ At(k, "persistPending") /\ Handling(k, "detected")
          /\ Returns(k) /\ Release(k) /\ UNCHANGED receipts
          /\ pendingReceives' = pendingReceives \cup {Utxo(k)}
      BY <1>7 DEF PersistPending, TypeInv, StepsInv, PendingSteps
    <2>2. UNCHANGED <<log, persisted>> /\ slot'[k].step = "persist" /\ EventOf(k)' = EventOf(k)
      BY <2>1, <1>g DEF Returns
    <2>3. SlotCredit(k)'
      BY <2>1, <2>2, CarefreeSlot DEF Handling
    <2>4. receipts[Utxo(k)] = 0
      BY <2>1, <1>1 DEF SlotCredit
    <2>5. \A u \in Utxos : Credited(u) => Credited(u)'
      BY <2>1, <2>4, SMT DEF Credited
    <2>6. CreditedOnce'
      BY <2>1, <2>2, <2>5, <1>1 DEF CreditInv, CreditedOnce, IsPersisted, Credited
    <2>7. ASSUME NEW j \in Slots \ {k} PROVE SlotCredit(j)'
      <3>1. slot'[j] = slot[j] /\ Utxo(j)' = Utxo(j) /\ EventOf(j)' = EventOf(j) /\ SlotCredit(j)
        BY <1>1, <2>2 DEF Others, Utxo, EventOf, CreditInv
      <3>2. slot[j].step # "idle" => Utxo(j) \in Utxos
        BY TakenEvent
      <3>3. CASE slot[j].step = "idle"
        BY <3>1, <3>3, CarefreeSlot
      <3>4. CASE slot[j].step # "idle"
        BY <2>1, <2>5, <3>1, <3>2, <3>4, <1>l DEF SlotCredit, Handling
      <3> QED BY <3>3, <3>4
    <2> QED BY <2>3, <2>6, <2>7 DEF CreditInv
  <1>8. CASE UtxoDropped(k)
    <2>1. Handling(k, "dropped") /\ Returns(k) /\ UNCHANGED <<lock, receipts>>
          /\ pendingReceives' \subseteq pendingReceives
      BY <1>8 DEF UtxoDropped
    <2>2. UNCHANGED <<log, persisted>> /\ slot'[k].step = "persist" /\ EventOf(k)' = EventOf(k)
      BY <2>1, <1>g DEF Returns
    <2>3. SlotCredit(k)'
      BY <2>1, <2>2, CarefreeSlot DEF Handling
    <2> QED BY <1>1, <2>1, <2>2, <2>3, <1>q
  <1>9. CASE CheckRecorded(k)
    <2>1. slot[k].step = "checkRecorded" /\ UNCHANGED <<receipts, pendingReceives>>
      BY <1>9 DEF CheckRecorded
    <2>2. CASE receipts[Utxo(k)] > 0
      <3>1. Release(k) /\ Continue(k, "remove")
        BY <1>9, <2>2 DEF CheckRecorded
      <3>2. UNCHANGED <<log, persisted>> /\ slot'[k].step = "remove" /\ Utxo(k)' = Utxo(k)
        BY <3>1, <1>g DEF Steps
      <3>3. receipts[Utxo(k)] = 1
        BY <2>2, <1>2, <1>3, SMT DEF CreditInv, CreditedOnce, TypeOK
      <3>4. SlotCredit(k)'
        BY <2>1, <3>2, <3>3 DEF SlotCredit, LockedSteps, PendingSteps, CreditSteps, AddressSteps
      <3> QED BY <1>1, <2>1, <3>1, <3>2, <3>4, <1>l, <1>q
    <2>3. CASE ~(receipts[Utxo(k)] > 0)
      <3>1. Continue(k, "readAddress") /\ UNCHANGED lock
        BY <1>9, <2>3 DEF CheckRecorded
      <3>2. UNCHANGED <<log, persisted>> /\ slot'[k].step = "readAddress" /\ Utxo(k)' = Utxo(k)
        BY <3>1, <1>g DEF Steps, LockedSteps, CreditSteps
      <3>3. receipts[Utxo(k)] = 0 /\ lock[Utxo(k)] = k
        BY <2>1, <2>3, <1>1, <1>2, <1>3, SMT DEF SlotCredit, TypeOK, LockedSteps, CreditSteps
      <3>4. SlotCredit(k)'
        BY <2>1, <3>1, <3>2, <3>3 DEF SlotCredit, AddressSteps
      <3> QED BY <1>1, <2>1, <3>1, <3>2, <3>4, <1>q
    <2> QED BY <2>2, <2>3
  <1>10. CASE ReadAddress(k)
    <2>1. /\ slot[k].step = "readAddress" /\ Continue(k, "record")
          /\ UNCHANGED <<lock, receipts, pendingReceives>>
      BY <1>10 DEF ReadAddress
    <2>2. UNCHANGED <<log, persisted>> /\ slot'[k].step = "record" /\ Utxo(k)' = Utxo(k)
      BY <2>1, <1>g DEF Steps, LockedSteps, CreditSteps
    <2>3. SlotCredit(k)'
      BY <2>1, <2>2, <1>1 DEF SlotCredit, LockedSteps, CreditSteps, AddressSteps
    <2> QED BY <1>1, <2>1, <2>2, <2>3, <1>q
  <1>11. CASE Record(k)
    <2>1. /\ slot[k].step = "record" /\ receipts' = [receipts EXCEPT ![Utxo(k)] = @ + 1]
          /\ Release(k) /\ Continue(k, "remove") /\ UNCHANGED pendingReceives
      BY <1>11 DEF Record
    <2>2. UNCHANGED <<log, persisted>> /\ slot'[k].step = "remove" /\ Utxo(k)' = Utxo(k)
      BY <2>1, <1>g DEF Steps
    <2>3. receipts[Utxo(k)] = 0 /\ receipts'[Utxo(k)] = 1
      BY <2>1, <1>1, <1>2, <1>3, SMT DEF SlotCredit, TypeOK
    <2>4. \A u \in Utxos \ {Utxo(k)} : receipts'[u] = receipts[u]
      BY <2>1, <1>3 DEF TypeOK
    <2>5. utxo[Utxo(k)] = "settled"
      <3>1. Handling(k, "settled") /\ slot[k].seq \in 1..Len(log)
        BY <2>1, <1>1, <1>3, TakenEvent DEF CreditSteps
      <3> QED BY <3>1 DEF TypeInv, StepsInv, Handling, EventOf, Utxo
    <2>6. \A u \in Utxos : Credited(u) => u # Utxo(k) /\ Credited(u)'
      BY <2>1, <2>3, <2>4, SMT DEF Credited
    <2>7. CreditedOnce'
      <3>1. \A u \in Utxos : IsPersisted("settled", u)' => Credited(u)
        BY <2>2 DEF IsPersisted, CreditInv, CreditedOnce, Credited
      <3>2. \A u \in Utxos : receipts[u] <= 1 /\ (receipts[u] = 1 => utxo[u] = "settled")
        BY DEF CreditInv, CreditedOnce
      <3>3. \A u \in Utxos : receipts'[u] <= 1 /\ (receipts'[u] = 1 => utxo'[u] = "settled")
        BY <2>3, <2>4, <2>5, <3>2, <1>1, SMT
      <3> QED BY <3>1, <3>3, <2>6 DEF CreditedOnce, Credited
    <2>8. SlotCredit(k)'
      BY <2>2, <2>3 DEF SlotCredit, LockedSteps, PendingSteps, CreditSteps, AddressSteps
    <2>9. ASSUME NEW j \in Slots \ {k} PROVE SlotCredit(j)'
      <3>1. slot'[j] = slot[j] /\ Utxo(j)' = Utxo(j) /\ EventOf(j)' = EventOf(j) /\ SlotCredit(j)
        BY <1>1, <2>2 DEF Others, Utxo, EventOf, CreditInv
      <3>2. slot[j].step # "idle" => Utxo(j) \in Utxos
        BY TakenEvent
      <3>3. slot[j].step \in LockedSteps => Utxo(j) # Utxo(k)
        BY <2>1, LockedApart DEF LockedSteps, CreditSteps
      <3>4. CASE slot[j].step = "idle"
        BY <3>1, <3>4, CarefreeSlot
      <3>5. CASE slot[j].step \in LockedSteps
        <4>1. slot[j].step # "idle"
          BY <3>5 DEF LockedSteps, PendingSteps, CreditSteps
        <4>2. lock'[Utxo(j)] = j /\ receipts'[Utxo(j)] = receipts[Utxo(j)]
          BY <2>1, <2>4, <3>1, <3>2, <3>3, <3>5, <4>1, <1>l DEF SlotCredit
        <4> QED BY <3>1, <3>5, <4>2
            DEF SlotCredit, LockedSteps, PendingSteps, CreditSteps, AddressSteps
      <3>6. CASE slot[j].step # "idle" /\ slot[j].step \notin LockedSteps
        <4>1. receipts[Utxo(j)] = 1 => receipts'[Utxo(j)] = 1
          BY <2>3, <2>4, <3>2, <3>6
        <4> QED BY <2>6, <3>1, <3>2, <3>6, <4>1
            DEF SlotCredit, Handling, LockedSteps, PendingSteps, CreditSteps
      <3> QED BY <3>4, <3>5, <3>6
    <2> QED BY <2>7, <2>8, <2>9 DEF CreditInv
  <1>12. CASE RemovePending(k)
    <2>1. /\ slot[k].step = "remove" /\ UNCHANGED <<lock, receipts>>
          /\ pendingReceives' = pendingReceives \ {Utxo(k)}
          /\ \E step \in {"findAddress", "persist"} : Continue(k, step)
      BY <1>12 DEF RemovePending
    <2>2. PICK step \in {"findAddress", "persist"} : Continue(k, step)
      BY <2>1
    <2>3. UNCHANGED <<log, persisted>> /\ slot'[k].step = step /\ Utxo(k)' = Utxo(k)
      BY <2>2, <1>g DEF Steps, AddressSteps
    <2>4. Credited(Utxo(k))'
      BY <2>1, <2>3, <1>1 DEF SlotCredit, Credited
    <2>5. SlotCredit(k)'
      BY <2>2, <2>3, <2>4 DEF SlotCredit, LockedSteps, PendingSteps, CreditSteps
    <2> QED BY <1>1, <2>1, <2>3, <2>5, <1>q
  <1>13. CASE FindAddress(k) \/ NewAddress(k) \/ IsRecorded(k) \/ PersistAddress(k)
    <2>1. /\ slot[k].step \in AddressSteps /\ UNCHANGED <<lock, receipts, pendingReceives>>
          /\ \/ \E step \in AddressSteps \cup {"persist"} : Continue(k, step)
             \/ Retry(k) /\ UNCHANGED faults
      BY <1>13 DEF FindAddress, NewAddress, IsRecorded, PersistAddress, AddressSteps, Returns
    <2>2. CASE Retry(k) /\ UNCHANGED faults
      BY <1>1, <2>1, <2>2, <1>r, <1>q
    <2>3. ASSUME NEW step \in AddressSteps \cup {"persist"}, Continue(k, step) PROVE CreditInv'
      <3>1. UNCHANGED <<log, persisted>> /\ slot'[k].step = step /\ Utxo(k)' = Utxo(k)
        BY <2>3, <1>g DEF Steps
      <3>2. Credited(Utxo(k))'
        BY <2>1, <3>1, <1>1 DEF SlotCredit, Credited
      <3>3. SlotCredit(k)'
        BY <2>3, <3>1, <3>2
        DEF SlotCredit, LockedSteps, PendingSteps, CreditSteps, AddressSteps
      <3> QED BY <1>1, <2>1, <3>1, <3>3, <1>q
    <2> QED BY <2>1, <2>2, <2>3
  <1>14. CASE ReadAddressFails(k)
    <2>1. /\ slot[k].step = "readAddress" /\ Goes1(k, "record")
          /\ UNCHANGED <<lock, receipts, pendingReceives>>
      BY <1>14, ReadAddressFailsStep
    <2>2. UNCHANGED <<log, persisted>> /\ slot'[k].step = "record" /\ Utxo(k)' = Utxo(k)
      BY <2>1 DEF Goes1, Utxo, EventOf
    <2>3. SlotCredit(k)'
      BY <2>1, <2>2, <1>1 DEF SlotCredit, LockedSteps, CreditSteps, AddressSteps
    <2> QED BY <1>1, <2>1, <2>2, <2>3, <1>q
  <1> QED
    BY <1>4, <1>5, <1>6, <1>7, <1>8, <1>9, <1>10, <1>11, <1>12, <1>13, <1>14 DEF Moves, Handle

\* Slots that are given up or taken, and a log that grows, leave the others as they are.
LEMMA CreditStream ==
    ASSUME TypeInv, CreditInv, UNCHANGED <<receipts, pendingReceives>>,
           \A i \in 1..Len(log) : log'[i] = log[i],
           \A u \in Utxos : utxo[u] = "settled" => utxo'[u] = "settled",
           \A u \in Utxos : IsPersisted("settled", u)' => Credited(u),
           \A j \in Slots :
              \/ slot'[j].step \in {"idle", "handle"}
              \/ /\ slot'[j] = slot[j]
                 /\ slot[j].step \in LockedSteps /\ lock[Utxo(j)] = j => lock'[Utxo(j)] = j
    PROVE  CreditInv'
  <1>1. CreditedOnce'
    BY DEF CreditInv, CreditedOnce, Credited
  <1>2. ASSUME NEW j \in Slots PROVE SlotCredit(j)'
    <2>1. CASE slot'[j].step \in {"idle", "handle"}
      BY <2>1, CarefreeSlot
    <2>2. CASE slot'[j].step \notin {"idle", "handle"}
      <3>1. slot'[j] = slot[j] /\ slot[j].step # "idle" /\ SlotCredit(j)
        BY <2>2 DEF CreditInv
      <3>2. EventOf(j)' = EventOf(j) /\ Utxo(j)' = Utxo(j)
        BY <3>1, EventKept DEF Utxo
      <3>3. slot[j].step \in LockedSteps => lock'[Utxo(j)] = j
        BY <2>2, <3>1 DEF SlotCredit
      <3> QED BY <3>1, <3>2, <3>3 DEF SlotCredit, Credited, Handling, At
    <2> QED BY <2>1, <2>2
  <1> QED BY <1>1, <1>2 DEF CreditInv

LEMMA CreditNext ==
    ASSUME ~LockLoss, TypeInv, CreditInv, [Next]_vars
    PROVE  CreditInv'
  <1> USE DEF receiptVars, addressVars, receiveVars
  <1>t. /\ persisted \subseteq 1..Len(log) /\ log \in Seq(Events) /\ sent \in Nat
        /\ slot \in [Slots -> SlotStates(Steps)]
        /\ TypeOK /\ CreditedOnce
    BY SMT DEF TypeInv, StreamInv, StreamTypeOK, CreditInv
  <1>p. ASSUME \A i \in 1..Len(log) : log'[i] = log[i], UNCHANGED persisted
        PROVE  \A u \in Utxos : IsPersisted("settled", u)' => Credited(u)
    BY <1>p, <1>t DEF IsPersisted, CreditedOnce, Credited
  <1>1. ASSUME NEW k \in Slots, Moves(k) PROVE CreditInv'
    BY <1>1, CreditHandle
  <1>2. ASSUME NEW k \in Slots, HandlerError(k) PROVE CreditInv'
    <2>1. Ends(k) /\ Others(k) /\ UNCHANGED utxo
      BY <1>2, HandlerErrorType
    <2>2. UNCHANGED <<receipts, pendingReceives>> /\ Release(k)
      BY <1>2 DEF HandlerError
    <2>3. Quiet(k) /\ SlotCredit(k)'
      BY <2>1, <2>2, ReleaseStep, CarefreeSlot DEF Quiet, Ends
    <2> QED BY <2>3, QuietStep DEF CreditInv
  <1>3. ASSUME NEW u \in Utxos, Detect(u) \/ Drop(u) \/ Settle(u) PROVE CreditInv'
    <2>1. PICK from \in {"none", "detected"}, to \in EventTypes : BriaStep(u, from, to)
      BY <1>3 DEF Detect, Drop, Settle, EventTypes
    <2>2. /\ UNCHANGED <<slot, persisted, lock, receipts, pendingReceives>> /\ utxo[u] # "settled"
      BY <2>1 DEF BriaStep
    <2>3. /\ \A i \in 1..Len(log) : log'[i] = log[i]
          /\ \A v \in Utxos \ {u} : utxo'[v] = utxo[v]
      BY <2>1, BriaStepType
    <2>4. \A v \in Utxos : utxo[v] = "settled" => utxo'[v] = "settled"
      BY <2>2, <2>3
    <2> QED BY <2>2, <2>3, <2>4, <1>p, CreditStream
  <1>4. CASE Elsewhere
    <2>1. UNCHANGED <<log, slot, persisted, utxo>>
      BY <1>4, ElsewhereType
    <2>2. UNCHANGED <<receipts, pendingReceives>>
      BY <1>4 DEF Elsewhere, LockExpires, LoseLock, CreateOnChainAddress, vars
    <2>3. \A u \in Utxos : lock[u] \in Slots => lock'[u] = lock[u]
      BY <1>4, <1>t, ReceiveAssumption
      DEF Elsewhere, LockExpires, LoseLock, CreateOnChainAddress, vars, TypeOK
    <2>4. ASSUME NEW j \in Slots, slot[j].step \in LockedSteps PROVE Utxo(j) \in Utxos
      <3>1. slot[j].step # "idle"
        BY <2>4 DEF LockedSteps, PendingSteps, CreditSteps
      <3> QED BY <3>1, TakenEvent
    <2>5. \A j \in Slots :
            slot[j].step \in LockedSteps /\ lock[Utxo(j)] = j => lock'[Utxo(j)] = j
      BY <2>3, <2>4
    <2> QED BY <2>1, <2>2, <2>5, <1>p, CreditStream
  <1>5. CASE Stream
    <2>1. UNCHANGED <<receipts, pendingReceives, lock, utxo>>
      BY <1>5 DEF Stream
    <2>2. UNCHANGED log
      BY <1>5, StreamType
    <2>3. CASE \E k \in Slots : Persist(k)
      <3>1. PICK k \in Slots : Persist(k)
        BY <2>3
      <3>2. /\ Done(k) /\ persisted' = persisted \cup {slot[k].seq} /\ slot[k].step = "persist"
        BY <3>1 DEF Persist, At
      <3>3. \A j \in Slots : slot'[j] = slot[j] \/ slot'[j].step = "idle"
        BY <3>2, <1>t, DoneSlot
      <3>4. ASSUME NEW u \in Utxos, IsPersisted("settled", u)' PROVE Credited(u)
        <4>1. PICK i \in persisted' : log[i] = [type |-> "settled", of |-> u]
          BY <3>4, <2>2 DEF IsPersisted
        <4>2. CASE i \in persisted
          BY <4>1, <4>2, <1>t DEF IsPersisted, CreditedOnce, Credited
        <4>3. CASE i = slot[k].seq
          <5>1. Handling(k, "settled") /\ Utxo(k) = u
            BY <4>1, <4>3, SMT DEF Handling, EventOf, Utxo
          <5> QED BY <3>2, <5>1 DEF CreditInv, SlotCredit, At
        <4> QED BY <3>2, <4>1, <4>2, <4>3
      <3> QED BY <2>1, <2>2, <3>3, <3>4, CreditStream
    <2>4. CASE \E k \in Slots : Deliver(k) \/ PersistFails(k)
      <3>1. \A j \in Slots : slot'[j] = slot[j] \/ slot'[j].step \in {"idle", "handle"}
        BY <2>4, <1>t, DeliverSlot, DoneSlot DEF PersistFails, Retry
      <3>2. UNCHANGED persisted
        BY <2>4 DEF Deliver, PersistFails, Retry
      <3> QED BY <2>1, <2>2, <3>1, <3>2, <1>p, CreditStream
    <2>5. CASE StreamFails \/ Refresh \/ Connect
      <3>1. UNCHANGED <<slot, persisted>>
        BY <2>5 DEF StreamFails, Refresh, Connect
      <3> QED BY <2>1, <2>2, <3>1, <1>p, CreditStream
    <2> QED BY <1>5, <2>3, <2>4, <2>5 DEF Stream
  <1>6. CASE Stop
    <2>1. UNCHANGED <<log, utxo, receipts, pendingReceives, persisted>>
      BY <1>6 DEF Stop, Crash
    <2>2. \A j \in Slots : slot'[j].step = "idle"
      BY <1>6, CrashSlots DEF Stop
    <2> QED BY <2>1, <2>2, <1>p, CreditStream
  <1> QED BY <1>1, <1>2, <1>3, <1>4, <1>5, <1>6 DEF Next, Moves, Elsewhere

\* However many handlers run at the same time, and however often the events are delivered
\* again after errors, stops and lost connections, an output that Bria has settled is
\* credited at most once, and is credited and no longer pending when its event is
\* persisted: isOnChainReceiptTxRecordedForWallet under the lock of the output.  No lock is
\* lost by a handler that still runs; the locks of a process that stopped expire.
THEOREM ReceiptsOnce == ASSUME ~LockLoss PROVE Spec => []CreditedOnce
  <1>1. Init => TypeInv /\ CreditInv
    <2> SUFFICES ASSUME Init PROVE CreditInv
      BY TypeInit
    <2>1. \A k \in Slots : slot[k].step = "idle"
      BY DEF Init, StreamInit, Free
    <2>2. \A k \in Slots : SlotCredit(k)
      BY <2>1 DEF SlotCredit, LockedSteps, PendingSteps, CreditSteps, AddressSteps, At
    <2>3. CreditedOnce
      BY SMT DEF Init, StreamInit, CreditedOnce, IsPersisted
    <2> QED BY <2>2, <2>3 DEF CreditInv
  <1>2. TypeInv /\ CreditInv /\ [Next]_vars => TypeInv' /\ CreditInv'
    BY TypeNext, CreditNext
  <1>3. CreditInv => CreditedOnce
    BY DEF CreditInv
  <1> QED BY <1>1, <1>2, <1>3, PTL DEF Spec

-----------------------------------------------------------------------------
(***************************************************************************)
(* The addresses of the wallet.                                            *)
(***************************************************************************)
Rotated == Len(addresses) > 1

\* The first address is the current one until another one is there.
AddressList ==
    /\ Len(addresses) >= 1 /\ addresses[1] = First
    /\ \A i \in 2..Len(addresses) : addresses[i] # First

\* A new address is asked for when the first one is the current one: a receipt without a
\* request id, and a handler that asks for none, follow a second address, or an error when
\* the current one was read.
Renewed(u) == Rotated \/ u \in unread

SlotRotates(k) ==
    /\ slot[k].step \in {"record", "remove"} /\ ~request[k] => Renewed(Utxo(k))
    /\ At(k, "persist") /\ Handling(k, "settled") => Renewed(Utxo(k))

AddressInv ==
    /\ AddressList
    /\ \A u \in Utxos : receipts[u] > 0 /\ u \notin requested => Renewed(u)
    /\ \A k \in Slots : SlotRotates(k)
    /\ \A u \in Utxos : IsPersisted("settled", u) => Renewed(u)

\* An address that is added is not the first one.
AddressesGrow ==
    \/ UNCHANGED addresses
    \/ \E x \in Utxos \cup {Own} : addresses' = Append(addresses, x)

LEMMA GrowStep ==
    ASSUME TypeInv, AddressList, AddressesGrow
    PROVE  AddressList' /\ (Rotated => Rotated') /\ (addresses' # addresses => Rotated')
  <1>1. CASE UNCHANGED addresses
    BY <1>1 DEF AddressList, Rotated
  <1>2. ASSUME NEW x \in Utxos \cup {Own}, addresses' = Append(addresses, x)
        PROVE  AddressList' /\ Rotated'
    <2>1. addresses \in Seq(Utxos \cup {First, Own}) /\ x # First
      BY ReceiveAssumption DEF TypeInv, TypeOK
    <2>2. Len(addresses') = Len(addresses) + 1 /\ addresses'[Len(addresses) + 1] = x
      BY <1>2, <2>1, SMT
    <2>3. \A i \in 1..Len(addresses) : addresses'[i] = addresses[i]
      BY <1>2, <2>1, SMT
    <2>4. Len(addresses) \in Nat
      BY <2>1, SMT
    <2> QED BY <2>1, <2>2, <2>3, <2>4, SMT DEF AddressList, Rotated
  <1> QED BY <1>1, <1>2 DEF AddressesGrow

\* A wallet that has the address of an output has a second one.
LEMMA HasRotated ==
    ASSUME TypeInv, AddressList, NEW u \in Utxos, u \in Range(addresses)
    PROVE  Rotated
  <1>1. Len(addresses) \in Nat
    BY SMT DEF TypeInv, TypeOK
  <1>2. u # First
    BY ReceiveAssumption
  <1> QED BY <1>1, <1>2, SMT DEF AddressList, Range, Rotated

\* Whether the first address is the current one.
LEMMA LastFirst ==
    ASSUME TypeInv, AddressList
    PROVE  FindLastByWalletId = First <=> ~Rotated
  <1>1. Len(addresses) \in Nat
    BY SMT DEF TypeInv, TypeOK
  <1> QED BY <1>1, SMT DEF AddressList, Rotated, FindLastByWalletId

LEMMA CarefreeAddress ==
    ASSUME NEW k \in Slots,
           \/ slot'[k].step \notin {"record", "remove", "persist"}
           \/ slot'[k].step = "persist" /\ ~Handling(k, "settled")'
           \/ Rotated'
    PROVE  SlotRotates(k)'
  BY DEF SlotRotates, At, Renewed

LEMMA AddressHandle ==
    ASSUME TypeInv, AddressInv, NEW k \in Slots, Moves(k)
    PROVE  AddressInv'
  <1> USE DEF receiptVars, addressVars, receiveVars, At
  <1>1. /\ slot[k].step # "idle" /\ Others(k) /\ UNCHANGED <<log, persisted>>
        /\ slot'[k].step # "idle" => slot'[k].seq = slot[k].seq
    BY HandleType DEF Ends, Goes1
  <1>2. Utxo(k) \in Utxos /\ EventOf(k).type \in EventTypes
    BY <1>1, TakenEvent
  <1>3. /\ slot[k].step \in PendingSteps => Handling(k, "detected")
        /\ slot[k].step \in CreditSteps \cup {"remove"} \cup AddressSteps => Handling(k, "settled")
        /\ TypeOK /\ AddressList /\ SlotRotates(k)
        /\ \A u \in Utxos : IsPersisted("settled", u) => Renewed(u)
    BY DEF TypeInv, StepsInv, AddressInv
  <1>4. slot'[k].step # "idle" => EventOf(k)' = EventOf(k) /\ Utxo(k)' = Utxo(k)
    BY <1>1 DEF EventOf, Utxo
  <1>e. unread \subseteq unread' /\ (Handle(k) => UNCHANGED unread)
    BY DEF Moves, ReadAddressFails, Handle, AcquireLock, LockUnavailable, CheckPending,
       PersistPending, UtxoDropped, CheckRecorded, ReadAddress, Record, RemovePending,
       FindAddress, NewAddress, IsRecorded, PersistAddress
  \* What is left to show of a step.
  <1>g. ASSUME AddressesGrow, SlotRotates(k)',
               \A j \in Slots \ {k} : request'[j] = request[j],
               \A u \in Utxos : receipts'[u] > 0 /\ u \notin requested' => Renewed(u)
        PROVE  AddressInv'
    <2>1. AddressList' /\ \A u : Renewed(u) => Rotated' \/ u \in unread'
      BY <1>g, <1>3, <1>e, GrowStep DEF Renewed
    <2>2. ASSUME NEW j \in Slots \ {k} PROVE SlotRotates(j)'
      <3>1. slot'[j] = slot[j] /\ EventOf(j)' = EventOf(j) /\ Utxo(j)' = Utxo(j) /\ SlotRotates(j)
        BY <1>1 DEF Others, EventOf, Utxo, AddressInv
      <3>2. Renewed(Utxo(j)) => Renewed(Utxo(j))'
        BY <2>1, <3>1 DEF Renewed
      <3> QED BY <3>1, <3>2, <1>g, Zenon DEF SlotRotates, Handling
    <2>3. \A u \in Utxos : IsPersisted("settled", u)' => Renewed(u)'
      BY <2>1, <1>1, <1>3 DEF IsPersisted, Renewed
    <2>4. \A u \in Utxos : receipts'[u] > 0 /\ u \notin requested' => Renewed(u)'
      BY <1>g, <2>1 DEF Renewed
    <2> QED BY <1>g, <2>1, <2>2, <2>3, <2>4 DEF AddressInv
  <1>h. ASSUME AddressesGrow, SlotRotates(k)', UNCHANGED <<request, receipts, requested>>
        PROVE  AddressInv'
    BY <1>h, <1>g DEF AddressInv
  <1>u. UNCHANGED addresses =>
          AddressesGrow /\ (Rotated => Rotated') /\ \A u : Renewed(u) => Rotated' \/ u \in unread'
    BY <1>e DEF AddressesGrow, Rotated, Renewed
  <1>w. UNCHANGED addresses /\ slot'[k].step # "idle" /\ Renewed(Utxo(k)) => Renewed(Utxo(k))'
    BY <1>u, <1>4 DEF Renewed
  <1>c. ASSUME NEW step \in Steps \cup {"persist"}, Continue(k, step) PROVE slot'[k].step = step
    BY <1>1, <1>c, ContinueStep DEF Goes1
  <1>5. CASE AcquireLock(k) \/ LockUnavailable(k) \/ UtxoDropped(k)
    <2>1. UNCHANGED <<addresses, request, receipts, requested>>
      BY <1>5 DEF AcquireLock, LockUnavailable, UtxoDropped
    <2>2. \/ slot'[k].step \in {"idle", "checkPending", "checkRecorded"}
          \/ slot'[k].step = "persist" /\ EventOf(k).type = "dropped"
      <3>1. CASE AcquireLock(k)
        BY <3>1, <1>c DEF AcquireLock, Steps, LockedSteps, PendingSteps, CreditSteps
      <3>2. CASE LockUnavailable(k)
        <4>1. Retry(k) /\ faults' \in 0..MaxFaults
          BY <3>2 DEF LockUnavailable, TypeInv, StreamInv, StreamTypeOK
        <4> QED BY <4>1, <1>1, RetryStep DEF Ends
      <3>3. CASE UtxoDropped(k)
        BY <3>3, <1>c DEF UtxoDropped, Returns, Handling
      <3> QED BY <1>5, <3>1, <3>2, <3>3
    <2>3. SlotRotates(k)'
      BY <2>2, <1>4, CarefreeAddress DEF Handling
    <2> QED BY <2>1, <2>3, <1>h, <1>u
  <1>6. CASE CheckPending(k) \/ PersistPending(k)
    <2>1. UNCHANGED <<addresses, request, receipts, requested>> /\ EventOf(k).type = "detected"
      BY <1>6, <1>3 DEF CheckPending, PersistPending, PendingSteps, Handling
    <2>2. slot'[k].step \in {"persist", "persistPending"}
      BY <1>6, <1>c DEF CheckPending, PersistPending, Returns, Steps, LockedSteps, PendingSteps
    <2>3. SlotRotates(k)'
      BY <2>1, <2>2, <1>4, CarefreeAddress DEF Handling
    <2> QED BY <2>1, <2>3, <1>h, <1>u
  <1>7. CASE CheckRecorded(k)
    <2>1. UNCHANGED <<addresses, receipts, requested>>
      BY <1>7 DEF CheckRecorded
    <2>2. CASE receipts[Utxo(k)] > 0
      <3>1. /\ request' = [request EXCEPT ![k] = Utxo(k) \in requested]
            /\ slot'[k].step = "remove"
        BY <1>7, <2>2, <1>c DEF CheckRecorded, Steps
      <3>2. request'[k] <=> Utxo(k) \in requested
        BY <3>1, <1>3, Zenon DEF TypeOK
      <3>3. \A j \in Slots \ {k} : request'[j] = request[j]
        BY <3>1, <1>3 DEF TypeOK
      <3>4. Utxo(k) \notin requested => Renewed(Utxo(k))
        BY <2>2, <1>2 DEF AddressInv
      <3>5. SlotRotates(k)'
        <4>1. request'[k] \/ Renewed(Utxo(k))'
          BY <2>1, <3>1, <3>2, <3>4, <1>w
        <4> QED BY <3>1, <4>1 DEF SlotRotates
      <3> QED BY <2>1, <3>3, <3>5, <1>g, <1>u DEF AddressInv
    <2>3. CASE ~(receipts[Utxo(k)] > 0)
      <3>1. UNCHANGED request /\ slot'[k].step = "readAddress"
        BY <1>7, <2>3, <1>c DEF CheckRecorded, Steps, LockedSteps, CreditSteps
      <3> QED BY <2>1, <3>1, <1>h, <1>u, CarefreeAddress
    <2> QED BY <2>2, <2>3
  <1>8. CASE ReadAddress(k)
    <2>1. /\ UNCHANGED <<addresses, receipts, requested>> /\ slot'[k].step = "record"
          /\ request' = [request EXCEPT ![k] = FindLastByWalletId = First]
      BY <1>8, <1>c DEF ReadAddress, Steps, LockedSteps, CreditSteps
    <2>2. request'[k] <=> FindLastByWalletId = First
      BY <2>1, <1>3, Zenon DEF TypeOK
    <2>3. \A j \in Slots \ {k} : request'[j] = request[j]
      BY <2>1, <1>3 DEF TypeOK
    <2>4. request'[k] \/ Rotated'
      BY <2>1, <2>2, <1>3, <1>u, LastFirst
    <2>5. SlotRotates(k)'
      BY <2>1, <2>4 DEF SlotRotates, Renewed
    <2> QED BY <2>1, <2>3, <2>5, <1>g, <1>u DEF AddressInv
  <1>9. CASE Record(k)
    <2>1. /\ UNCHANGED <<addresses, request>> /\ slot'[k].step = "remove" /\ slot[k].step = "record"
          /\ receipts' = [receipts EXCEPT ![Utxo(k)] = @ + 1]
      BY <1>9, <1>c DEF Record, Steps
    <2>2. requested' = IF request[k] THEN requested \cup {Utxo(k)} ELSE requested
      BY <1>9 DEF Record
    <2>3. request[k] \/ Renewed(Utxo(k))
      BY <2>1, <1>3 DEF SlotRotates
    <2>4. SlotRotates(k)'
      <3>1. request'[k] \/ Renewed(Utxo(k))'
        BY <2>1, <2>3, <1>w, Zenon
      <3> QED BY <2>1, <3>1 DEF SlotRotates
    <2>5. ASSUME NEW u \in Utxos, receipts'[u] > 0, u \notin requested' PROVE Renewed(u)
      <3>1. u = Utxo(k) => Renewed(u)
        BY <2>2, <2>3, <2>5, Zenon
      <3>2. u # Utxo(k) => receipts[u] > 0 /\ u \notin requested
        BY <2>1, <2>2, <2>5, <1>3 DEF TypeOK
      <3> QED BY <3>1, <3>2 DEF AddressInv
    <2> QED BY <2>1, <2>4, <2>5, <1>g, <1>u
  <1>10. CASE RemovePending(k)
    <2>1. UNCHANGED <<addresses, request, receipts, requested>> /\ slot[k].step = "remove"
      BY <1>10 DEF RemovePending
    <2>2. Continue(k, IF request[k] THEN "findAddress" ELSE "persist")
      BY <1>10 DEF RemovePending
    <2>3. CASE request[k]
      <3>1. slot'[k].step = "findAddress"
        BY <2>2, <2>3, <1>c DEF Steps, AddressSteps
      <3> QED BY <2>1, <3>1, <1>h, <1>u, CarefreeAddress
    <2>4. CASE ~request[k]
      <3>1. Renewed(Utxo(k)) /\ slot'[k].step = "persist"
        BY <2>1, <2>2, <2>4, <1>3, <1>c DEF SlotRotates
      <3>2. SlotRotates(k)'
        BY <2>1, <3>1, <1>w DEF SlotRotates
      <3> QED BY <2>1, <3>2, <1>h, <1>u
    <2> QED BY <2>3, <2>4
  <1>11. CASE FindAddress(k) \/ NewAddress(k)
    <2>1. UNCHANGED <<addresses, request, receipts, requested>>
      BY <1>11 DEF FindAddress, NewAddress
    <2>2. slot'[k].step \in {"isRecorded", "newAddress", "idle"}
      <3>1. \/ \E step \in {"isRecorded", "newAddress"} : Continue(k, step)
            \/ Retry(k) /\ UNCHANGED faults
        BY <1>11 DEF FindAddress, NewAddress
      <3>2. CASE Retry(k) /\ UNCHANGED faults
        <4>1. faults' \in 0..MaxFaults
          BY <3>2 DEF TypeInv, StreamInv, StreamTypeOK
        <4> QED BY <3>2, <4>1, <1>1, RetryStep DEF Ends
      <3> QED BY <3>1, <3>2, <1>c DEF Steps, AddressSteps
    <2> QED BY <2>1, <2>2, <1>h, <1>u, CarefreeAddress
  <1>12. CASE IsRecorded(k)
    <2>1. UNCHANGED <<addresses, request, receipts, requested>>
      BY <1>12 DEF IsRecorded
    <2>2. CASE Utxo(k) \in Range(addresses)
      <3>1. Rotated'
        BY <2>1, <2>2, <1>2, <1>3, <1>u, HasRotated
      <3> QED BY <2>1, <3>1, <1>h, <1>u, CarefreeAddress
    <2>3. CASE Utxo(k) \notin Range(addresses)
      <3>1. slot'[k].step = "persistAddress"
        BY <1>12, <2>3, <1>c DEF IsRecorded, Steps, AddressSteps
      <3> QED BY <2>1, <3>1, <1>h, <1>u, CarefreeAddress
    <2> QED BY <2>2, <2>3
  <1>13. CASE PersistAddress(k)
    <2>1. UNCHANGED <<request, receipts, requested>> /\ addresses' = Append(addresses, Utxo(k))
      BY <1>13 DEF PersistAddress
    <2>2. AddressesGrow
      BY <2>1, <1>2 DEF AddressesGrow
    <2>3. Rotated'
      <3>1. Len(addresses') = Len(addresses) + 1 /\ Len(addresses) \in Nat
        BY <2>1, <1>3, SMT DEF TypeOK
      <3> QED BY <3>1, <1>3, SMT DEF Rotated, AddressList
    <2> QED BY <2>1, <2>2, <2>3, <1>h, CarefreeAddress
  <1>14. CASE ReadAddressFails(k)
    <2>1. /\ UNCHANGED <<addresses, receipts, requested>> /\ slot'[k].step = "record"
          /\ request' = [request EXCEPT ![k] = FALSE] /\ unread' = unread \cup {Utxo(k)}
      BY <1>14, ReadAddressFailsStep DEF Goes1
    <2>2. \A j \in Slots \ {k} : request'[j] = request[j]
      BY <2>1, <1>3 DEF TypeOK
    <2>3. SlotRotates(k)'
      BY <2>1, <1>4 DEF SlotRotates, Renewed
    <2> QED BY <2>1, <2>2, <2>3, <1>g, <1>u DEF AddressInv
  <1> QED
    BY <1>5, <1>6, <1>7, <1>8, <1>9, <1>10, <1>11, <1>12, <1>13, <1>14 DEF Moves, Handle

\* Slots that are given up or taken, and a log that grows.
LEMMA AddressStream ==
    ASSUME TypeInv, AddressInv, AddressesGrow, UNCHANGED <<receipts, requested, request, unread>>,
           \A i \in 1..Len(log) : log'[i] = log[i],
           \A u \in Utxos : IsPersisted("settled", u)' => Renewed(u),
           \A j \in Slots : slot'[j].step \in {"idle", "handle"} \/ slot'[j] = slot[j]
    PROVE  AddressInv'
  <1>1. AddressList' /\ \A u : Renewed(u) => Rotated' \/ u \in unread'
    BY GrowStep DEF AddressInv, Renewed
  <1>2. ASSUME NEW j \in Slots PROVE SlotRotates(j)'
    <2>1. CASE slot'[j].step \in {"idle", "handle"}
      BY <2>1, CarefreeAddress
    <2>2. CASE slot'[j].step \notin {"idle", "handle"}
      <3>1. slot'[j] = slot[j] /\ slot[j].step # "idle" /\ SlotRotates(j)
        BY <2>2 DEF AddressInv
      <3>2. EventOf(j)' = EventOf(j) /\ Utxo(j)' = Utxo(j)
        BY <3>1, EventKept DEF Utxo
      <3>3. Renewed(Utxo(j)) => Renewed(Utxo(j))'
        BY <3>2, <1>1 DEF Renewed
      <3> QED BY <3>1, <3>2, <3>3, Zenon DEF SlotRotates, Handling, At
    <2> QED BY <2>1, <2>2
  <1> QED BY <1>1, <1>2 DEF AddressInv, Renewed

LEMMA AddressNext ==
    ASSUME TypeInv, AddressInv, [Next]_vars
    PROVE  AddressInv'
  <1> USE DEF receiptVars, addressVars, receiveVars
  <1>t. /\ persisted \subseteq 1..Len(log) /\ sent \in Nat
        /\ slot \in [Slots -> SlotStates(Steps)]
        /\ \A u \in Utxos : IsPersisted("settled", u) => Renewed(u)
    BY SMT DEF TypeInv, StreamInv, StreamTypeOK, AddressInv
  <1>p. ASSUME \A i \in 1..Len(log) : log'[i] = log[i], UNCHANGED persisted
        PROVE  \A u \in Utxos : IsPersisted("settled", u)' => Renewed(u)
    BY <1>p, <1>t DEF IsPersisted
  <1>u. UNCHANGED addresses => AddressesGrow
    BY DEF AddressesGrow
  <1>1. ASSUME NEW k \in Slots, Moves(k) PROVE AddressInv'
    BY <1>1, AddressHandle
  <1>2. ASSUME NEW k \in Slots, HandlerError(k) PROVE AddressInv'
    <2>1. Ends(k) /\ Others(k)
      BY <1>2, HandlerErrorType
    <2>2. UNCHANGED <<receipts, requested, request, unread, addresses>>
      BY <1>2 DEF HandlerError
    <2> QED BY <2>1, <2>2, <1>p, <1>u, AddressStream DEF Ends, Others
  <1>3. ASSUME NEW u \in Utxos, Detect(u) \/ Drop(u) \/ Settle(u) PROVE AddressInv'
    <2>1. PICK from \in {"none", "detected"}, to \in EventTypes : BriaStep(u, from, to)
      BY <1>3 DEF Detect, Drop, Settle, EventTypes
    <2>2. UNCHANGED <<slot, persisted, receipts, requested, request, unread, addresses>>
      BY <2>1 DEF BriaStep
    <2>3. \A i \in 1..Len(log) : log'[i] = log[i]
      BY <2>1, BriaStepType
    <2> QED BY <2>2, <2>3, <1>p, <1>u, AddressStream
  <1>4. CASE Elsewhere
    <2>1. UNCHANGED <<log, slot, persisted>>
      BY <1>4, ElsewhereType
    <2>2. UNCHANGED <<receipts, requested, request, unread>> /\ AddressesGrow
      BY <1>4 DEF Elsewhere, LockExpires, LoseLock, CreateOnChainAddress, vars, AddressesGrow
    <2> QED BY <2>1, <2>2, <1>p, AddressStream
  <1>5. CASE Stream
    <2>1. UNCHANGED <<receipts, requested, request, unread, addresses>>
      BY <1>5 DEF Stream
    <2>2. UNCHANGED log
      BY <1>5, StreamType
    <2>3. CASE \E k \in Slots : Persist(k)
      <3>1. PICK k \in Slots : Persist(k)
        BY <2>3
      <3>2. /\ Done(k) /\ persisted' = persisted \cup {slot[k].seq} /\ slot[k].step = "persist"
        BY <3>1 DEF Persist, At
      <3>3. \A j \in Slots : slot'[j] = slot[j] \/ slot'[j].step = "idle"
        BY <3>2, <1>t, DoneSlot
      <3>4. ASSUME NEW u \in Utxos, IsPersisted("settled", u)' PROVE Renewed(u)
        <4>1. PICK i \in persisted' : log[i] = [type |-> "settled", of |-> u]
          BY <3>4, <2>2 DEF IsPersisted
        <4>2. CASE i \in persisted
          BY <4>1, <4>2, <1>t DEF IsPersisted
        <4>3. CASE i = slot[k].seq
          <5>1. Handling(k, "settled") /\ Utxo(k) = u
            BY <4>1, <4>3, SMT DEF Handling, EventOf, Utxo
          <5> QED BY <3>2, <5>1 DEF AddressInv, SlotRotates, At
        <4> QED BY <3>2, <4>1, <4>2, <4>3
      <3> QED BY <2>1, <2>2, <3>3, <3>4, <1>u, AddressStream
    <2>4. CASE \E k \in Slots : Deliver(k) \/ PersistFails(k)
      <3>1. \A j \in Slots : slot'[j] = slot[j] \/ slot'[j].step \in {"idle", "handle"}
        BY <2>4, <1>t, DeliverSlot, DoneSlot DEF PersistFails, Retry
      <3>2. UNCHANGED persisted
        BY <2>4 DEF Deliver, PersistFails, Retry
      <3> QED BY <2>1, <2>2, <3>1, <3>2, <1>p, <1>u, AddressStream
    <2>5. CASE StreamFails \/ Refresh \/ Connect
      <3>1. UNCHANGED <<slot, persisted>>
        BY <2>5 DEF StreamFails, Refresh, Connect
      <3> QED BY <2>1, <2>2, <3>1, <1>p, <1>u, AddressStream
    <2> QED BY <1>5, <2>3, <2>4, <2>5 DEF Stream
  <1>6. CASE Stop
    <2>1. UNCHANGED <<log, receipts, requested, request, unread, addresses, persisted>>
      BY <1>6 DEF Stop, Crash
    <2>2. \A j \in Slots : slot'[j].step = "idle"
      BY <1>6, CrashSlots DEF Stop
    <2> QED BY <2>1, <2>2, <1>p, <1>u, AddressStream
  <1> QED BY <1>1, <1>2, <1>3, <1>4, <1>5, <1>6 DEF Next, Moves, Elsewhere

\* With any number of handlers at the same time, with errors and stops between the record
\* of a receipt and the new address, and even when locks are lost, the address that was
\* paid is not the current one once the event of the receipt is persisted, unless
\* getLastOnChainAddress failed when the receipt was recorded.
THEOREM PaidAddressRotated == Spec => []AddressRotated
  <1>1. Init => TypeInv /\ AddressInv
    <2> SUFFICES ASSUME Init PROVE AddressInv
      BY TypeInit
    <2>1. \A k \in Slots : slot[k].step = "idle"
      BY DEF Init, StreamInit, Free
    <2> QED BY <2>1, SMT
        DEF Init, StreamInit, AddressInv, AddressList, SlotRotates, At, IsPersisted
  <1>2. TypeInv /\ AddressInv /\ [Next]_vars => TypeInv' /\ AddressInv'
    BY TypeNext, AddressNext
  <1>3. TypeInv /\ AddressInv => AddressRotated
    BY LastFirst DEF AddressInv, AddressRotated, Renewed
  <1> QED BY <1>1, <1>2, <1>3, PTL DEF Spec

===============================================================================
