--------------------------- MODULE BriaStreamProofs ---------------------------
(***************************************************************************)
(* What every use of the stream keeps, with any number of handlers at the  *)
(* same time: the types of its variables, and that no event is skipped     *)
(* unless it was overtaken.                                                *)
(***************************************************************************)
EXTENDS BriaStream, TLAPS

-----------------------------------------------------------------------------
(***************************************************************************)
(* getLatestSequence.                                                      *)
(***************************************************************************)
\* Of the events that are persisted one is the last.
HasLatest == \E m \in persisted \cup {0} : \A i \in persisted : i <= m

\* The last event that was persisted, or the beginning of the log.
LEMMA LatestSequenceType ==
    ASSUME NEW n \in Nat, persisted \subseteq 1..n, HasLatest
    PROVE  /\ LatestSequence \in persisted \cup {0}
           /\ LatestSequence \in 0..n
           /\ \A i \in persisted : i <= LatestSequence
  <1> DEFINE S == persisted \cup {0}
  <1>1. \E x \in S : \A y \in S : x >= y
    BY DEF HasLatest
  <1>2. LatestSequence \in S /\ \A y \in S : LatestSequence >= y
    BY <1>1 DEF LatestSequence, Max
  <1> QED BY <1>2

-----------------------------------------------------------------------------
(***************************************************************************)
(* The steps of the stream, whatever the handlers do and the events are.   *)
(***************************************************************************)
\* The steps of a handler are those of the stream and some of its own.
StepsOf(Steps) == {"idle", "handle", "persist"} \cup Steps

\* The step of a slot that is taken is never "idle".
HandlerGoes(k, Steps) ==
    /\ slot[k] # Free
    /\ \E step \in StepsOf(Steps) \ {"idle"} : Step(k, step)
    /\ UNCHANGED <<log, connection, persisted>>

StreamMove(Events, Steps) ==
    /\ faults' \in 0..MaxFaults
    /\ \/ \E e \in Events : Emit(e) /\ UNCHANGED <<connection, slot, persisted>>
       \/ \E k \in Slots : HandlerGoes(k, Steps) \/ (slot[k] # Free /\ Retry(k))
       \/ \E k \in Slots : Deliver(k) \/ Persist(k)
       \/ StreamFails \/ Refresh \/ Connect \/ Crash
       \/ UNCHANGED <<log, connection, slot, persisted>>

SlotStates(Steps) == [seq : Nat, step : StepsOf(Steps)]
StreamInv(Events, Steps) ==
    /\ StreamTypeOK
    /\ log \in Seq(Events)
    /\ slot \in [Slots -> SlotStates(Steps)]
    /\ HasLatest

LEMMA StreamInvInit ==
    ASSUME NEW Events, NEW Steps, StreamInit
    PROVE  StreamInv(Events, Steps)
  <1>1. Free \in SlotStates(Steps) /\ Free.seq = 0 /\ Free.step = "idle"
    BY DEF Free, SlotStates, StepsOf
  <1>2. \A k \in Slots : slot[k] = Free
    BY DEF StreamInit
  <1>3. Len(log) = 0 /\ log \in Seq(Events)
    BY DEF StreamInit
  <1>4. slot \in [Slots -> SlotStates(Steps)]
    BY <1>1 DEF StreamInit
  <1>5. refreshing \in BOOLEAN
    BY Zenon DEF StreamInit
  <1>6. StreamTypeOK
    BY <1>1, <1>2, <1>3, <1>5, StreamAssumption DEF StreamInit, StreamTypeOK, At
  <1>7. HasLatest
    BY DEF StreamInit, HasLatest
  <1> QED BY <1>3, <1>4, <1>6, <1>7 DEF StreamInv

\* Bria numbers its events once and for all.
LEMMA EmitStep ==
    ASSUME NEW Events, NEW e \in Events, log \in Seq(Events), Emit(e)
    PROVE  /\ log' \in Seq(Events)
           /\ Len(log') = Len(log) + 1 /\ Len(log') <= MaxLog
           /\ \A i \in 1..Len(log) : log'[i] = log[i]
           /\ log'[Len(log')] = e
  BY StreamAssumption DEF Emit

\* A taken slot handles an event of the log.
LEMMA TakenSlot ==
    ASSUME NEW Events, NEW Steps, StreamInv(Events, Steps), NEW k \in Slots
    PROVE  /\ slot[k] # Free <=> slot[k].seq \in 1..Len(log)
           /\ slot[k] # Free <=> slot[k].step # "idle"
           /\ slot[k] # Free => EventOf(k) \in Events
  <1>1. slot[k] \in [seq : Nat, step : StepsOf(Steps)] /\ Len(log) \in Nat
    BY DEF StreamInv, SlotStates
  <1>2. slot[k].seq \in 0..Len(log) /\ (slot[k].seq = 0 <=> slot[k].step = "idle")
    BY DEF StreamInv, StreamTypeOK, At
  <1>3. slot[k] = Free <=> slot[k].seq = 0 /\ slot[k].step = "idle"
    BY <1>1 DEF Free
  <1> QED BY <1>1, <1>2, <1>3 DEF EventOf, StreamInv

\* A handler that goes on, one that ends, and one that starts; no other slot changes.
LEMMA StepSlot ==
    ASSUME NEW Steps, slot \in [Slots -> SlotStates(Steps)], NEW k \in Slots,
           NEW step \in StepsOf(Steps), Step(k, step)
    PROVE  /\ slot' \in [Slots -> SlotStates(Steps)]
           /\ slot'[k].seq = slot[k].seq /\ slot'[k].step = step
           /\ \A j \in Slots \ {k} : slot'[j] = slot[j]
  BY DEF Step, SlotStates, StepsOf

LEMMA DoneSlot ==
    ASSUME NEW Steps, slot \in [Slots -> SlotStates(Steps)], NEW k \in Slots, Done(k)
    PROVE  /\ slot' \in [Slots -> SlotStates(Steps)]
           /\ slot'[k] = Free /\ slot'[k].seq = 0 /\ slot'[k].step = "idle"
           /\ \A j \in Slots \ {k} : slot'[j] = slot[j]
  BY DEF Done, Free, SlotStates, StepsOf

LEMMA DeliverSlot ==
    ASSUME NEW Steps, slot \in [Slots -> SlotStates(Steps)], NEW k \in Slots, sent \in Nat, Deliver(k)
    PROVE  /\ slot' \in [Slots -> SlotStates(Steps)]
           /\ slot'[k].seq = sent + 1 /\ slot'[k].step = "handle"
           /\ \A j \in Slots \ {k} : slot'[j] = slot[j]
  BY DEF Deliver, SlotStates, StepsOf

LEMMA CrashSlots ==
    ASSUME NEW Steps, Crash
    PROVE  /\ slot' \in [Slots -> SlotStates(Steps)]
           /\ \A k \in Slots : slot'[k] = Free /\ slot'[k].seq = 0 /\ slot'[k].step = "idle"
  BY DEF Crash, Free, SlotStates, StepsOf

LEMMA StreamInvNext ==
    ASSUME NEW Events, NEW Steps, StreamInv(Events, Steps), StreamMove(Events, Steps)
    PROVE  StreamInv(Events, Steps)'
  <1>t. /\ log \in Seq(Events) /\ Len(log) \in Nat /\ Len(log) <= MaxLog
        /\ after \in 0..Len(log) /\ sent \in 0..Len(log)
        /\ link \in {"connected", "waiting"} /\ refreshing \in BOOLEAN
        /\ slot \in [Slots -> SlotStates(Steps)]
        /\ \A k \in Slots : slot[k].seq \in 0..Len(log)
        /\ \A k \in Slots : slot[k].seq = 0 <=> slot[k].step = "idle"
        /\ persisted \subseteq 1..Len(log) /\ HasLatest
        /\ overtaken \subseteq 1..Len(log) /\ doubled \subseteq 1..Len(log)
        /\ faults' \in 0..MaxFaults
    BY DEF StreamInv, StreamMove, StreamTypeOK, At
  <1>k. ASSUME NEW k \in Slots PROVE slot[k] # Free <=> slot[k].seq \in 1..Len(log)
    BY TakenSlot
  <1>f. ASSUME NEW k \in Slots PROVE slot[k] # Free <=> slot[k].step # "idle"
    BY TakenSlot
  <1>l. HasLatest'
    <2>1. CASE UNCHANGED persisted
      BY <2>1, <1>t DEF HasLatest
    <2>2. CASE \E k \in Slots : Persist(k)
      <3>1. PICK n \in 0..Len(log) : persisted' = persisted \cup {n}
        BY <2>2, <1>t DEF Persist
      <3>2. PICK m \in persisted \cup {0} : \A i \in persisted : i <= m
        BY <1>t DEF HasLatest
      <3>3. CASE n <= m
        BY <3>1, <3>2, <3>3, <1>t DEF HasLatest
      <3>4. CASE m <= n
        BY <3>1, <3>2, <3>4, <1>t DEF HasLatest
      <3> QED BY <3>1, <3>2, <3>3, <3>4, <1>t
    <2> QED
      BY <2>1, <2>2 DEF StreamMove, HandlerGoes, Retry, Deliver, StreamFails, Refresh, Connect, Crash
  <1>o. overtaken' \subseteq 1..Len(log') /\ doubled' \subseteq 1..Len(log')
    <2>1. CASE UNCHANGED <<log, overlaps>>
      BY <2>1, <1>t DEF overlaps
    <2>2. CASE \E e \in Events : Emit(e) /\ UNCHANGED connection
      <3>1. Len(log') = Len(log) + 1
        BY <2>2, <1>t, EmitStep
      <3> QED BY <2>2, <3>1, <1>t DEF connection, overlaps
    <2>3. ASSUME NEW k \in Slots, Deliver(k)
          PROVE  overtaken' \subseteq 1..Len(log') /\ doubled' \subseteq 1..Len(log')
      <3>1. log' = log /\ 1..sent \subseteq 1..Len(log) /\ {sent + 1} \subseteq 1..Len(log)
        BY <2>3, <1>t, SMT DEF Deliver
      <3> QED BY <2>3, <3>1, <1>t DEF Deliver, HandledOf
    <2> QED
      BY <2>1, <2>2, <2>3
         DEF StreamMove, HandlerGoes, Retry, Persist, StreamFails, Refresh, Connect, Crash, connection, overlaps
  <1> SUFFICES /\ log' \in Seq(Events) /\ Len(log') <= MaxLog
               /\ after' \in 0..Len(log') /\ sent' \in 0..Len(log')
               /\ link' \in {"connected", "waiting"} /\ refreshing' \in BOOLEAN
               /\ slot' \in [Slots -> SlotStates(Steps)]
               /\ \A k \in Slots : slot'[k].seq \in 0..Len(log')
               /\ \A k \in Slots : slot'[k].seq = 0 <=> slot'[k].step = "idle"
               /\ persisted' \subseteq 1..Len(log')
    BY <1>t, <1>l, <1>o DEF StreamInv, StreamTypeOK, At
  <1> USE DEF connection, overlaps
  <1>1. CASE \E e \in Events : Emit(e) /\ UNCHANGED <<connection, slot, persisted>>
    BY <1>1, <1>t, EmitStep
  <1>2. CASE \E k \in Slots : HandlerGoes(k, Steps)
    BY <1>2, <1>t, <1>f, StepSlot DEF HandlerGoes
  <1>3. CASE \E k \in Slots : slot[k] # Free /\ Retry(k)
    <2>1. PICK k \in Slots : slot[k] # Free /\ Retry(k)
      BY <1>3
    <2>2. Done(k) /\ after' = slot[k].seq - 1
      BY <2>1 DEF Retry
    <2>3. slot[k].seq \in 1..Len(log)
      BY <2>1, <1>k
    <2>4. UNCHANGED <<log, sent, refreshing, persisted>> /\ link' = "waiting"
      BY <2>1 DEF Retry
    <2> QED BY <2>2, <2>3, <2>4, <1>t, DoneSlot
  <1>4. CASE \E k \in Slots : Deliver(k)
    <2>1. PICK k \in Slots : Deliver(k)
      BY <1>4
    <2>2. UNCHANGED <<log, after, link, refreshing, persisted>> /\ sent' = sent + 1 /\ sent < Len(log)
      BY <2>1 DEF Deliver
    <2>3. sent \in Nat
      BY <1>t
    <2> QED BY <2>1, <2>2, <2>3, <1>t, DeliverSlot
  <1>5. CASE \E k \in Slots : Persist(k)
    <2>1. PICK k \in Slots : Persist(k)
      BY <1>5
    <2>2. slot[k].seq \in 1..Len(log)
      BY <2>1, <1>k, <1>f DEF Persist, At
    <2>3. Done(k) /\ persisted' = persisted \cup {slot[k].seq} /\ UNCHANGED <<log, connection>>
      BY <2>1 DEF Persist
    <2>4. /\ slot' \in [Slots -> SlotStates(Steps)]
          /\ slot'[k].seq = 0 /\ slot'[k].step = "idle"
          /\ \A j \in Slots \ {k} : slot'[j] = slot[j]
      BY <2>3, <1>t, DoneSlot
    <2>5. persisted' \subseteq 1..Len(log')
      BY <2>2, <2>3, <1>t
    <2> QED BY <2>3, <2>4, <2>5, <1>t
  <1>6. CASE StreamFails \/ Connect
    BY <1>6, <1>t DEF StreamFails, Connect
  <1>7. CASE Refresh
    BY <1>7, <1>t, LatestSequenceType DEF Refresh
  <1>8. CASE Crash
    <2>1. LatestSequence \in 0..Len(log)
      BY <1>t, LatestSequenceType
    <2>2. /\ slot' \in [Slots -> SlotStates(Steps)]
          /\ \A k \in Slots : slot'[k].seq = 0 /\ slot'[k].step = "idle"
      BY <1>8, CrashSlots
    <2>3. /\ after' = LatestSequence /\ sent' = LatestSequence
          /\ link' = "connected" /\ UNCHANGED <<log, persisted>>
      BY <1>8 DEF Crash
    <2>4. refreshing' \in BOOLEAN
      BY <1>8, Zenon DEF Crash
    <2> QED BY <2>1, <2>2, <2>3, <2>4, <1>t
  <1>9. CASE UNCHANGED <<log, connection, slot, persisted>>
    BY <1>9, <1>t
  <1> QED
    BY <1>1, <1>2, <1>3, <1>4, <1>5, <1>6, <1>7, <1>8, <1>9 DEF StreamMove

-----------------------------------------------------------------------------
(***************************************************************************)
(* Events that overlap.                                                    *)
(***************************************************************************)
\* What has happened to an event is not forgotten, and an event stays what it is.
LEMMA OverlapsGrow ==
    ASSUME NEW Events, NEW Steps, StreamInv(Events, Steps), StreamMove(Events, Steps)
    PROVE  /\ overtaken \subseteq overtaken' /\ doubled \subseteq doubled'
           /\ \A i \in 1..Len(log) : log'[i] = log[i]
  <1>1. log \in Seq(Events)
    BY DEF StreamInv
  <1>2. CASE \E e \in Events : Emit(e) /\ UNCHANGED connection
    BY <1>1, <1>2, EmitStep DEF connection, overlaps
  <1>3. CASE \E k \in Slots : Deliver(k)
    BY <1>3 DEF Deliver
  <1>4. CASE UNCHANGED <<log, overlaps>>
    BY <1>4 DEF overlaps
  <1> QED
    BY <1>2, <1>3, <1>4
       DEF StreamMove, HandlerGoes, Retry, Persist, StreamFails, Refresh, Connect, Crash, connection

\* Up to the point from which the connection sends, or will send when it is made again,
\* all is persisted, overtaken or being handled; before an event that is persisted or
\* handled, all is persisted or overtaken.  Two handlers have the same event only if it
\* arrived once more.
Past == persisted \cup overtaken
CoveredTo(n) == \A i \in 1..n : i \in Past \/ IsHandled(i)
CoveredInv ==
    /\ CoveredTo(after)
    /\ link = "connected" => CoveredTo(sent)
    /\ \A i \in persisted : 1..(i - 1) \subseteq Past
    /\ \A k \in Slots : 1..(slot[k].seq - 1) \subseteq Past
    /\ \A k, j \in Slots : slot[k].seq = slot[j].seq /\ slot[k].seq # 0 /\ k # j =>
                             slot[k].seq \in doubled

LEMMA CoveredInit == ASSUME StreamInit PROVE CoveredInv
  BY DEF StreamInit, CoveredInv, CoveredTo, Free

LEMMA CoveredNext ==
    ASSUME NEW Events, NEW Steps,
           StreamInv(Events, Steps), CoveredInv, StreamMove(Events, Steps)
    PROVE  CoveredInv'
  <1> USE DEF connection, overlaps
  <1>t. /\ Len(log) \in Nat
        /\ after \in 0..Len(log) /\ sent \in 0..Len(log)
        /\ slot \in [Slots -> SlotStates(Steps)]
        /\ \A j \in Slots : slot[j].seq \in 0..Len(log)
        /\ persisted \subseteq 1..Len(log) /\ HasLatest
    BY DEF StreamInv, StreamTypeOK
  <1>i. /\ \A i \in 1..after : i \in Past \/ \E j \in Slots : slot[j].seq = i
        /\ link = "connected" => \A i \in 1..sent : i \in Past \/ \E j \in Slots : slot[j].seq = i
        /\ \A i \in persisted : 1..(i - 1) \subseteq Past
        /\ \A j \in Slots : 1..(slot[j].seq - 1) \subseteq Past
        /\ \A k, j \in Slots : slot[k].seq = slot[j].seq /\ slot[k].seq # 0 /\ k # j =>
                                 slot[k].seq \in doubled
    BY DEF CoveredInv, CoveredTo, IsHandled
  <1>1. ASSUME UNCHANGED <<connection, persisted>>, \A j \in Slots : slot'[j].seq = slot[j].seq
        PROVE  CoveredInv'
    <2>1. Past' = Past /\ UNCHANGED <<after, link, sent, persisted, doubled>>
      BY <1>1 DEF Past
    <2> QED BY <2>1, <1>1, <1>i DEF CoveredInv, CoveredTo, IsHandled
  <1>2. ASSUME NEW k \in Slots, HandlerGoes(k, Steps) PROVE CoveredInv'
    <2>1. \A j \in Slots : slot'[j].seq = slot[j].seq
      BY <1>2, <1>t, StepSlot DEF HandlerGoes
    <2> QED BY <2>1, <1>1, <1>2 DEF HandlerGoes
  <1>3. ASSUME NEW k \in Slots, Retry(k) PROVE CoveredInv'
    <2>1. slot'[k].seq = 0 /\ \A j \in Slots \ {k} : slot'[j] = slot[j]
      BY <1>3, <1>t, DoneSlot DEF Retry
    <2>2. after' = slot[k].seq - 1 /\ link' = "waiting" /\ UNCHANGED <<persisted, doubled>> /\ Past' = Past
      BY <1>3 DEF Retry, Past
    <2> QED BY <2>1, <2>2, <1>i, SMT DEF CoveredInv, CoveredTo, IsHandled
  <1>4. ASSUME NEW k \in Slots, Deliver(k) PROVE CoveredInv'
    <2>1. /\ slot'[k].seq = sent + 1 /\ slot[k].seq = 0
          /\ \A j \in Slots \ {k} : slot'[j] = slot[j]
      BY <1>4, <1>t, DeliverSlot DEF Deliver, Free
    <2>2. link = "connected" /\ UNCHANGED <<after, link, persisted>> /\ sent' = sent + 1
      BY <1>4 DEF Deliver
    <2>3. /\ Past \subseteq Past' /\ doubled \subseteq doubled'
          /\ \A i \in 1..sent, j \in Slots : slot[j].seq = i => i \in Past'
          /\ \A j \in Slots : slot[j].seq = sent + 1 => sent + 1 \in doubled'
      BY <1>4 DEF Deliver, HandledOf, IsHandled, Past
    <2>4. 1..sent \subseteq Past'
      BY <2>2, <2>3, <1>i
    <2>5. \A i \in 1..after' : i \in Past' \/ \E j \in Slots : slot'[j].seq = i
      BY <2>1, <2>2, <2>3, <1>i, SMT
    <2>6. \A i \in 1..sent' : i \in Past' \/ \E j \in Slots : slot'[j].seq = i
      BY <2>1, <2>2, <2>4, <1>t, SMT
    <2>7. \A i \in persisted' : 1..(i - 1) \subseteq Past'
      BY <2>2, <2>3, <1>i
    <2>8. \A j \in Slots : 1..(slot'[j].seq - 1) \subseteq Past'
      <3>1. slot'[k].seq - 1 = sent
        BY <2>1, <1>t
      <3> QED BY <2>1, <2>3, <2>4, <3>1, <1>i
    <2>9. \A h, j \in Slots : slot'[h].seq = slot'[j].seq /\ slot'[h].seq # 0 /\ h # j =>
                               slot'[h].seq \in doubled'
      BY <2>1, <2>3, <1>i
    <2> QED BY <2>5, <2>6, <2>7, <2>8, <2>9 DEF CoveredInv, CoveredTo, IsHandled
  <1>5. ASSUME NEW k \in Slots, Persist(k) PROVE CoveredInv'
    <2> DEFINE n == slot[k].seq
    <2>1. /\ slot'[k].seq = 0 /\ \A j \in Slots \ {k} : slot'[j] = slot[j]
          /\ persisted' = persisted \cup {n} /\ UNCHANGED connection
      BY <1>5, <1>t, DoneSlot DEF Persist
    <2>2. n \in Nat /\ 1..(n - 1) \subseteq Past /\ Past' = Past \cup {n}
      BY <2>1, <1>t, <1>i DEF Past
    <2>3. \A i : \A j \in Slots : slot[j].seq = i => i \in Past' \/ \E h \in Slots : slot'[h].seq = i
      BY <2>1, <2>2
    <2> HIDE DEF n
    <2>4. \A i \in persisted' : 1..(i - 1) \subseteq Past'
      BY <2>1, <2>2, <1>i
    <2>5. \A j \in Slots : 1..(slot'[j].seq - 1) \subseteq Past'
      BY <2>1, <2>2, <1>i, SMT
    <2>6. \A h, j \in Slots : slot'[h].seq = slot'[j].seq /\ slot'[h].seq # 0 /\ h # j =>
                               slot'[h].seq \in doubled'
      BY <2>1, <1>i
    <2>7. Past \subseteq Past' /\ UNCHANGED <<after, sent, link>>
      BY <2>1, <2>2
    <2> QED BY <2>3, <2>4, <2>5, <2>6, <2>7, <1>i DEF CoveredInv, CoveredTo, IsHandled
  <1>6. ASSUME StreamFails PROVE CoveredInv'
    <2>1. link' = "waiting" /\ UNCHANGED <<after, slot, persisted, doubled>> /\ Past' = Past
      BY <1>6 DEF StreamFails, Past
    <2> QED BY <2>1, <1>i DEF CoveredInv, CoveredTo, IsHandled
  <1>7. ASSUME Connect PROVE CoveredInv'
    <2>1. sent' = after /\ UNCHANGED <<after, slot, persisted, doubled>> /\ Past' = Past
      BY <1>7 DEF Connect, Past
    <2> QED BY <2>1, <1>i DEF CoveredInv, CoveredTo, IsHandled
  <1>m. 1..LatestSequence \subseteq Past
    <2>1. LatestSequence \in persisted \cup {0} /\ LatestSequence \in Nat
      BY <1>t, LatestSequenceType
    <2>2. CASE LatestSequence \in persisted
      BY <2>1, <2>2, <1>i, SMT DEF Past
    <2> QED BY <2>1, <2>2, SMT
  <1>8. ASSUME Refresh PROVE CoveredInv'
    <2>1. after' \in {LatestSequence, after} /\ UNCHANGED <<link, sent, slot, persisted, doubled>>
      BY <1>8 DEF Refresh
    <2>2. Past' = Past
      BY <1>8 DEF Refresh, Past
    <2> QED BY <2>1, <2>2, <1>i, <1>m DEF CoveredInv, CoveredTo, IsHandled
  <1>9. ASSUME Crash PROVE CoveredInv'
    <2>1. \A j \in Slots : slot'[j].seq = 0
      BY <1>9, CrashSlots
    <2>2. after' = LatestSequence /\ sent' = LatestSequence /\ UNCHANGED persisted /\ Past' = Past
      BY <1>9 DEF Crash, Past
    <2> QED BY <2>1, <2>2, <1>i, <1>m, SMT DEF CoveredInv, CoveredTo, IsHandled
  <1> QED
    BY <1>1, <1>2, <1>3, <1>4, <1>5, <1>6, <1>7, <1>8, <1>9 DEF StreamMove

\* What is covered up to the point from which the connection sends is not skipped.
LEMMA CoveredImplies ==
    ASSUME NEW Events, NEW Steps, StreamInv(Events, Steps), CoveredInv
    PROVE  EventsCovered
  BY DEF StreamInv, StreamTypeOK, CoveredInv, CoveredTo, EventsCovered, Past

===============================================================================
