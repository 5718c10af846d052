----------------------------- MODULE BriaStream -----------------------------
(***************************************************************************)
(* The subscription of the trigger server to the events of Bria.           *)
(*                                                                         *)
(*   services/bria/index.ts                 subscribeToAll                 *)
(*   services/bria/event-handler.ts         eventDataHandler               *)
(*   services/bria/event-repository.ts      persistEvent, getLatestSequence*)
(*   utils/grpc-stream-client/stream.ts     connect, reconnect             *)
(*                                                                         *)
(* Bria appends events to a log and sends, on each connection, those after *)
(* the sequence number of the request.  dispatchEvent does not wait for    *)
(* its listener, so the handlers of successive events overlap: a slot is   *)
(* one handler that is running.  What a handler does is left open here;    *)
(* OnChainSend and OnChainReceive say what it does to the ledger.          *)
(***************************************************************************)
EXTENDS Integers, Sequences, FiniteSetsExt

CONSTANTS
    Slots,          \* the handlers that may run at the same time
    MaxLog,         \* bound on the number of events
    StreamFaults,   \* the faults that may happen, and how many of them
    MaxFaults

ASSUME StreamAssumption ==
    /\ MaxLog \in Nat /\ MaxFaults \in Nat
    /\ StreamFaults \subseteq {"handler", "persist", "stream", "crash"}

VARIABLES
    log,        \* the events of Bria, numbered from 1
    after,      \* afterSequence of the request
    sent,       \* the last event sent on the current connection
    link,       \* "connected", or "waiting" for the timer of reconnect
    refreshing, \* the listener of a stream error has yet to read the last sequence
    slot,       \* the event each slot handles, and the step it has reached
    persisted,  \* the sequence numbers in the collection of events
    faults,     \* number of faults so far
    overtaken,  \* history: events that were being handled when a later one arrived,
    doubled     \* and when they arrived once more

overlaps == <<overtaken, doubled>>
connection == <<after, sent, link, refreshing, overlaps>>
streamVars == <<log, connection, slot, persisted, faults>>

Free == [seq |-> 0, step |-> "idle"]
EventOf(k) == log[slot[k].seq]
At(k, step) == slot[k].step = step
Step(k, step) == slot' = [slot EXCEPT ![k].step = step]
Done(k) == slot' = [slot EXCEPT ![k] = Free]
IsHandled(i) == \E k \in Slots : slot[k].seq = i
HandledOf(S) == {i \in S : IsHandled(i)}

\* getLatestSequence
LatestSequence == Max(persisted \cup {0})

StreamInit ==
    /\ log = <<>>
    /\ after = 0 /\ sent = 0 /\ link = "connected" /\ refreshing = FALSE
    /\ slot = [k \in Slots |-> Free]
    /\ persisted = {}
    /\ faults = 0
    /\ overtaken = {} /\ doubled = {}

\* Bria appends an event (external).
Emit(event) == Len(log) < MaxLog /\ log' = Append(log, event)

-----------------------------------------------------------------------------
\* The next event of the connection arrives and its handler starts.
Deliver(k) ==
    /\ link = "connected"
    /\ sent < Len(log)
    /\ slot[k] = Free
    /\ sent' = sent + 1
    /\ slot' = [slot EXCEPT ![k] = [seq |-> sent + 1, step |-> "handle"]]
    /\ overtaken' = overtaken \cup HandledOf(1..sent)
    /\ doubled' = doubled \cup HandledOf({sent + 1})
    /\ UNCHANGED <<log, after, link, refreshing, persisted, faults>>

\* The handler returned true: persistEvent.
Persist(k) ==
    /\ At(k, "persist")
    /\ persisted' = persisted \cup {slot[k].seq}
    /\ Done(k)
    /\ UNCHANGED <<log, connection, faults>>

\* Mutant: the request goes on after the event that failed.
RetrySkipping(k) ==
    /\ after' = slot[k].seq
    /\ link' = "waiting"
    /\ Done(k)
    /\ UNCHANGED <<log, sent, refreshing, persisted, overlaps>>

\* An error of the handler or of persistEvent: setAfterSequence, then reconnect, which
\* takes no more data of this connection and starts the timer if it is not running.
Retry(k) ==
    /\ after' = slot[k].seq - 1
    /\ link' = "waiting"
    /\ Done(k)
    /\ UNCHANGED <<log, sent, refreshing, persisted, overlaps>>

Fault(kind) == kind \in StreamFaults /\ faults < MaxFaults /\ faults' = faults + 1

HandlerFails(k) == Fault("handler") /\ slot[k] # Free /\ ~At(k, "persist") /\ Retry(k)
PersistFails(k) == Fault("persist") /\ At(k, "persist") /\ Retry(k)

\* The stream ends with an error: reconnect, and onError reads the last sequence.
StreamFails ==
    /\ Fault("stream")
    /\ link' = "waiting"
    /\ refreshing' = TRUE
    /\ UNCHANGED <<log, after, sent, slot, persisted, overlaps>>

\* On an error of getLatestSequence the request stays as it is.
Refresh ==
    /\ refreshing
    /\ refreshing' = FALSE
    /\ after' \in {LatestSequence, after}
    /\ UNCHANGED <<log, sent, link, slot, persisted, faults, overlaps>>

\* The timer of reconnect.
Connect ==
    /\ link = "waiting"
    /\ link' = "connected"
    /\ sent' = after
    /\ UNCHANGED <<log, after, refreshing, slot, persisted, faults, overlaps>>

\* The server stops and starts again with subscribeToAll.
Crash ==
    /\ Fault("crash")
    /\ slot' = [k \in Slots |-> Free]
    /\ after' = LatestSequence /\ sent' = LatestSequence
    /\ link' = "connected" /\ refreshing' = FALSE
    /\ UNCHANGED <<log, persisted, overlaps>>

-----------------------------------------------------------------------------
StreamStep ==
    \/ \E k \in Slots : Deliver(k) \/ Persist(k) \/ HandlerFails(k) \/ PersistFails(k)
    \/ StreamFails \/ Refresh \/ Connect \/ Crash

-----------------------------------------------------------------------------
\* Every variable has the values its declaration describes.
StreamTypeOK ==
    /\ Len(log) <= MaxLog
    /\ after \in 0..Len(log) /\ sent \in 0..Len(log)
    /\ link \in {"connected", "waiting"} /\ refreshing \in BOOLEAN
    /\ \A k \in Slots : slot[k].seq \in 0..Len(log) /\ (slot[k].seq = 0 <=> At(k, "idle"))
    /\ persisted \subseteq 1..Len(log)
    /\ faults \in 0..MaxFaults
    /\ overtaken \subseteq 1..Len(log) /\ doubled \subseteq 1..Len(log)

\* An event is skipped only if a later one arrived while it was being handled.  Any other
\* event that is not persisted is being handled, or is after the point from which the
\* connection sends, or will send once it is made again, whichever handlers fail, in
\* whatever order, and wherever the server stops (setAfterSequence, getLatestSequence).
\* An event that was overtaken can be lost: a later one is persisted and the server stops,
\* or both handlers fail, the earlier one first.
EventsCovered ==
    \A i \in 1..Len(log) :
        \/ i \in persisted
        \/ i \in overtaken
        \/ IsHandled(i)
        \/ i > IF link = "connected" THEN sent ELSE after
=============================================================================
