--------------------------- MODULE Notifications ----------------------------
(***************************************************************************)
(* The notifications service: settings, jobs that dispatch an event to     *)
(* many users page by page, push and email jobs, the cool-off of price     *)
(* notifications and the reminders to link an email address.  Readers use  *)
(* a replica of the settings, which may lag behind.                        *)
(***************************************************************************)
EXTENDS JobQueue, NotificationSettings, FiniteSetsExt

CONSTANTS UserIds,       \* natural numbers: pages are ordered by user id
          Scenarios,     \* what may happen in a behaviour, see below
          Tokens,        \* push device tokens, among the items of the settings
          Batch          \* PAGINATION_BATCH_SIZE, batch_limit

VARIABLES scenario,      \* of this behaviour: the requests that come in, the settings
                         \* and reminders at first, bounds on kickoffs, periods, faults, lapses
          log,           \* the events of the settings of a user
          replica,       \* how many of them the replica has
          projection,    \* per user: no row, a row that is due, or just notified
          trigger,       \* was a price notification triggered within the cool-off?
          triggerLock,   \* the transactions that have the row of the tracker
          kickoffs, periods,
          pc, mem,       \* of a request: step, what it has read
          conflicts,     \* history: settings that could not be persisted,
          priced,        \* price events dispatched in this cool-off period,
          reminded,      \* reminders in this period,
          crowded,       \* two jobs have listed reminders at the same time,
          owed, reached  \* per event: its users, how often it was dispatched to each

settingsVars == <<log, replica, projection, conflicts>>
timeVars == <<trigger, triggerLock, kickoffs, periods, priced, reminded, crowded>>
requestVars == <<pc, mem>>
dispatchVars == <<owed, reached>>

None == << >>
KickoffId == <<[kind |-> "kickoff"], 0>>
Events == {r.event : r \in {q \in scenario.requests : q.kind \in {"price", "marketing"}}}

InitNotifications ==
  /\ InitQueue
  /\ scenario \in Scenarios
  /\ log = scenario.settings /\ replica = [u \in UserIds |-> Len(log[u])]
  /\ projection = [u \in UserIds |-> IF u \in scenario.reminders THEN "due" ELSE "none"]
  /\ trigger = FALSE /\ triggerLock = {}
  /\ kickoffs = 0 /\ periods = 0 /\ conflicts = 0 /\ priced = 0 /\ crowded = FALSE
  /\ reminded = [u \in UserIds |-> 0]
  /\ owed = [e \in Events |-> {}]
  /\ reached = [e \in Events |-> [u \in UserIds |-> 0]]
  /\ pc = [r \in scenario.requests |-> "todo"]
  /\ mem = [r \in scenario.requests |-> None]

Goto(r, step) == pc' = [pc EXCEPT ![r] = step]
Remember(r, value) == mem' = [mem EXCEPT ![r] = value]
End(r) == Goto(r, "done") /\ Remember(r, None)

(***************************************************************************)
(* Requests.  find_for_user_id_for_mut reads the primary; persist is one   *)
(* transaction, which for a new address also drops the reminder.           *)
(***************************************************************************)
FindSettings(r) ==
  /\ \/ pc[r] = "todo" /\ r.kind = "settings" /\ Remember(r, [op |-> r.op, read |-> log[r.user]])
     \/ pc[r] = "find" /\ Remember(r, [op |-> mem[r].op, read |-> log[r.user]])
  /\ Goto(r, "persist")
  /\ UNCHANGED <<settingsVars, timeVars, dispatchVars, jobVars, faultVars>>

PersistSettings(r) ==
  /\ pc[r] = "persist"
  /\ LET events == NewEvents(mem[r].op, mem[r].read)
     IN IF CanPersist(log[r.user], mem[r].read, events)
        THEN /\ log' = [log EXCEPT ![r.user] = @ \o events]
             /\ projection' = IF mem[r].op.op = "setEmail"
                              THEN [projection EXCEPT ![r.user] = "none"] ELSE projection
             /\ UNCHANGED conflicts
        ELSE conflicts' = conflicts + 1 /\ UNCHANGED <<log, projection>>
  /\ End(r)
  /\ UNCHANGED <<replica, timeVars, dispatchVars, jobVars, faultVars>>

Replicate(u) ==
  /\ replica[u] < Len(log[u])
  /\ replica' = [replica EXCEPT ![u] = @ + 1]
  /\ UNCHANGED <<log, projection, conflicts, timeVars, requestVars, dispatchVars, jobVars, faultVars>>

OnReplica(u) == SubSeq(log[u], 1, replica[u])

Push(u, e) == [kind |-> "push", user |-> u, event |-> e]
Email(u, e) == [kind |-> "email", user |-> u, event |-> e]

(* handle_transaction_occurred_event                                       *)
TransactionOccurred(r) ==
  /\ pc[r] = "todo" /\ r.kind = "transaction"
  /\ Goto(r, IF EmailAddress(OnReplica(r.user)) = NoEmail THEN "remind" ELSE "single")
  /\ UNCHANGED <<mem, settingsVars, timeVars, dispatchVars, jobVars, faultVars>>

WithoutEmail(r) ==
  /\ pc[r] = "remind"
  /\ projection' = [projection EXCEPT ![r.user] = IF @ = "none" THEN "due" ELSE @]
  /\ Goto(r, "single")
  /\ UNCHANGED <<mem, log, replica, conflicts, timeVars, dispatchVars, jobVars, faultVars>>

(* handle_single_user_event: one transaction.  A transaction is pushed     *)
(* only, the result of a verification is also mailed.                      *)
SingleUserEvent(r) ==
  /\ \/ pc[r] = "todo" /\ r.kind = "verification"
     \/ pc[r] = "single"
  /\ queue' = Enqueue(queue, {Push(r.user, r.kind)} \cup
                             {Email(r.user, r.kind) : k \in {r.kind} \cap {"verification"}})
  /\ End(r)
  /\ UNCHANGED <<worker, settingsVars, timeVars, dispatchVars, faultVars>>

(* Mutant: the row is read without a lock.                                 *)
PriceBeginUnlocked(r) ==
  /\ pc[r] = "todo" /\ r.kind = "price"
  /\ Remember(r, trigger) /\ Goto(r, "price")
  /\ UNCHANGED <<timeVars, settingsVars, dispatchVars, jobVars, faultVars>>

(* handle_price_changed_event.  The row of the tracker is locked by SELECT *)
(* FOR UPDATE until the end of the transaction; the new trigger is kept    *)
(* only if the event is dispatched.                                        *)
PriceBegin(r) ==
  /\ pc[r] = "todo" /\ r.kind = "price" /\ triggerLock = {}
  /\ triggerLock' = {r}
  /\ Remember(r, trigger) /\ Goto(r, "price")
  /\ UNCHANGED <<trigger, kickoffs, periods, priced, reminded, crowded,
                 settingsVars, dispatchVars, jobVars, faultVars>>

ShouldNotify(r) == r.large /\ ~mem[r]

PriceEnd(r) ==
  /\ pc[r] = "price"
  /\ triggerLock' = {}
  /\ IF ShouldNotify(r)
     THEN /\ trigger' = TRUE /\ priced' = priced + 1
          /\ queue' = Enqueue(queue, {[kind |-> "all", event |-> r.event, after |-> 0]})
          /\ owed' = [owed EXCEPT ![r.event] = {u \in UserIds : log[u] # << >>}]
     ELSE UNCHANGED <<trigger, priced, queue, owed>>
  /\ End(r)
  /\ UNCHANGED <<kickoffs, periods, reminded, crowded, worker, settingsVars, reached, faultVars>>

(* handle_marketing_notification_triggered_event                           *)
Marketing(r) ==
  /\ pc[r] = "todo" /\ r.kind = "marketing"
  /\ queue' = Enqueue(queue, {[kind |-> "multi", event |-> r.event, users |-> r.users]})
  /\ owed' = [owed EXCEPT ![r.event] = r.users]
  /\ End(r)
  /\ UNCHANGED <<worker, settingsVars, timeVars, reached, faultVars>>

(* The server stops or a call fails; an open transaction is rolled back.   *)
RequestFails(r) ==
  /\ pc[r] \notin {"todo", "done"} /\ faults < scenario.faults
  /\ faults' = faults + 1
  /\ triggerLock' = triggerLock \ {r}
  /\ End(r)
  /\ UNCHANGED <<lapses, trigger, kickoffs, periods, priced, reminded, crowded,
                 settingsVars, dispatchVars, jobVars>>

(* A cool-off period, of prices and of reminders, is over.                 *)
TimePasses ==
  /\ periods < scenario.periods /\ triggerLock = {}
  /\ periods' = periods + 1
  /\ trigger' = FALSE /\ priced' = 0
  /\ projection' = [u \in UserIds |-> IF projection[u] = "notified" THEN "due" ELSE projection[u]]
  /\ reminded' = [u \in UserIds |-> 0]
  /\ UNCHANGED <<triggerLock, kickoffs, crowded, log, replica, conflicts, requestVars,
                 dispatchVars, jobVars, faultVars>>

(***************************************************************************)
(* Jobs.  A dispatch lists the next users, then writes the job for the     *)
(* rest, a push and a history entry for each user of the page, and its own *)
(* completion in one transaction.                                          *)
(***************************************************************************)
Running(w, kinds) == worker[w].pc = "run" /\ JobOf(worker[w].id).kind \in kinds

FirstOf(users, n) == {u \in users : Cardinality({v \in users : v < u}) < n}

(* list_ids_after, the ids in the job, list_ids_to_notify_after: one more  *)
(* than a page, to know if there are more.                                 *)
Listed(job) ==
  IF job.kind = "all" THEN FirstOf({u \in UserIds : log[u] # << >> /\ u > job.after}, Batch + 1)
  ELSE IF job.kind = "multi" THEN job.users
  ELSE FirstOf({u \in UserIds : projection[u] = "due" /\ u > job.after}, Batch + 1)

(* Another job is between the two parts of the statement of reminders.     *)
OtherReminder(w) ==
  \E v \in Workers \ {w} : worker[v].pc = "commit" /\ JobOf(worker[v].id).kind = "reminder"

ListPage(w) ==
  /\ Running(w, {"all", "multi", "reminder"})
  /\ LET job == JobOf(worker[w].id)
     IN /\ worker' = [worker EXCEPT ![w] = [pc |-> "commit", rows |-> Listed(job)] @@ @]
        /\ crowded' = (crowded \/ (job.kind = "reminder" /\ OtherReminder(w)))
  /\ UNCHANGED <<queue, trigger, triggerLock, kickoffs, periods, priced, reminded,
                 settingsVars, requestVars, dispatchVars, faultVars>>

(* Mutant: the job for the rest starts after the user that showed there is *)
(* a rest.                                                                 *)
NextJobSkips(job, rows, ids) ==
  IF Cardinality(rows) <= Batch THEN {}
  ELSE IF job.kind = "multi" THEN {[job EXCEPT !.users = rows \ ids]}
  ELSE {[job EXCEPT !.after = Max(rows)]}

(* The job for the users after this page.                                  *)
NextJob(job, rows, ids) ==
  IF Cardinality(rows) <= Batch THEN {}
  ELSE IF job.kind = "multi" THEN {[job EXCEPT !.users = rows \ ids]}
  ELSE {[job EXCEPT !.after = Max(ids)]}

CommitPage(w) ==
  /\ worker[w].pc = "commit" /\ JobOf(worker[w].id).kind \in {"all", "multi"}
  /\ LET job == JobOf(worker[w].id)
         ids == FirstOf(worker[w].rows, Batch)
     IN /\ CompleteWith(w, Enqueue(queue, NextJob(job, worker[w].rows, ids)
                                           \cup {Push(u, job.event) : u \in ids}))
        /\ reached' = [reached EXCEPT ![job.event] =
                          [u \in UserIds |-> IF u \in ids THEN @[u] + 1 ELSE @[u]]]
  /\ worker' = [worker EXCEPT ![w] = Idle]
  /\ UNCHANGED <<owed, settingsVars, timeVars, requestVars, faultVars>>

(* The rows that are still there are marked as notified, and returned in   *)
(* no order; one too many is marked and not reminded.                      *)
CommitReminders(w) ==
  /\ worker[w].pc = "commit" /\ JobOf(worker[w].id).kind = "reminder"
  /\ LET job == JobOf(worker[w].id)
         rows == {u \in worker[w].rows : projection[u] # "none"}
     IN \E ids \in SUBSET rows :
          /\ Cardinality(ids) = (IF Cardinality(rows) < Batch THEN Cardinality(rows) ELSE Batch)
          /\ \E last \in ids \cup {u \in {0} : ids = {}} :
               CompleteWith(w, Enqueue(queue, NextJob(job, rows, {last})
                                              \cup {Push(u, "reminder") : u \in ids}))
          /\ projection' = [u \in UserIds |-> IF u \in rows THEN "notified" ELSE projection[u]]
          /\ reminded' = [u \in UserIds |-> IF u \in ids THEN reminded[u] + 1 ELSE reminded[u]]
  /\ worker' = [worker EXCEPT ![w] = Idle]
  /\ UNCHANGED <<trigger, triggerLock, kickoffs, periods, priced, crowded, log, replica, conflicts,
                 requestVars, dispatchVars, faultVars>>

(* kickoff_link_email_reminder: spawns the first page, completes, and then *)
(* spawns itself again; the server does the same in a loop.                *)
Kickoff(w) ==
  /\ Running(w, {"kickoff"})
  /\ kickoffs' = kickoffs + 1
  /\ CompleteWith(w, Enqueue(queue, {[kind |-> "reminder", after |-> 0]}))
  /\ worker' = [worker EXCEPT ![w].pc = "respawn"]
  /\ UNCHANGED <<trigger, triggerLock, periods, priced, reminded, crowded,
                 settingsVars, requestVars, dispatchVars, faultVars>>

Respawn(w) ==
  /\ worker[w].pc = "respawn"
  /\ queue' = IF kickoffs < scenario.kickoffs THEN EnqueueOnce(queue, KickoffId) ELSE queue
  /\ worker' = [worker EXCEPT ![w] = Idle]
  /\ UNCHANGED <<settingsVars, timeVars, requestVars, dispatchVars, faultVars>>

SpawnKickoff ==
  /\ kickoffs < scenario.kickoffs /\ KickoffId \notin DOMAIN queue
  /\ queue' = EnqueueOnce(queue, KickoffId)
  /\ UNCHANGED <<worker, settingsVars, timeVars, requestVars, dispatchVars, faultVars>>

(* PushExecutor::notify: the settings come from the replica.               *)
PushOff == "push off"
TokensOf(settings) == IF PushOff \in Items(settings) THEN {} ELSE Items(settings) \cap Tokens

PushRead(w) ==
  /\ Running(w, {"push"})
  /\ LET settings == OnReplica(JobOf(worker[w].id).user)
     IN worker' = [worker EXCEPT ![w] =
                     IF TokensOf(settings) = {} THEN [pc |-> "complete"] @@ @
                     ELSE [pc |-> "send", read |-> settings] @@ @]
  /\ UNCHANGED <<queue, settingsVars, timeVars, requestVars, dispatchVars, faultVars>>

(* Each token is delivered to, found stale, or gives another error.        *)
PushSend(w) ==
  /\ worker[w].pc = "send"
  /\ LET tokens == TokensOf(worker[w].read)
     IN \E stale, failed \in SUBSET tokens :
          /\ stale \cap failed = {}
          /\ LET error == failed # {} /\ tokens = stale \cup failed
             IN /\ failed # {} => faults < scenario.faults
                /\ faults' = IF failed # {} THEN faults + 1 ELSE faults
                /\ worker' = [worker EXCEPT ![w] =
                     IF stale # {} THEN [pc |-> "forget", stale |-> stale, error |-> error] @@ @
                     ELSE IF error THEN Idle ELSE [pc |-> "complete"] @@ @]
  /\ UNCHANGED <<queue, lapses, settingsVars, timeVars, requestVars, dispatchVars>>

(* The removal of stale tokens is persisted, and an error ignored.         *)
ForgetTokens(w) ==
  /\ worker[w].pc = "forget"
  /\ LET u == JobOf(worker[w].id).user
         events == SetToSeq({ItemEvent("removed", t) : t \in worker[w].stale})
     IN log' = IF CanPersist(log[u], worker[w].read, events)
               THEN [log EXCEPT ![u] = @ \o events] ELSE log
  /\ worker' = [worker EXCEPT ![w] = IF worker[w].error THEN Idle ELSE [pc |-> "complete"] @@ @]
  /\ UNCHANGED <<queue, replica, projection, conflicts, timeVars, requestVars, dispatchVars, faultVars>>

(* EmailExecutor::notify                                                   *)
EmailRead(w) ==
  /\ Running(w, {"email"})
  /\ LET addr == EmailAddress(OnReplica(JobOf(worker[w].id).user))
     IN worker' = [worker EXCEPT ![w].pc = IF addr = NoEmail THEN "complete" ELSE "mail"]
  /\ UNCHANGED <<queue, settingsVars, timeVars, requestVars, dispatchVars, faultVars>>

EmailSend(w) ==
  /\ worker[w].pc = "mail"
  /\ worker' = [worker EXCEPT ![w].pc = "complete"]
  /\ UNCHANGED <<queue, settingsVars, timeVars, requestVars, dispatchVars, faultVars>>

(***************************************************************************)
(* The next-state relation.                                                *)
(***************************************************************************)
QueueStep ==
  /\ \/ \E w \in Workers : \/ \E id \in DOMAIN queue : Poll(w, id)
                           \/ Checkpoint(w) \/ CompleteFirst(w) \/ Complete(w)
     \/ \E id \in DOMAIN queue : ~Working(id) /\ LeaseEnds(id)
  /\ UNCHANGED <<settingsVars, timeVars, requestVars, dispatchVars>>

QueueFault ==
  /\ \/ faults < scenario.faults /\ \E w \in Workers : Interrupt(w)
     \/ lapses < scenario.lapses /\ \E id \in DOMAIN queue : Working(id) /\ LeaseEnds(id)
  /\ UNCHANGED <<settingsVars, timeVars, requestVars, dispatchVars>>

JobStep(w) ==
  \/ ListPage(w) \/ CommitPage(w) \/ CommitReminders(w) \/ Kickoff(w) \/ Respawn(w)
  \/ PushRead(w) \/ PushSend(w) \/ ForgetTokens(w) \/ EmailRead(w) \/ EmailSend(w)

RequestStep(r) ==
  \/ FindSettings(r) \/ PersistSettings(r) \/ TransactionOccurred(r) \/ WithoutEmail(r)
  \/ SingleUserEvent(r) \/ PriceBegin(r) \/ PriceEnd(r) \/ Marketing(r)

(* What the job runners do unless they are interrupted.                    *)
Serve == QueueStep \/ \E w \in Workers : JobStep(w)

NotificationsNext ==
  \/ Serve \/ QueueFault \/ SpawnKickoff \/ TimePasses
  \/ \E r \in DOMAIN pc : RequestStep(r) \/ RequestFails(r)
  \/ \E u \in UserIds : Replicate(u)

(***************************************************************************)
(* Properties.                                                             *)
(***************************************************************************)
(* However requests and jobs overlap, each event in a log of settings was  *)
(* meant for what the log says before it: nothing is added twice, removed  *)
(* when not there, or started anew.  (entity.rs, persist_in_tx)            *)
LogReplays ==
  \A u \in UserIds : \A n \in 1..Len(log[u]) :
    LET before == SubSeq(log[u], 1, n - 1)
        e == log[u][n]
    IN /\ e.type = "initialized" <=> n = 1
       /\ e.type = "added" => e.item \notin Items(before)
       /\ e.type = "removed" => e.item \in Items(before)
       /\ e.type = "emailAdded" => EmailAddress(before) = NoEmail
       /\ e.type = "emailRemoved" => EmailAddress(before) = e.addr

Dispatching(e) ==
  LET OfEvent(id) == JobOf(id).kind \in {"all", "multi"} /\ JobOf(id).event = e
  IN \/ \E id \in DOMAIN queue : OfEvent(id) /\ queue[id].at # "null"
     \/ \E w \in Workers : worker[w] # Idle /\ OfEvent(worker[w].id)

(* A dispatch that is interrupted and retried reaches no user twice: what  *)
(* it spawned and its completion are one transaction.  A lease that ended  *)
(* under a running job is the exception.  With fewer failures than         *)
(* attempts, it does not end before it has reached every user it is for.   *)
(* (all_user_event_dispatch, checkpoint_attempt, list_ids_after)           *)
ReachedExactlyOnce ==
  /\ lapses = 0 => \A e \in Events : \A u \in UserIds : reached[e][u] <= 1
  /\ faults + lapses < MaxAttempts =>
       \A e \in Events : ~Dispatching(e) => \A u \in owed[e] : reached[e][u] > 0

(* In a cool-off period at most one change of the price is announced by    *)
(* the replicas that overlap, and nobody is reminded twice to link an      *)
(* email by several kickoffs, unless two jobs list the reminders at the    *)
(* same moment.                                                            *)
(* (handle_price_changed_event, list_ids_to_notify_after)                  *)
QuietInCoolOff ==
  /\ priced <= 1
  /\ ~crowded => \A u \in UserIds : reminded[u] <= 1

Unserved ==
  /\ faults + lapses < MaxAttempts
  /\ \E e \in Events : \E u \in owed[e] : reached[e][u] = 0

(* With fewer failures than attempts, a dispatched event reaches all its   *)
(* users at last.  (all_user_event_dispatch, multi_user_event_dispatch)    *)
DispatchEventuallyDone == Unserved ~> ~Unserved
=============================================================================
