------------------------------ MODULE JobQueue ------------------------------
(***************************************************************************)
(* The job queue of the Rust services: the tables of sqlxmq in Postgres    *)
(* and the JobExecutor that runs every job.  A message that was polled is  *)
(* leased until its attempt_at; a worker that fails or stops leaves it     *)
(* there.  What a job does is up to the module that extends this one.      *)
(***************************************************************************)
EXTENDS Integers, Sequences, FiniteSets, TLC

CONSTANTS Workers, MaxAttempts, Retries

VARIABLES queue,    \* id -> [left, attempts, at]: mq_msgs and the job's meta data
          worker,   \* what each worker of the runners does
          faults,   \* interrupted jobs, failed deliveries
          lapses    \* leases that ended under a running job

jobVars == <<queue, worker>>
faultVars == <<faults, lapses>>

(* An id is the job with a number that tells its copies apart.             *)
JobOf(id) == id[1]

Idle == [pc |-> "idle"]

Working(id) == \E w \in Workers : worker[w].pc # "idle" /\ worker[w].id = id

InitQueue ==
  /\ queue = << >>
  /\ worker = [w \in Workers |-> Idle]
  /\ faults = 0 /\ lapses = 0

NewMessage == [left |-> Retries + 1, attempts |-> 0, at |-> "due"]

(* mq_insert, in the transaction of the caller.  The id is a new UUID.     *)
Enqueue(q, jobs) ==
  LET Taken(id) == id \in DOMAIN q \/ Working(id)
      Fresh(j) == <<j, CHOOSE n \in 1..5 : ~Taken(<<j, n>>)
                                            /\ \A m \in 1..(n - 1) : Taken(<<j, m>>)>>
  IN [id \in {Fresh(j) : j \in jobs} |-> NewMessage] @@ q

(* mq_insert with a fixed id: a duplicate key is no error.                 *)
EnqueueOnce(q, id) == q @@ (id :> NewMessage)

(* mq_delete: no error if the message is gone already.                     *)
Delete(q, id) == [i \in DOMAIN q \ {id} |-> q[i]]

(* mq_poll: after the last retry attempt_at becomes NULL, never due again. *)
Poll(w, id) ==
  /\ worker[w] = Idle
  /\ queue[id].at = "due"
  /\ queue' = [queue EXCEPT ![id] = [left |-> @.left - 1, attempts |-> @.attempts,
                                     at |-> IF @.left = 1 THEN "null" ELSE "leased"]]
  /\ worker' = [worker EXCEPT ![w] = [pc |-> "checkpoint", id |-> id, completed |-> FALSE,
                                      attempts |-> queue[id].attempts]]
  /\ UNCHANGED faultVars

(* checkpoint_attempt up to its commit: the attempt is counted before the  *)
(* job runs, and given back as a retry unless it is the last.  GREATEST    *)
(* ignores NULL, so the message is leased even if it was polled for good.  *)
CheckpointAttempt(w, maxAttempts) ==
  /\ worker[w].pc = "checkpoint"
  /\ LET id == worker[w].id
         n == worker[w].attempts + 1
         extra == IF n < maxAttempts THEN 1 ELSE 0
     IN /\ queue' = IF id \in DOMAIN queue
                    THEN [queue EXCEPT ![id] = [left |-> @.left + extra, attempts |-> n,
                                                at |-> "leased"]]
                    ELSE queue
        /\ worker' = [worker EXCEPT ![w].attempts = n,
                                    ![w].pc = IF n >= maxAttempts THEN "last" ELSE "run"]
  /\ UNCHANGED faultVars

(* Mutant: the last attempt is taken one too early.                        *)
CheckpointEarly(w) == CheckpointAttempt(w, MaxAttempts - 1)

Checkpoint(w) == CheckpointAttempt(w, MaxAttempts)

(* The last attempt deletes the message and then runs.                     *)
CompleteFirst(w) ==
  /\ worker[w].pc = "last"
  /\ queue' = Delete(queue, worker[w].id)
  /\ worker' = [worker EXCEPT ![w].pc = "run", ![w].completed = TRUE]
  /\ UNCHANGED faultVars

(* The job is done: what it wrote in its transaction is committed together *)
(* with the deletion of the message, which the last attempt did before.    *)
CompleteWith(w, q) ==
  queue' = IF worker[w].completed THEN q ELSE Delete(q, worker[w].id)

(* JobResult::Complete has no transaction.                                 *)
Complete(w) ==
  /\ worker[w].pc = "complete"
  /\ CompleteWith(w, queue)
  /\ worker' = [worker EXCEPT ![w] = Idle]
  /\ UNCHANGED faultVars

(* The job returns an error, or its process stops.                         *)
Interrupt(w) ==
  /\ worker[w] # Idle
  /\ faults' = faults + 1
  /\ worker' = [worker EXCEPT ![w] = Idle]
  /\ UNCHANGED <<queue, lapses>>

(* attempt_at passes: the message is due again.  While a job runs its      *)
(* keep-alive task prevents that, unless it fails or comes too late.       *)
LeaseEnds(id) ==
  /\ queue[id].at = "leased"
  /\ queue' = [queue EXCEPT ![id].at = "due"]
  /\ lapses' = IF Working(id) THEN lapses + 1 ELSE lapses
  /\ UNCHANGED <<worker, faults>>
=============================================================================
