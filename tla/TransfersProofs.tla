--------------------------- MODULE TransfersProofs --------------------------
(***************************************************************************)
(* Proofs about Transfers: a key lets one request through, and a quiz is   *)
(* rewarded once and in order, for every number of handlers, requests,     *)
(* users, keys and quizzes, and whatever locks and answers are lost.       *)
(***************************************************************************)
EXTENDS Transfers, TLAPS

(* Most leaves are first-order steps: Zenon is tried first, unless a leaf  *)
(* cites SMT.                                                              *)
USE Zenon, SMT

(* The steps that the middleware and the claim of a reward do not see.     *)
Elsewhere ==
  \/ \E x \in pending : UpdatePending(x[1], x[2])
  \/ \E x \in deletions : DeleteLightningPaymentFlow(x[1], x[2]) /\ RequestsUnchanged
  \/ DeleteExpiredLightningPaymentFlows /\ RequestsUnchanged
  \/ FlowsAge(scenario.expiries) /\ RequestsUnchanged

LEMMA ElsewhereStep ==
  ASSUME Elsewhere \/ UNCHANGED vars
  PROVE  UNCHANGED <<scenario, quizVars, keyVars, pc, job>>
<1>1. CASE Elsewhere
  BY <1>1 DEF Elsewhere, UpdatePending, RequestsUnchanged
<1>2. CASE UNCHANGED vars
  BY <1>2 DEF vars, quizVars, keyVars
<1> QED BY <1>1, <1>2

LEMMA HandlerKeys ==
  ASSUME NEW p \in Procs, HandlerStep(p) \/ LoseLock(p)
  PROVE  UNCHANGED <<scenario, keyVars>>
<1> USE DEF storeVars
<1>1. CASE ListQuizzes(p) \/ CheckFunder(p) \/ AddClaim(p) \/ FindFlow(p) \/ BuildFlow(p)
  BY <1>1 DEF ListQuizzes, CheckFunder, AddClaim, FindFlow, BuildFlow
<1>2. CASE \/ PersistProbe(p) \/ ReadBtcVolume(p) \/ CheckLimits(p) \/ LockWallet(p)
           \/ LockRefused(p) \/ CheckBalance(p) \/ CheckSignal(p) \/ LoseLock(p)
  BY <1>2 DEF PersistProbe, ReadBtcVolume, CheckLimits, LockWallet, LockRefused, CheckBalance,
     CheckSignal, LoseLock
<1>3. CASE \/ RecordTransfer(p) \/ RecordSend(p) \/ PaySucceeds(p) \/ PayFails(p)
           \/ PayTimesOut(p)
  BY <1>3 DEF RecordTransfer, RecordSend, PaySucceeds, PayFails, PayTimesOut, Answered
<1> QED BY <1>1, <1>2, <1>3 DEF HandlerStep

(***************************************************************************)
(* The idempotency middleware.                                             *)
(***************************************************************************)
Plain(k) == <<k, FALSE>>
Full(k) == <<k, TRUE>>

LEMMA LockNames ==
  ASSUME NEW k
  PROVE  /\ LockName(k, "plain") = Plain(k) /\ LockName(k, "hash") = Plain(k)
         /\ LockName(k, "full") = Full(k)
         /\ \A l : Plain(k) # Full(l) /\ (Plain(k) = Plain(l) => k = l) /\ (Full(k) = Full(l) => k = l)
<1>1. ("plain" = "full") = FALSE /\ ("hash" = "full") = FALSE /\ ("full" = "full") = TRUE
  OBVIOUS
<1>2. ASSUME NEW l
      PROVE  Plain(k) # Full(l) /\ (Plain(k) = Plain(l) => k = l) /\ (Full(k) = Full(l) => k = l)
  BY DEF Plain, Full
<1>3. LockName(k, "plain") = Plain(k) /\ LockName(k, "hash") = Plain(k)
  BY <1>1 DEF LockName, Plain
<1>4. LockName(k, "full") = Full(k)
  BY <1>1 DEF LockName, Full
<1> QED BY <1>2, <1>3, <1>4

(* Each name of a key lets one request through, and the plain one lets     *)
(* none through if it was used for a hash that was not registered.         *)
KeyOK(k) ==
  LET plain == IF Plain(k) \in keyLocks /\ k \notin notFound THEN 1 ELSE 0
      full == IF Full(k) \in keyLocks THEN 1 ELSE 0
  IN /\ executions[k] <= plain + full
     /\ k \in notFound => Plain(k) \in keyLocks

KeyInv ==
  /\ scenario \in Scenarios /\ executions \in [Keys -> Nat]
  /\ \A k \in Keys : KeyOK(k)

LEMMA ReceiveKeys ==
  ASSUME KeyInv, NEW p, NEW request, NEW key \in Keys, NEW form \in {"plain", "hash", "full"},
         Receive(p, request, key, form)
  PROVE  KeyInv'
<1>t. scenario' = scenario
  BY DEF Receive, storeVars
<1>1. CASE LockName(key, form) \in keyLocks
  <2>1. UNCHANGED keyVars
    BY <1>1 DEF Receive
  <2> QED BY <2>1, <1>t DEF KeyInv, KeyOK, keyVars
<1>2. CASE LockName(key, form) \notin keyLocks
  <2>1. KeyOK(key) /\ executions \in [Keys -> Nat] /\ executions[key] \in Nat
    BY DEF KeyInv
  <2>2. /\ keyLocks' = keyLocks \cup {LockName(key, form)}
        /\ \/ /\ form = "hash" /\ notFound' = notFound \cup {key} /\ executions' = executions
           \/ /\ notFound' = notFound /\ executions' = [executions EXCEPT ![key] = @ + 1]
    BY <1>2 DEF Receive
  <2>4. /\ executions' \in [Keys -> Nat]
        /\ \A k \in Keys \ {key} : executions'[k] = executions[k]
        /\ \/ form = "hash" /\ notFound' = notFound \cup {key} /\ executions'[key] = executions[key]
           \/ notFound' = notFound /\ executions'[key] = executions[key] + 1
    BY <2>1, <2>2, SMT
  <2>5. ASSUME NEW k \in Keys \ {key} PROVE KeyOK(k)'
    <3>1. /\ Plain(k) \in keyLocks' <=> Plain(k) \in keyLocks
          /\ Full(k) \in keyLocks' <=> Full(k) \in keyLocks
          /\ k \in notFound' <=> k \in notFound
      BY <2>2, LockNames
    <3> QED BY <2>4, <3>1 DEF KeyInv, KeyOK
  <2>6. KeyOK(key)'
    <3>1. CASE form = "full"
      <4>1. /\ Full(key) \notin keyLocks /\ Full(key) \in keyLocks'
            /\ Plain(key) \in keyLocks' <=> Plain(key) \in keyLocks
        BY <1>2, <2>2, <3>1, LockNames
      <4>2. notFound' = notFound /\ executions'[key] = executions[key] + 1
        BY <2>4, <3>1
      <4> QED BY <4>1, <4>2, <2>1, SMT DEF KeyOK
    <3>2. CASE form # "full"
      <4>1. /\ Plain(key) \notin keyLocks /\ Plain(key) \in keyLocks'
            /\ Full(key) \in keyLocks' <=> Full(key) \in keyLocks
        BY <1>2, <2>2, <3>2, LockNames
      <4>2. key \notin notFound
        BY <4>1, <2>1 DEF KeyOK
      <4> QED BY <4>1, <4>2, <2>1, <2>4, SMT DEF KeyOK
    <3> QED BY <3>1, <3>2
  <2> QED BY <1>t, <2>4, <2>5, <2>6 DEF KeyInv
<1> QED BY <1>1, <1>2

LEMMA KeyNext ==
  ASSUME KeyInv, [Next]_vars
  PROVE  KeyInv'
<1>t. scenario.keys \subseteq Keys
  BY RequestsAssumption DEF KeyInv
<1>1. ASSUME NEW p \in Procs, NEW request \in scenario.requests, NEW key \in scenario.keys,
             NEW form \in {"plain", "hash", "full"}, Receive(p, request, key, form)
      PROVE  KeyInv'
  BY <1>1, <1>t, ReceiveKeys
<1>2. ASSUME NEW key \in scenario.keys, NEW form, MiddlewareFails(key, form)
      PROVE  KeyInv'
  <2>1. keyLocks \subseteq keyLocks' /\ UNCHANGED <<scenario, executions, notFound>>
    BY <1>2 DEF MiddlewareFails, storeVars
  <2>2. ASSUME NEW k \in Keys PROVE KeyOK(k)'
    <3>1. /\ Full(k) \in keyLocks => Full(k) \in keyLocks'
          /\ Plain(k) \in keyLocks => Plain(k) \in keyLocks'
      BY <2>1
    <3>2. KeyOK(k) /\ executions[k] \in Nat
      BY DEF KeyInv
    <3> QED BY <2>1, <3>1, <3>2, SMT DEF KeyOK
  <2> QED BY <2>1, <2>2 DEF KeyInv
<1>3. ASSUME UNCHANGED <<scenario, keyVars>> PROVE KeyInv'
  BY <1>3 DEF KeyInv, KeyOK, keyVars
<1>4. ASSUME NEW p \in Procs, NEW request \in scenario.requests, ReceiveWithoutKey(p, request)
      PROVE  KeyInv'
  BY <1>3, <1>4 DEF ReceiveWithoutKey, storeVars
<1>5. CASE TimePasses
  BY <1>3, <1>5 DEF TimePasses, storeVars
<1>6. CASE \E p \in Procs : HandlerStep(p) \/ LoseLock(p)
  BY <1>3, <1>6, HandlerKeys
<1>7. CASE Elsewhere \/ UNCHANGED vars
  BY <1>3, <1>7, ElsewhereStep
<1> QED BY <1>1, <1>2, <1>4, <1>5, <1>6, <1>7 DEF Next, Elsewhere

(* While it is held, a key lets one request through, however often the     *)
(* client repeats it and although answers of Redis are lost; a second one  *)
(* only as the full query of a client that was not told to send it         *)
(* (idempotencyMiddleware).                                                *)
THEOREM KeysLetOneThrough == Spec => []OncePerKey
<1>1. Init => KeyInv
  BY SMT DEF Init, KeyInv, KeyOK
<1>2. KeyInv /\ [Next]_vars => KeyInv'
  BY KeyNext
<1>3. KeyInv => OncePerKey
  BY SMT, LockNames DEF KeyInv, KeyOK, OncePerKey
<1> QED BY <1>1, <1>2, <1>3, PTL DEF Spec

(***************************************************************************)
(* The rewards of the quizzes.                                             *)
(***************************************************************************)
ClaimSteps == {"list", "funder", "claim"}
PaySteps == {"find", "build", "btcVolume", "limits", "probe", "lock", "balance", "signal",
             "record", "paying"}
HandlerSteps == {"idle"} \cup ClaimSteps \cup PaySteps

QuizType ==
  /\ scenario \in Scenarios /\ pc \in [Procs -> HandlerSteps]
  /\ job \in [Procs -> scenario.requests \cup {NoJob}]

IsClaim(p) == job[p].kind = "quiz"
ClaimOf(p) == <<job[p].account, job[p].quiz>>

(* A claim that is stored, and whose reward is still to be paid.           *)
Owes(p) == IsClaim(p) /\ pc[p] \in PaySteps

Follows(c) ==
  SectionOf(c[2]) = 1 \/ <<c[1], LastQuiz(SectionOf(c[2]) - 1)>> \in claims

QuizOK(p) ==
  /\ pc[p] \in ClaimSteps => IsClaim(p)
  /\ pc[p] \in {"funder", "claim"} => ClaimOf(p) \in claims \/ Follows(ClaimOf(p))
  /\ Owes(p) => /\ ClaimOf(p) \in claims /\ rewards[ClaimOf(p)] = 0
                /\ \A q \in Procs : Owes(q) /\ ClaimOf(q) = ClaimOf(p) => q = p

QuizInv ==
  /\ QuizType
  /\ matured \subseteq claims /\ rewards \in [Users \X Quizzes -> {0, 1}]
  /\ \A c \in Users \X Quizzes : rewards[c] = 1 => c \in claims
  /\ \A c \in claims : Follows(c)
  /\ \A p \in Procs : QuizOK(p)

LEMMA JobType ==
  ASSUME QuizType, NEW p \in Procs, IsClaim(p)
  PROVE  ClaimOf(p) \in Users \X Quizzes
<1>1. NoJob.kind # "quiz"
  BY SMT DEF NoJob
<1>2. job[p] \in scenario.requests
  BY <1>1 DEF QuizType, IsClaim
<1>3. job[p].account \in Users /\ job[p].quiz \in Quizzes
  BY <1>2, RequestsAssumption DEF QuizType, IsClaim
<1> QED BY <1>3 DEF ClaimOf

(* What the steps of a payment do to a claim.                              *)
Ends(p) == pc' = [pc EXCEPT ![p] = "idle"] /\ job' = [job EXCEPT ![p] = NoJob]
GoesTo(p, steps) == job' = job /\ \E s \in steps : pc' = [pc EXCEPT ![p] = s]

PayMove(p) ==
  /\ pc[p] \in PaySteps /\ (Ends(p) \/ GoesTo(p, PaySteps))
  /\ UNCHANGED <<scenario, claims, matured>>
  /\ \/ rewards' = rewards
     \/ /\ IsClaim(p) /\ Ends(p)
        /\ rewards' = [rewards EXCEPT ![ClaimOf(p)] = @ + 1]

LEMMA PayStep ==
  ASSUME NEW p \in Procs, HandlerStep(p), ~(ListQuizzes(p) \/ CheckFunder(p) \/ AddClaim(p))
  PROVE  PayMove(p)
<1> USE DEF storeVars, quizVars, PaySteps, Ends, GoesTo, Goto, End, Answered
<1>1. CASE FindFlow(p)
  BY <1>1 DEF FindFlow, PayMove
<1>2. CASE BuildFlow(p)
  BY <1>2 DEF BuildFlow, PayMove
<1>3. CASE PersistProbe(p) \/ ReadBtcVolume(p)
  BY <1>3 DEF PersistProbe, ReadBtcVolume, PayMove
<1>4. CASE CheckLimits(p)
  BY <1>4 DEF CheckLimits, PayMove
<1>5. CASE LockWallet(p) \/ LockRefused(p)
  BY <1>5 DEF LockWallet, LockRefused, PayMove
<1>6. CASE CheckBalance(p) \/ CheckSignal(p)
  BY <1>6 DEF CheckBalance, CheckSignal, PayMove
<1>7. CASE RecordTransfer(p)
  BY <1>7 DEF RecordTransfer, PayMove, IsClaim, ClaimOf
<1>8. CASE RecordSend(p)
  BY <1>8 DEF RecordSend, PayMove
<1>9. CASE PaySucceeds(p) \/ PayFails(p) \/ PayTimesOut(p)
  BY <1>9 DEF PaySucceeds, PayFails, PayTimesOut, PayMove
<1> HIDE DEF PaySteps, Ends, GoesTo, Goto, End
<1> QED BY <1>1, <1>2, <1>3, <1>4, <1>5, <1>6, <1>7, <1>8, <1>9 DEF HandlerStep

(* A step of a handler leaves the others where they are.                   *)
LEMMA QuizTypeStep ==
  ASSUME QuizType, NEW p \in Procs, UNCHANGED scenario, NEW steps \in SUBSET HandlerSteps,
         Ends(p) \/ GoesTo(p, steps)
  PROVE  /\ QuizType'
         /\ \A q \in Procs \ {p} : pc'[q] = pc[q] /\ job'[q] = job[q]
         /\ Ends(p) => pc'[p] = "idle"
         /\ GoesTo(p, steps) => pc'[p] \in steps /\ job'[p] = job[p]
<1>1. CASE Ends(p)
  BY <1>1 DEF QuizType, Ends, GoesTo, HandlerSteps
<1>2. CASE GoesTo(p, steps)
  BY <1>2 DEF QuizType, Ends, GoesTo, HandlerSteps
<1> QED BY <1>1, <1>2

(* The others keep their claims, as long as none is paid or added twice.   *)
LEMMA OthersKeep ==
  ASSUME QuizInv, NEW p \in Procs, claims \subseteq claims',
         \A q \in Procs \ {p} : pc'[q] = pc[q] /\ job'[q] = job[q],
         NEW q \in Procs \ {p},
         Owes(q) => /\ rewards'[ClaimOf(q)] = rewards[ClaimOf(q)]
                    /\ Owes(p)' /\ ClaimOf(p)' = ClaimOf(q) => Owes(p) /\ ClaimOf(p) = ClaimOf(q)
  PROVE  QuizOK(q)'
<1>1. /\ IsClaim(q)' = IsClaim(q) /\ ClaimOf(q)' = ClaimOf(q) /\ Owes(q)' = Owes(q)
      /\ \A c : Follows(c) => Follows(c)'
      /\ QuizOK(q)
  BY DEF IsClaim, ClaimOf, Owes, Follows, QuizInv
<1>2. \A r \in Procs \ {p} : Owes(r)' = Owes(r) /\ ClaimOf(r)' = ClaimOf(r)
  BY DEF IsClaim, ClaimOf, Owes
<1>3. ASSUME Owes(q)
      PROVE  /\ ClaimOf(q) \in claims' /\ rewards'[ClaimOf(q)] = 0
             /\ \A r \in Procs : Owes(r)' /\ ClaimOf(r)' = ClaimOf(q) => r = q
  BY <1>1, <1>2, <1>3 DEF QuizOK
<1> QED BY <1>1, <1>3 DEF QuizOK

LEMMA PayNext ==
  ASSUME QuizInv, NEW p \in Procs, PayMove(p)
  PROVE  QuizInv'
<1>t. /\ QuizType' /\ (\A q \in Procs \ {p} : pc'[q] = pc[q] /\ job'[q] = job[q])
      /\ Ends(p) => pc'[p] = "idle"
      /\ GoesTo(p, PaySteps) => pc'[p] \in PaySteps /\ job'[p] = job[p]
      /\ Ends(p) \/ GoesTo(p, PaySteps)
      /\ claims' = claims /\ matured' = matured /\ QuizOK(p)
      /\ rewards \in [Users \X Quizzes -> {0, 1}]
  BY QuizTypeStep DEF QuizInv, PayMove, HandlerSteps
<1>d. PaySteps \cap ClaimSteps = {} /\ "idle" \notin PaySteps \cup ClaimSteps
      /\ {"funder", "claim"} \subseteq ClaimSteps
  BY DEF PaySteps, ClaimSteps
<1>1. CASE rewards' = rewards
  <2>1. Owes(p)' => Owes(p) /\ ClaimOf(p)' = ClaimOf(p)
    BY <1>t, <1>d DEF Owes, IsClaim, ClaimOf, PayMove
  <2>2. QuizOK(p)'
    <3>1. \A q \in Procs : Owes(q)' => Owes(q) /\ ClaimOf(q)' = ClaimOf(q)
      BY <2>1, <1>t DEF Owes, IsClaim, ClaimOf
    <3>2. pc'[p] \notin ClaimSteps
      BY <1>t, <1>d
    <3> QED BY <1>1, <1>t, <1>d, <3>1, <3>2 DEF QuizOK
  <2>3. ASSUME NEW q \in Procs \ {p} PROVE QuizOK(q)'
    BY <1>1, <1>t, <2>1, OthersKeep
  <2>4. \A q \in Procs : QuizOK(q)'
    BY <2>2, <2>3
  <2> QED BY <1>1, <1>t, <2>4 DEF QuizInv, Follows
<1>2. CASE IsClaim(p) /\ Ends(p) /\ rewards' = [rewards EXCEPT ![ClaimOf(p)] = @ + 1]
  <2>1. ClaimOf(p) \in Users \X Quizzes /\ Owes(p) /\ ~Owes(p)'
    BY <1>2, <1>t, <1>d, JobType DEF QuizInv, PayMove, Owes
  <2>2. ClaimOf(p) \in claims /\ rewards[ClaimOf(p)] = 0
    BY <2>1, <1>t DEF QuizOK
  <2>3. /\ rewards' \in [Users \X Quizzes -> {0, 1}]
        /\ \A c \in Users \X Quizzes : c # ClaimOf(p) => rewards'[c] = rewards[c]
    BY <1>2, <1>t, <2>1, <2>2, SMT
  <2>4. QuizOK(p)'
    BY <2>1, <1>2, <1>t, <1>d DEF QuizOK
  <2>5. ASSUME NEW q \in Procs \ {p} PROVE QuizOK(q)'
    <3>1. Owes(q) => ClaimOf(q) # ClaimOf(p) /\ ClaimOf(q) \in Users \X Quizzes
      BY <2>1, JobType DEF QuizInv, QuizOK, Owes
    <3> QED BY <3>1, <2>1, <2>3, <1>t, OthersKeep
  <2>6. \A q \in Procs : QuizOK(q)'
    BY <2>4, <2>5
  <2>7. \A c \in Users \X Quizzes : rewards'[c] = 1 => c \in claims
    BY <2>2, <2>3 DEF QuizInv
  <2> QED BY <1>t, <2>3, <2>6, <2>7 DEF QuizInv, Follows
<1> QED BY <1>1, <1>2 DEF PayMove

(* A request begins, or goes on to claim its reward.                       *)
LEMMA BeginNext ==
  ASSUME QuizInv, NEW p \in Procs, NEW request \in scenario.requests, pc[p] = "idle",
         Execute(p, request), UNCHANGED <<scenario, quizVars>>
  PROVE  QuizInv'
<1>t. /\ QuizType /\ claims' = claims /\ matured' = matured /\ rewards' = rewards
      /\ scenario' = scenario
  BY DEF QuizInv, quizVars
<1>1. /\ job' \in [Procs -> scenario.requests \cup {NoJob}] /\ job'[p] = request
      /\ \A q \in Procs \ {p} : job'[q] = job[q]
  BY <1>t, SMT DEF QuizType, Execute
<1>s. PICK s \in {"list", "find", "build"} :
         pc' = [pc EXCEPT ![p] = s] /\ (s = "list" <=> request.kind = "quiz")
  BY DEF Execute, Goto
<1>p. /\ pc' \in [Procs -> HandlerSteps] /\ (\A q \in Procs \ {p} : pc'[q] = pc[q]) /\ pc'[p] = s
  BY <1>t, <1>s DEF QuizType, HandlerSteps, ClaimSteps, PaySteps
<1>2. ~Owes(p)' /\ (pc'[p] \in ClaimSteps => IsClaim(p)') /\ pc'[p] \notin {"funder", "claim"}
  BY <1>1, <1>s, <1>p DEF Owes, IsClaim, ClaimSteps, PaySteps
<1>3. QuizOK(p)'
  BY <1>2 DEF QuizOK
<1>4. ASSUME NEW q \in Procs \ {p} PROVE QuizOK(q)'
  BY <1>1, <1>p, <1>2, <1>t, OthersKeep
<1>5. \A q \in Procs : QuizOK(q)'
  BY <1>3, <1>4
<1>6. QuizType'
  BY <1>1, <1>p, <1>t DEF QuizType
<1> QED BY <1>t, <1>5, <1>6 DEF QuizInv, Follows

LEMMA ClaimNext ==
  ASSUME QuizInv, NEW p \in Procs, ListQuizzes(p) \/ CheckFunder(p) \/ AddClaim(p)
  PROVE  QuizInv'
<1> DEFINE c == ClaimOf(p)
<1>t. /\ QuizType /\ matured \subseteq claims /\ matured' = matured /\ rewards' = rewards
      /\ scenario' = scenario /\ QuizOK(p) /\ pc[p] \in ClaimSteps /\ IsClaim(p)
  BY DEF QuizInv, QuizOK, ListQuizzes, CheckFunder, AddClaim, ClaimSteps, quizVars, storeVars
<1>c. c \in Users \X Quizzes /\ c[1] = job[p].account /\ c[2] = job[p].quiz
  BY <1>t, JobType DEF ClaimOf
<1>1. ASSUME Ends(p), claims' = claims PROVE QuizInv'
  <2>1. /\ QuizType' /\ (\A q \in Procs \ {p} : pc'[q] = pc[q] /\ job'[q] = job[q])
        /\ pc'[p] = "idle"
    BY <1>1, <1>t, QuizTypeStep
  <2>2. QuizOK(p)' /\ ~Owes(p)'
    BY <2>1 DEF QuizOK, Owes, ClaimSteps, PaySteps
  <2>3. ASSUME NEW q \in Procs \ {p} PROVE QuizOK(q)'
    BY <1>1, <1>t, <2>1, <2>2, OthersKeep
  <2>4. \A q \in Procs : QuizOK(q)'
    BY <2>2, <2>3
  <2> QED BY <1>1, <1>t, <2>1, <2>4 DEF QuizInv, Follows
<1>2. ASSUME GoesTo(p, {"funder", "claim"}), claims' = claims, c \in claims \/ Follows(c)
      PROVE  QuizInv'
  <2>1. /\ QuizType' /\ (\A q \in Procs \ {p} : pc'[q] = pc[q] /\ job'[q] = job[q])
        /\ pc'[p] \in {"funder", "claim"} /\ job'[p] = job[p]
    BY <1>2, <1>t, QuizTypeStep DEF HandlerSteps, ClaimSteps
  <2>2. ~Owes(p)' /\ IsClaim(p)' /\ ClaimOf(p)' = c
    BY <2>1, <1>t DEF Owes, PaySteps, IsClaim, ClaimOf
  <2>3. QuizOK(p)'
    BY <1>2, <2>2 DEF QuizOK, Follows
  <2>4. ASSUME NEW q \in Procs \ {p} PROVE QuizOK(q)'
    BY <1>2, <1>t, <2>1, <2>2, OthersKeep
  <2>5. \A q \in Procs : QuizOK(q)'
    BY <2>3, <2>4
  <2> QED BY <1>2, <1>t, <2>1, <2>5 DEF QuizInv, Follows
<1>3. ASSUME GoesTo(p, {"build"}), claims' = claims \cup {c}, c \notin claims, Follows(c)
      PROVE  QuizInv'
  <2>1. /\ QuizType' /\ (\A q \in Procs \ {p} : pc'[q] = pc[q] /\ job'[q] = job[q])
        /\ pc'[p] = "build" /\ job'[p] = job[p]
    BY <1>3, <1>t, QuizTypeStep DEF HandlerSteps, PaySteps
  <2>2. ClaimOf(p)' = c /\ pc'[p] \notin ClaimSteps
    BY <2>1 DEF ClaimOf, ClaimSteps
  <2>3. \A q \in Procs \ {p} : Owes(q)' = Owes(q) /\ ClaimOf(q)' = ClaimOf(q)
    BY <2>1 DEF Owes, IsClaim, ClaimOf
  <2>4. \A q \in Procs : Owes(q) => ClaimOf(q) # c
    BY <1>3 DEF QuizInv, QuizOK
  <2>5. rewards[c] = 0
    BY <1>3, <1>c, SMT DEF QuizInv
  <2>6. QuizOK(p)'
    BY <1>3, <1>t, <2>2, <2>3, <2>4, <2>5 DEF QuizOK, ClaimSteps
  <2>7. ASSUME NEW q \in Procs \ {p} PROVE QuizOK(q)'
    BY <1>3, <1>t, <2>1, <2>2, <2>4, OthersKeep
  <2>8. \A q \in Procs : QuizOK(q)'
    BY <2>6, <2>7
  <2>9. \A d : Follows(d) => Follows(d)'
    BY <1>3 DEF Follows
  <2>10. \A d \in claims' : Follows(d)'
    BY <1>3, <2>9 DEF QuizInv
  <2> QED BY <1>3, <1>t, <2>1, <2>8, <2>10 DEF QuizInv
<1>4. CASE ListQuizzes(p)
  <2>1. claims' = claims
    BY <1>4 DEF ListQuizzes, quizVars
  <2>2. CASE TooEarly(job[p].account, job[p].quiz)
    BY <1>1, <1>4, <2>1, <2>2 DEF ListQuizzes, End, Goto, Ends
  <2>3. CASE ~TooEarly(job[p].account, job[p].quiz)
    <3>1. c \in claims \/ Follows(c)
      BY <2>3, <1>t, <1>c DEF TooEarly, Follows, ClaimOf
    <3>2. GoesTo(p, {"funder", "claim"})
      BY <1>4, <2>3 DEF ListQuizzes, Goto, GoesTo
    <3> QED BY <1>2, <2>1, <3>1, <3>2
  <2> QED BY <2>2, <2>3
<1>5. CASE CheckFunder(p)
  <2>1. claims' = claims /\ (c \in claims \/ Follows(c))
    BY <1>5, <1>t DEF CheckFunder, quizVars, QuizOK
  <2>2. Ends(p) \/ GoesTo(p, {"funder", "claim"})
    BY <1>5 DEF CheckFunder, End, Goto, Ends, GoesTo
  <2> QED BY <1>1, <1>2, <2>1, <2>2
<1>6. CASE AddClaim(p)
  <2>1. c \in claims \/ Follows(c)
    BY <1>6, <1>t DEF AddClaim, QuizOK
  <2>2. \/ claims' = claims /\ Ends(p)
        \/ c \notin claims /\ claims' = claims \cup {c} /\ GoesTo(p, {"build"})
    BY <1>6 DEF AddClaim, End, Goto, Ends, GoesTo, ClaimOf
  <2> QED BY <1>1, <1>3, <2>1, <2>2
<1> QED BY <1>4, <1>5, <1>6

LEMMA QuizNext ==
  ASSUME QuizInv, [Next]_vars
  PROVE  QuizInv'
<1>1. ASSUME UNCHANGED <<scenario, quizVars, pc, job>> PROVE QuizInv'
  BY <1>1 DEF QuizInv, QuizType, QuizOK, Owes, IsClaim, ClaimOf, Follows, quizVars
<1>2. ASSUME NEW p \in Procs, NEW request \in scenario.requests, ReceiveWithoutKey(p, request)
      PROVE  QuizInv'
  BY <1>2, BeginNext DEF ReceiveWithoutKey, storeVars
<1>3. ASSUME NEW p \in Procs, NEW request \in scenario.requests, NEW key, NEW form,
             Receive(p, request, key, form)
      PROVE  QuizInv'
  <2>1. pc[p] = "idle" /\ UNCHANGED <<scenario, quizVars>>
    BY <1>3 DEF Receive, storeVars
  <2>2. UNCHANGED <<pc, job>> \/ Execute(p, request)
    BY <1>3 DEF Receive
  <2> QED BY <1>1, <2>1, <2>2, BeginNext
<1>4. ASSUME NEW p \in Procs, HandlerStep(p) PROVE QuizInv'
  BY <1>4, ClaimNext, PayStep, PayNext
<1>5. ASSUME NEW p \in Procs, LoseLock(p) PROVE QuizInv'
  BY <1>1, <1>5 DEF LoseLock, storeVars
<1>6. ASSUME NEW key, NEW form, MiddlewareFails(key, form) PROVE QuizInv'
  BY <1>1, <1>6 DEF MiddlewareFails, storeVars
<1>7. CASE TimePasses
  <2>1. matured' = claims /\ UNCHANGED <<scenario, claims, rewards, pc, job>>
    BY <1>7 DEF TimePasses, storeVars
  <2> QED BY <2>1 DEF QuizInv, QuizType, QuizOK, Owes, IsClaim, ClaimOf, Follows
<1>8. CASE Elsewhere \/ UNCHANGED vars
  BY <1>1, <1>8, ElsewhereStep
<1> QED BY <1>2, <1>3, <1>4, <1>5, <1>6, <1>7, <1>8 DEF Next, Elsewhere

(* A quiz is rewarded at most once per account, only if the claim is       *)
(* stored, and no quiz of a later section is claimed before the last quiz  *)
(* of the section before it, whatever claims are made at the same time and *)
(* whatever locks are lost (claimQuiz, the unique index of the claims).    *)
THEOREM QuizzesRewardedOnceInOrder == Spec => []QuizzesPaidOnceInOrder
<1>1. Init => QuizInv
  <2> SUFFICES ASSUME Init PROVE QuizInv
    OBVIOUS
  <2>1. QuizType /\ (\A p \in Procs : pc[p] = "idle")
    BY DEF Init, QuizType, HandlerSteps
  <2>2. \A p \in Procs : QuizOK(p)
    BY <2>1 DEF QuizOK, Owes, ClaimSteps, PaySteps
  <2>3. rewards \in [Users \X Quizzes -> {0, 1}] /\ \A c \in Users \X Quizzes : rewards[c] # 1
    BY SMT DEF Init
  <2> QED BY <2>1, <2>2, <2>3 DEF Init, QuizInv
<1>2. QuizInv /\ [Next]_vars => QuizInv'
  BY QuizNext
<1>3. QuizInv => QuizzesPaidOnceInOrder
  <2> SUFFICES ASSUME QuizInv PROVE QuizzesPaidOnceInOrder
    OBVIOUS
  <2>1. \A c \in Users \X Quizzes : rewards[c] <= 1 /\ (rewards[c] = 1 => c \in claims)
    BY SMT DEF QuizInv
  <2>2. \A c \in claims : Follows(c)
    BY DEF QuizInv
  <2> QED BY <2>1, <2>2 DEF QuizzesPaidOnceInOrder, Follows
<1> QED BY <1>1, <1>2, <1>3, PTL DEF Spec
=============================================================================
