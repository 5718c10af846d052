----------------------------- MODULE Transfers ------------------------------
(***************************************************************************)
(* Payments in two currencies, from the request to the ledger: the         *)
(* idempotency middleware, the payment flow, the limits of the account,    *)
(* the lock of the wallet, the balance check and the journal.  Requests    *)
(* are intraledger payments, estimates of the fee of a Lightning payment,  *)
(* Lightning payments, which may be answered late, and claims of quiz      *)
(* rewards, which the funder's account pays.                               *)
(***************************************************************************)
EXTENDS StoredFlows

CONSTANTS Procs,           \* handlers of requests
          Users,           \* accounts, each with a BTC and a USD wallet
          Scenarios,       \* what may happen together: [requests, keys, faults,
                           \* expiries].  A request is [kind, sender, recipient,
                           \* amount], with a hash for Lightning, or a claim
                           \* [kind, account, quiz]
          Sections,        \* a sequence of sections, each a sequence of quizzes
          Reward,          \* of a quiz, in satoshis
          Ratios,          \* the prices a request may meet
          MinSatsForRatio, \* MIN_SATS_FOR_PRICE_RATIO_PRECISION
          Limit,           \* per kind of volume: "intra", "trade", "netOut"
          InitBalance,     \* of each wallet at first
          Keys,            \* idempotency keys
          MaxRequests

Funder == "funder"
Wallets == (Users \cup {Funder}) \X Currencies
LedgerAccounts ==
  Wallets \cup {<<"dealer", BTC>>, <<"dealer", USD>>, <<"bankOwner", BTC>>, <<"lnd", BTC>>}
VolumeKinds == {"intra", "trade", "netOut"}
Quizzes == UNION {{s[i] : i \in DOMAIN s} : s \in {Sections[k] : k \in DOMAIN Sections}}

ASSUME RequestsAssumption ==
  \A s \in Scenarios :
    /\ s.keys \subseteq Keys
    /\ \A r \in s.requests : r.kind = "quiz" => r.account \in Users /\ r.quiz \in Quizzes

VARIABLES
  scenario,
  balance,      \* of every account of the ledger: the sum of its entries
  volume,       \* per wallet and kind, what the transactions of a day add up to
  lock,         \* the holder of a wallet's lock
  aborted,      \* handlers whose lock could not be extended
  claims,       \* the quiz collection: pairs of an account and a quiz
  matured,      \* claims that are older than the time between two sections
  keyLocks,     \* idempotency keys held in Redis, with or without the suffix
  queryKnown,   \* is the hash of the persisted query registered?
  notFound,     \* keys whose client was told to send the full query
  pc, job, flow, seen,  \* of a handler: step, request, payment flow, volume read
  started, faults,
  rewards, executions   \* history: rewards paid, requests let through per key

vars == <<scenario, balance, volume, lock, aborted, claims, matured, keyLocks, queryKnown,
          notFound, pc, job, flow, seen, started, faults, rewards, executions,
          flows, deletions, age, pending, paid>>
ledgerVars == <<balance, volume>>
quizVars == <<claims, matured, rewards>>
keyVars == <<keyLocks, queryKnown, notFound, executions>>
lockVars == <<lock, aborted>>
storeVars == <<scenario, flows, deletions, age, pending, paid>>

Free == "free"
NoJob == [kind |-> "none"]
NoFlow == [error |-> "none"]

Init ==
  /\ scenario \in Scenarios
  /\ InitFlows
  /\ balance = [a \in LedgerAccounts |-> IF a \in Wallets THEN InitBalance[a] ELSE 0]
  /\ volume = [w \in Wallets |-> [k \in VolumeKinds |-> 0]]
  /\ lock = [w \in Wallets |-> Free]
  /\ aborted = {}
  /\ claims = {} /\ matured = {}
  /\ keyLocks = {} /\ notFound = {}
  /\ queryKnown \in IF scenario.keys = {} THEN {FALSE} ELSE BOOLEAN
  /\ pc = [p \in Procs |-> "idle"]
  /\ job = [p \in Procs |-> NoJob]
  /\ flow = [p \in Procs |-> NoFlow]
  /\ seen = [p \in Procs |-> 0]
  /\ started = 0 /\ faults = 0
  /\ rewards = [c \in Users \X Quizzes |-> 0]
  /\ executions = [k \in Keys |-> 0]

Goto(p, step) == pc' = [pc EXCEPT ![p] = step]

(* The request ends, with a result or an error, and is forgotten.          *)
End(p) ==
  /\ Goto(p, "idle")
  /\ job' = [job EXCEPT ![p] = NoJob]
  /\ flow' = [flow EXCEPT ![p] = NoFlow]
  /\ seen' = [seen EXCEPT ![p] = 0]

(* Mutant: every form of a request has a key of its own.                   *)
LockNameByForm(key, form) == <<key, form>>

(***************************************************************************)
(* The idempotency middleware.  A request is plain, the hash of a          *)
(* persisted query, or the hash with the full query, which is locked under *)
(* a name of its own.  Clients are meant to send the full query only when  *)
(* they are told that the hash is not registered; nothing holds them to    *)
(* it.                                                                     *)
(***************************************************************************)
LockName(key, form) == <<key, form = "full">>

Execute(p, request) ==
  /\ Goto(p, IF request.kind = "quiz" THEN "list"
             ELSE IF request.kind \in {"lightning", "noAmount"} THEN "find" ELSE "build")
  /\ job' = [job EXCEPT ![p] = request]
  /\ UNCHANGED <<flow, seen>>

Receive(p, request, key, form) ==
  /\ pc[p] = "idle" /\ started < MaxRequests
  /\ started' = started + 1
  /\ IF LockName(key, form) \in keyLocks
     THEN UNCHANGED <<keyVars, pc, job, flow, seen>>
     ELSE /\ keyLocks' = keyLocks \cup {LockName(key, form)}
          /\ queryKnown' = (queryKnown \/ form = "full")
          /\ IF form = "hash" /\ ~queryKnown
             THEN /\ notFound' = notFound \cup {key}
                  /\ UNCHANGED <<executions, pc, job, flow, seen>>
             ELSE /\ executions' = [executions EXCEPT ![key] = @ + 1]
                  /\ Execute(p, request)
                  /\ UNCHANGED notFound
  /\ UNCHANGED <<ledgerVars, lockVars, quizVars, storeVars, faults>>

ReceiveWithoutKey(p, request) ==
  /\ pc[p] = "idle" /\ started < MaxRequests
  /\ started' = started + 1
  /\ Execute(p, request)
  /\ UNCHANGED <<ledgerVars, lockVars, quizVars, keyVars, storeVars, faults>>

(* The answer of Redis is lost: the key may be held, nothing is executed.  *)
MiddlewareFails(key, form) ==
  /\ started < MaxRequests /\ faults < scenario.faults
  /\ started' = started + 1 /\ faults' = faults + 1
  /\ keyLocks' = keyLocks \cup {LockName(key, form)}
  /\ UNCHANGED <<ledgerVars, lockVars, quizVars, queryKnown, notFound, executions,
                 storeVars, pc, job, flow, seen>>

(***************************************************************************)
(* The claim of a quiz reward.                                             *)
(***************************************************************************)
SectionOf(quiz) == CHOOSE k \in DOMAIN Sections : \E i \in DOMAIN Sections[k] : Sections[k][i] = quiz

LastQuiz(k) == Sections[k][Len(Sections[k])]

(* Mutant: no date if the section before is not completed.                 *)
TooEarlyIfStarted(account, quiz) ==
  LET k == SectionOf(quiz)
  IN /\ k # 1 /\ <<account, quiz>> \notin claims
     /\ <<account, LastQuiz(k - 1)>> \in claims \ matured

(* notBefore: a later section opens some time after the last quiz of the   *)
(* one before was claimed.                                                 *)
TooEarly(account, quiz) ==
  LET k == SectionOf(quiz)
  IN /\ k # 1 /\ <<account, quiz>> \notin claims
     /\ <<account, LastQuiz(k - 1)>> \notin matured

ListQuizzes(p) ==
  /\ pc[p] = "list"
  /\ IF TooEarly(job[p].account, job[p].quiz) THEN End(p)
     ELSE Goto(p, "funder") /\ UNCHANGED <<job, flow, seen>>
  /\ UNCHANGED <<ledgerVars, lockVars, quizVars, keyVars, storeVars, started, faults>>

CheckFunder(p) ==
  /\ pc[p] = "funder"
  /\ IF balance[<<Funder, BTC>>] < Reward THEN End(p)
     ELSE Goto(p, "claim") /\ UNCHANGED <<job, flow, seen>>
  /\ UNCHANGED <<ledgerVars, lockVars, quizVars, keyVars, storeVars, started, faults>>

(* The unique index of the collection refuses a second claim.              *)
AddClaim(p) ==
  /\ pc[p] = "claim"
  /\ LET claim == <<job[p].account, job[p].quiz>>
     IN IF claim \in claims THEN End(p) /\ UNCHANGED claims
        ELSE /\ claims' = claims \cup {claim}
             /\ Goto(p, "build") /\ UNCHANGED <<job, flow, seen>>
  /\ UNCHANGED <<ledgerVars, lockVars, matured, rewards, keyVars, storeVars, started, faults>>

TimePasses ==
  /\ matured # claims
  /\ matured' = claims
  /\ UNCHANGED <<ledgerVars, lockVars, claims, rewards, keyVars, storeVars, pc, job, flow,
                 seen, started, faults>>

(***************************************************************************)
(* The payment.                                                            *)
(***************************************************************************)
BuilderInput(request) ==
  IF request.kind = "quiz"
  THEN [sender |-> <<Funder, BTC>>, recipient |-> <<request.account, BTC>>,
        amount |-> Reward, unchecked |-> TRUE, invoiceUsd |-> NoAmount]
  ELSE [sender |-> request.sender, recipient |-> request.recipient,
        amount |-> request.amount,
        unchecked |-> request.kind \in {"intraledger", "noAmount", "probeNoAmount"},
        invoiceUsd |-> NoAmount]

KeyOf(request) == FlowKey(request.sender, request.hash, request.amount)

(* getPaymentFlow: a flow that is stored and not expired is used.          *)
FindFlow(p) ==
  /\ pc[p] = "find"
  /\ LET key == KeyOf(job[p])
         i == FindOne(key)
         stored == i # 0 /\ ~IsExpired(flows[i])
     IN /\ deletions' = IF i # 0 /\ ~stored THEN deletions \cup {<<p, key>>} ELSE deletions
        /\ flow' = IF stored THEN [flow EXCEPT ![p] = flows[i]] ELSE flow
        /\ Goto(p, IF stored THEN "btcVolume" ELSE "build")
  /\ UNCHANGED <<ledgerVars, lockVars, quizVars, keyVars, scenario, flows, age, pending,
                 paid, job, seen, started, faults>>

(* The flow of a Lightning payment is stored as soon as it is built.       *)
BuildFlow(p) ==
  /\ pc[p] = "build"
  /\ \E r \in Ratios :
       LET f == LightningFlow(BuilderInput(job[p]), r)
           d == Document(f, KeyOf(job[p]), FALSE)
       IN IF IsError(f) THEN End(p) /\ UNCHANGED flows
          ELSE /\ IF job[p].kind \in {"lightning", "noAmount"}
                  THEN PersistNew(d) /\ flow' = [flow EXCEPT ![p] = d]
                  ELSE UNCHANGED flows /\ flow' = [flow EXCEPT ![p] = f]
               /\ Goto(p, "btcVolume") /\ UNCHANGED <<job, seen>>
  /\ UNCHANGED <<ledgerVars, lockVars, quizVars, keyVars, scenario, deletions, age, pending,
                 paid, started, faults>>

VolumeKind(f) ==
  CASE f.recipient = NoWallet -> "netOut"
    [] AccountOf(f.recipient) = AccountOf(f.sender) -> "trade"
    [] OTHER -> "intra"

(* The volumes of the two wallets are read one after the other.            *)
ReadBtcVolume(p) ==
  /\ pc[p] = "btcVolume"
  /\ seen' = [seen EXCEPT ![p] =
                volume[<<AccountOf(flow[p].sender), BTC>>][VolumeKind(flow[p])]]
  /\ Goto(p, "limits")
  /\ UNCHANGED <<ledgerVars, lockVars, quizVars, keyVars, storeVars, job, flow, started, faults>>

RatioForLimits(f, r) ==
  IF f.btc < MinSatsForRatio
  THEN [btc |-> MinSatsForRatio, usd |-> UsdFromBtcMid(r, MinSatsForRatio)]
  ELSE PaymentAmounts(f)

IsProbe(request) == request.kind \in {"probe", "probeNoAmount"}

CheckLimits(p) ==
  /\ pc[p] = "limits"
  /\ \E r \in Ratios :
       LET f == flow[p]
           kind == VolumeKind(f)
           ratio == RatioForLimits(f, r)
           read == [btc |-> seen[p], usd |-> volume[<<AccountOf(f.sender), USD>>][kind]]
       IN IF IsRatio(ratio) /\ WithinLimit(f.usd, Limit[kind], ratio, read)
          THEN /\ Goto(p, IF IsProbe(job[p]) THEN "probe" ELSE "lock")
               /\ seen' = [seen EXCEPT ![p] = 0]
               /\ UNCHANGED <<job, flow>>
          ELSE End(p)
  /\ UNCHANGED <<ledgerVars, lockVars, quizVars, keyVars, storeVars, started, faults>>

(* The rest of estimateLightningFee: with or without a route, the flow is  *)
(* stored.  Without one the request may end before that, which is as if    *)
(* the handler were still at this step.                                    *)
PersistProbe(p) ==
  /\ pc[p] = "probe"
  /\ \/ PersistNew(Document(flow[p], KeyOf(job[p]), FALSE))
     \/ \E routeFee \in 0..flow[p].btcFee :
          PersistNew(Document(WithRoute(flow[p], routeFee), KeyOf(job[p]), TRUE))
  /\ End(p)
  /\ UNCHANGED <<ledgerVars, lockVars, quizVars, keyVars, scenario, deletions, age, pending,
                 paid, started, faults>>

LockWallet(p) ==
  /\ pc[p] = "lock"
  /\ lock[flow[p].sender] = Free
  /\ lock' = [lock EXCEPT ![flow[p].sender] = p]
  /\ Goto(p, "balance")
  /\ UNCHANGED <<ledgerVars, aborted, quizVars, keyVars, storeVars, job, flow, seen, started,
                 faults>>

LockRefused(p) ==
  /\ pc[p] = "lock"
  /\ lock[flow[p].sender] # Free
  /\ End(p)
  /\ UNCHANGED <<ledgerVars, lockVars, quizVars, keyVars, storeVars, started, faults>>

Unlock(p) ==
  /\ lock' = [w \in Wallets |-> IF lock[w] = p THEN Free ELSE lock[w]]
  /\ aborted' = aborted \ {p}

(* A Lightning payment also looks for a pending one of the same invoice.   *)
CheckBalance(p) ==
  /\ pc[p] = "balance"
  /\ IF /\ CoversSend(balance[flow[p].sender], flow[p])
        /\ flow[p].recipient = NoWallet => ~InTransit(flow[p].key.hash)
     THEN Goto(p, "signal") /\ UNCHANGED <<lockVars, job, flow, seen>>
     ELSE End(p) /\ Unlock(p)
  /\ UNCHANGED <<ledgerVars, quizVars, keyVars, storeVars, started, faults>>

CheckSignal(p) ==
  /\ pc[p] = "signal"
  /\ IF p \in aborted
     THEN End(p) /\ Unlock(p)
     ELSE Goto(p, "record") /\ UNCHANGED <<lockVars, job, flow, seen>>
  /\ UNCHANGED <<ledgerVars, quizVars, keyVars, storeVars, started, faults>>

LoseLock(p) ==
  /\ faults < scenario.faults
  /\ \E w \in Wallets :
       /\ lock[w] = p
       /\ lock' = [lock EXCEPT ![w] = Free]
  /\ aborted' = aborted \cup {p}
  /\ faults' = faults + 1
  /\ UNCHANGED <<ledgerVars, quizVars, keyVars, storeVars, pc, job, flow, seen, started>>

(***************************************************************************)
(* The journals.                                                           *)
(***************************************************************************)
Entry(journal, debited, credited, account) ==
    (IF account = debited THEN journal.debit ELSE 0)
  + (IF account = credited THEN journal.credit ELSE 0)
  + (IF account = <<"dealer", BTC>> THEN journal.dealer.btc ELSE 0)
  + (IF account = <<"dealer", USD>> THEN journal.dealer.usd ELSE 0)
  + (IF account = <<"bankOwner", BTC>> THEN journal.bankOwner ELSE 0)

Commit(journal, debited, credited) ==
  balance' = [a \in LedgerAccounts |-> balance[a] + Entry(journal, debited, credited, a)]

AddVolume(wallet, kind, amount) ==
  volume' = [volume EXCEPT ![wallet][kind] = @ + amount]

RecordTransfer(p) ==
  /\ pc[p] = "record" /\ flow[p].recipient # NoWallet
  /\ LET f == flow[p]
         journal == RecordIntraledger(f)
     IN /\ Commit(journal, f.sender, f.recipient)
        /\ AddVolume(f.sender, VolumeKind(f), -journal.debit)
  /\ rewards' = IF job[p].kind # "quiz" THEN rewards
                ELSE [rewards EXCEPT ![<<job[p].account, job[p].quiz>>] = @ + 1]
  /\ End(p) /\ Unlock(p)
  /\ UNCHANGED <<claims, matured, keyVars, storeVars, started, faults>>

RecordSend(p) ==
  /\ pc[p] = "record" /\ flow[p].recipient = NoWallet
  /\ LET journal == RecordSendOffChain(flow[p])
     IN /\ Commit(journal, flow[p].sender, <<"lnd", BTC>>)
        /\ AddVolume(flow[p].sender, "netOut", -journal.debit)
  /\ pending' = pending \cup {<<p, flow[p]>>}
  /\ Goto(p, "paying")
  /\ UNCHANGED <<lockVars, quizVars, keyVars, scenario, flowVars, paid, job, flow, seen,
                 started, faults>>

(* reimburseFee: what the node did not use of the fee is given back.       *)
ReimburseFee(f, actualFee) ==
  LET back == GetReimbursement(f.btcFee, actualFee, PaymentAmounts(f))
      journal == RecordReceiveOffChain(back, CurrencyOf(f.sender))
  IN IF ~HasReimbursement(f.btcFee, actualFee) \/ back.btc = 0
     THEN UNCHANGED ledgerVars
     ELSE /\ Commit(journal, <<"lnd", BTC>>, f.sender)
          /\ AddVolume(f.sender, "netOut", -journal.credit)

(* Mutant: only the wallet and the node are put right, not the dealer.     *)
VoidWithoutDealer(f) ==
  LET journal == [RecordSendOffChain(f) EXCEPT !.dealer = Zero]
  IN /\ balance' = [a \in LedgerAccounts |->
                      balance[a] - Entry(journal, f.sender, <<"lnd", BTC>>, a)]
     /\ AddVolume(f.sender, "netOut", journal.debit)

(* A journal is voided by its mirror image.                                *)
Void(f) ==
  LET journal == RecordSendOffChain(f)
  IN /\ balance' = [a \in LedgerAccounts |->
                      balance[a] - Entry(journal, f.sender, <<"lnd", BTC>>, a)]
     /\ AddVolume(f.sender, "netOut", journal.debit)

(* The answer of the node: the payment is settled or reverted, and no      *)
(* longer pending.                                                         *)
Answered(p) ==
  /\ pc[p] = "paying"
  /\ pending' = pending \ {<<p, flow[p]>>}
  /\ End(p) /\ Unlock(p)
  /\ UNCHANGED <<quizVars, keyVars, scenario, flowVars, started, faults>>

PaySucceeds(p) ==
  /\ Answered(p)
  /\ flow[p].key.hash \notin paid
  /\ paid' = paid \cup {flow[p].key.hash}
  /\ IF flow[p].route THEN UNCHANGED ledgerVars
     ELSE \E actualFee \in 0..flow[p].btcFee : ReimburseFee(flow[p], actualFee)

PayFails(p) ==
  /\ Answered(p)
  /\ Void(flow[p])
  /\ UNCHANGED paid

(* No answer in time: the payment stays pending and its flow is flagged.   *)
PayTimesOut(p) ==
  /\ pc[p] = "paying"
  /\ flow[p].key.hash \notin paid
  /\ UpdateLightningPaymentFlow([flow[p] EXCEPT !.paymentSentAndPending = TRUE])
  /\ End(p) /\ Unlock(p)
  /\ UNCHANGED <<ledgerVars, quizVars, keyVars, scenario, deletions, age, pending, paid,
                 started, faults>>

(* reimburseFailedUsdPayment: a failed payment in USD is given back to the *)
(* BTC wallet, with the amounts of the flow, not those of the journal.     *)
ReimburseFailedUsd(f) ==
  LET btcWallet == <<AccountOf(f.sender), BTC>>
      journal == RecordReceiveOffChain(TotalAmounts(f), BTC)
  IN /\ Commit(journal, <<"lnd", BTC>>, btcWallet)
     /\ AddVolume(btcWallet, "netOut", -journal.credit)

GiveBack(sent, used) ==
  IF CurrencyOf(sent.sender) = BTC THEN Void(sent) ELSE ReimburseFailedUsd(used)

(* The updater, in the lock of the wallet (its interleavings and faults    *)
(* are those of LnSend).  A payment of another amount than that of the     *)
(* flow is taken for a failed one; a fee of zero in the currency of the    *)
(* user's display is taken for a missing one and not given back.           *)
UpdatePending(p, sent) ==
  /\ <<p, sent>> \in pending
  /\ ~(pc[p] = "paying" /\ flow[p] = sent)
  /\ lock[sent.sender] = Free
  /\ pending' = pending \ {<<p, sent>>}
  /\ MarkLightningPaymentFlowNotPending(UpdaterKey(sent))
  /\ LET used == FlowForUpdate(sent)
     IN \/ GiveBack(sent, used) /\ UNCHANGED paid
        \/ /\ sent.key.hash \notin paid
           /\ paid' = paid \cup {sent.key.hash}
           /\ IF used.btc # sent.btc THEN GiveBack(sent, used)
              ELSE \/ ~sent.route /\ \E actualFee \in 0..sent.btcFee : ReimburseFee(used, actualFee)
                   \/ UNCHANGED ledgerVars
  /\ UNCHANGED <<lockVars, quizVars, keyVars, scenario, deletions, age, pc, job, flow, seen,
                 started, faults>>

RequestsUnchanged ==
  UNCHANGED <<ledgerVars, lockVars, quizVars, keyVars, scenario, pc, job, flow, seen, started,
              faults>>

HandlerStep(p) ==
  \/ ListQuizzes(p) \/ CheckFunder(p) \/ AddClaim(p)
  \/ FindFlow(p) \/ BuildFlow(p) \/ PersistProbe(p) \/ ReadBtcVolume(p) \/ CheckLimits(p)
  \/ LockWallet(p) \/ LockRefused(p) \/ CheckBalance(p) \/ CheckSignal(p)
  \/ RecordTransfer(p) \/ RecordSend(p)
  \/ PaySucceeds(p) \/ PayFails(p) \/ PayTimesOut(p)

Next ==
  \/ \E p \in Procs :
       \/ \E request \in scenario.requests :
            \/ ReceiveWithoutKey(p, request)
            \/ \E key \in scenario.keys, form \in {"plain", "hash", "full"} :
                 Receive(p, request, key, form)
       \/ HandlerStep(p)
       \/ LoseLock(p)
  \/ \E key \in scenario.keys, form \in {"plain", "full"} : MiddlewareFails(key, form)
  \/ TimePasses
  \/ \E x \in pending : UpdatePending(x[1], x[2])
  \/ \E x \in deletions : DeleteLightningPaymentFlow(x[1], x[2]) /\ RequestsUnchanged
  \/ DeleteExpiredLightningPaymentFlows /\ RequestsUnchanged
  \/ FlowsAge(scenario.expiries) /\ RequestsUnchanged

Spec == Init /\ [][Next]_vars

(***************************************************************************)
(* Properties.                                                             *)
(***************************************************************************)
TotalOf(currency, amounts) ==
  MapThenSumSet(LAMBDA a : amounts[a], {a \in DOMAIN amounts : CurrencyOf(a) = currency})

(* The ledger neither makes nor destroys money of any currency, over all   *)
(* payments, exchanges, reimbursements and voids, each of which writes     *)
(* entries of its own (EntryBuilder).                                      *)
LedgerBalanced ==
  \A c \in Currencies : TotalOf(c, balance) = TotalOf(c, InitBalance)

(* No wallet, the funder's included, is debited below zero, whatever the   *)
(* price does between the flow and the journal, as long as no lock is lost *)
(* (checkBalanceForSend under the lock of the wallet).                     *)
NoOverdraft == faults = 0 => \A w \in Wallets : balance[w] >= 0

(* The limits of a day are checked before the lock, against a volume that  *)
(* other requests are about to change.  Each handler can exceed them by    *)
(* one payment only: with n handlers, n times the limit is never passed,   *)
(* but for a cent per payment of rounding and of fee, which the check does *)
(* not count.                                                              *)
LimitPassedOnlyByOverlap ==
  \A u \in Users, kind \in VolumeKinds, r \in Ratios :
     VolumeInUsd(r, [btc |-> MaxAmount(0, volume[<<u, BTC>>][kind]),
                     usd |-> volume[<<u, USD>>][kind]])
        <= Cardinality(Procs) * Limit[kind] + started

(* The updater settles a late payment with the amounts it was sent with,   *)
(* whatever other estimates and payments of the invoice stored meanwhile,  *)
(* unless the flow was deleted by a request that had found an expired one: *)
(* four pieces of code agree on the key and on which flow comes first.     *)
(* And a flow is flagged, which keeps it from expiring, only as long as a  *)
(* payment of it is pending; a USD wallet that pays an amount in satoshis  *)
(* is the exception, as the updater looks for an amount in cents.          *)
(* (updateLightningPaymentFlow, markLightningPaymentFlowNotPending)        *)
FlowsFollowPayments ==
  /\ \A x \in pending :
       LET sent == x[2]
           used == FlowForUpdate(sent)
       IN \/ pc[x[1]] = "paying" /\ flow[x[1]] = sent
          \/ TotalAmounts(used) = TotalAmounts(sent) /\ used.btc = sent.btc
          \/ \A i \in DOMAIN flows :
               flows[i].key = sent.key => ~flows[i].paymentSentAndPending
  /\ \A i \in DOMAIN flows :
       flows[i].paymentSentAndPending =>
         \/ \E x \in pending : x[2].key = flows[i].key
         \/ CurrencyOf(flows[i].sender) = USD /\ flows[i].key.inputAmount = flows[i].btc

(* A quiz is rewarded at most once per account, only if the claim is       *)
(* stored, and no quiz of a later section is claimed before the last quiz  *)
(* of the section before it.  Claims made at the same time pass the checks *)
(* together: the unique index decides between them.  (claimQuiz)           *)
QuizzesPaidOnceInOrder ==
  /\ \A c \in Users \X Quizzes : rewards[c] <= 1 /\ (rewards[c] = 1 => c \in claims)
  /\ \A c \in claims :
       SectionOf(c[2]) = 1 \/ <<c[1], LastQuiz(SectionOf(c[2]) - 1)>> \in claims

(* While a key is held it lets one request through, however often the      *)
(* client repeats it and whatever answers are lost, and also when the hash *)
(* of the query was not found and the full query follows it.  A client     *)
(* that was not told so and sends the full query after, or before, another *)
(* form of the request is let through once more, and never a third time:   *)
(* the suffix is a second name of the key.  (idempotencyMiddleware)        *)
OncePerKey ==
  \A k \in Keys :
    \/ executions[k] <= 1
    \/ executions[k] = 2 /\ k \notin notFound /\ LockName(k, "full") \in keyLocks

(***************************************************************************)
(* Facts about the amounts of every flow and receipt over the bounded      *)
(* inputs of PaymentFlow, evaluated before the first request.              *)
(***************************************************************************)
JournalOf(f) ==
  IF f.recipient = NoWallet THEN RecordSendOffChain(f) ELSE RecordIntraledger(f)

(* A payment that is accepted takes something from its sender, gives       *)
(* something to its recipient, who is another wallet, and its journal      *)
(* balances in each currency, whichever way the other currency was found   *)
(* (withConversion, with its fallback for less than a cent).  The fee that *)
(* it reserves is not refused after the debit, where verifyMaxFee computes *)
(* the cap again from rounded amounts.  An on-chain payment that empties a *)
(* wallet takes exactly its balance, fees included, and sends no dust      *)
(* (withMinerFee).                                                         *)
PaymentsExact ==
  started = 0 =>
    /\ \A f \in Flows :
         /\ Balances(JournalOf(f))
         /\ JournalOf(f).debit < 0 /\ JournalOf(f).credit > 0
         /\ f.recipient # f.sender
    /\ \A in \in {i \in LightningInputs : i.recipient = NoWallet}, r \in FlowRatios :
         LET f == LightningFlow(in, r)
         IN IsError(f)
            \/ VerifyMaxFee(f.btcFee, PaymentAmounts(f), PaymentAmounts(f),
                            CurrencyOf(f.sender), in.unchecked, FeeCap)
    /\ \A in \in {i \in OnChainInputs : i.recipient = NoWallet}, r \in FlowRatios :
         LET f == OnChainFlow(in, r)
         IN IsError(f)
            \/ /\ Balances(RecordSendOnChain(f))
               /\ f.btc >= DustThreshold
               /\ in.sendAll => Of(TotalAmounts(f), CurrencyOf(in.sender)) = in.amount

(* The bank never pays for its customers.  The dealer does not pay out     *)
(* more than it takes in at the price of the payment, other than by the    *)
(* rounding of a fee that was found in cents: an exchange is never made at *)
(* the mid price.  What is kept of a prepaid Lightning fee pays for what   *)
(* the node charged, to within a satoshi, although the fee is converted    *)
(* forth and back (FeeReimbursement).                                      *)
BankNeverPays ==
  started = 0 =>
    /\ \A in \in {i \in LightningInputs : i.invoiceUsd = NoAmount}, r \in FlowRatios :
         LET f == LightningFlow(in, r)
             dealer == JournalOf(f).dealer
             roundedFee == IF f.recipient = NoWallet /\ in.unchecked THEN r.usd ELSE 0
         IN IsError(f) \/ dealer.btc * r.usd + dealer.usd * r.btc + roundedFee >= 0
    /\ \A f \in {f \in Flows : f.recipient = NoWallet} : \A actual \in 0..f.btcFee :
         LET back == GetReimbursement(f.btcFee, actual, PaymentAmounts(f))
         IN /\ f.btcFee - back.btc >= actual
            /\ (f.usdFee - back.usd) * f.btc >= (actual - 1) * f.usd

(* A deposit is booked with all of its satoshis, something of it reaches   *)
(* the wallet, and the journal balances although the fee was rounded up in *)
(* cents; a deposit that the fee would eat up is refused, not credited     *)
(* with zero or less (WalletAddressReceiver, recordReceiveOnChain).  An    *)
(* invoice with an amount credits the same, whether another node or a      *)
(* wallet of this bank pays it, and whatever the price is by then: two     *)
(* different pieces of code, the receiver and the payment flow, agree.     *)
ReceiptsBookedWhole ==
  started = 0 =>
    /\ \A w \in ReceivingWallets, btc \in FlowAmounts, r \in FlowRatios :
         LET received == WalletAddressReceiver(w, btc, DepositFee(btc), r)
             j == ReceiptJournal(received)
         IN IsError(received)
            \/ /\ Balances(j)
               /\ j.debit = -btc /\ j.credit > 0
               /\ j.dealer.btc * r.usd + j.dealer.usd * r.btc >= 0
    /\ \A w \in ReceivingWallets, amount \in FlowAmounts, currency \in Currencies,
         sender \in {"alice"} \X Currencies, r1, r2 \in FlowRatios :
         LET invoice == InvoiceAmounts(w, amount, currency, r1)
             received == WalletInvoiceReceiver(w, invoice.usd, invoice.btc, r2)
             f == LightningFlow([sender |-> sender, recipient |-> w, unchecked |-> FALSE,
                                 amount |-> invoice.btc, invoiceUsd |-> invoice.usd], r2)
         IN IsError(invoice) \/ IsError(f)
            \/ /\ f.recipient = received.wallet
               /\ RecordIntraledger(f).credit = ReceiptJournal(received).credit
=============================================================================
