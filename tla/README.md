# Verification of the Galoy core

Galoy is a bank on the Lightning Network and on Bitcoin: wallets in BTC and in
USD, kept in a double-entry ledger, that send and receive over Lightning
(LND nodes), on chain (the Bria service) and between themselves. The TLA+ modules
of this directory model the parts in which money, accounts or messages to the users
are handled while several processes, the network and external services act at once.
TLC checks them on small instances; TLAPS proves most of the safety properties of
the payments, and the refinement of the abstract receipt, for every instance.

All paths below are relative to `src/core/api/src` unless they start with `src/`.

## The system

| part | code | role | module |
| --- | --- | --- | --- |
| Lightning send | `app/payments/send-lightning.ts` | pay an invoice of another node | `LnSend`, `Transfers` |
| pending payments | `app/payments/update-pending-payments.ts`, `reimburse-*.ts` | resolve payments whose answer did not come in time | `LnSend`, `Transfers` |
| payment state | `domain/ledger/ln-payment-state.ts`, `domain/wallets/tx-history.ts` | the status shown for a bundle of journals | `LnPaymentState` |
| Lightning receive | `app/wallets/*-invoice*.ts`, `handle-held-invoices.ts` | hold invoices: settle, decline, cancel | `LnReceive`, `Receipt` |
| payment of an own invoice | `app/payments/send-lightning.ts`, intraledger branch | between two wallets of the bank | `LnReceive` |
| Bria events | `services/bria`, `utils/grpc-stream-client/stream.ts` | the subscription of the trigger server | `BriaStream` |
| on-chain send, cold storage | `app/payments/send-on-chain.ts`, `app/on-chain`, `servers/event-handlers/bria.ts` | payouts queued with Bria | `OnChainSend` |
| on-chain receive | `app/wallets/*-on-chain-*.ts` | outputs that pay an address of a wallet | `OnChainReceive` |
| amounts and fees | `domain/shared/calculator.ts`, `domain/payments`, `domain/ledger/fee-reimbursement.ts` | rounding, price ratios, fees | `Amounts`, `PaymentFlow` |
| receipts | `domain/wallet-on-chain`, `domain/wallet-invoices` | what a wallet is credited | `ReceiveAmounts` |
| ledger entries | `services/ledger/domain`, `services/ledger/facade` | the entries of a journal | `EntryBuilder` |
| stored flows, fee estimates | `services/mongoose/payment-flow.ts`, `app/payments/get-protocol-fee.ts` | the amounts of a payment, kept from its estimate to its end | `StoredFlows`, `Transfers` |
| intraledger send, limits | `app/payments/send-intraledger.ts`, `app/accounts/account-limit.ts` | payments between wallets, volumes of a day | `Transfers` |
| idempotency, quiz rewards | `servers/middlewares/idempotency.ts`, `app/quiz` | repeated requests; rewards paid by the funder | `Transfers` |
| accounts, users, logins | `app/accounts`, `app/authentication`, `services/kratos` | identity, user, account, wallets | `Users` |
| notifications | `src/core/notifications` | settings, pushes, mails, reminders | `Notifications`, `NotificationSettings` |
| jobs, event-sourced entities | `src/lib/job-executor-rs`, `src/lib/es-entity-rs` | the queue of the Rust services and their stored entities | `JobQueue`, `NotificationSettings` |
| locks | `services/lock` | redlock on Redis: per wallet, payment hash, output, key | in each module |
| vouchers, API keys, GraphQL, web applications | `src/apps`, `src/core/api-keys`, `graphql` | | not modelled |

How the parts interact: a request is let through by the idempotency middleware, its
payment flow is computed or found in the collection, its limits are checked, and only
then it takes the lock of its wallet. Under the lock it checks the balance, writes a
journal with `pending: true` and calls the node or Bria. Cron jobs and the trigger
server later bring the ledger in line with what the node or Bria did. The lock, the
pending flag and the order of the writes are all that keeps the ledger right: there is
no transaction around them. Users are spread over Kratos, MongoDB and the
notifications service in the same way; inside the notifications service Postgres
transactions tie a job to the jobs that it spawns.

## The modules

Every `await` on the ledger, the lock, the node, Bria or a store ends a step, so all
interleavings at those points are explored. A lock is taken, refused (all retries
of redlock failed), released, or lost (it could not be extended; the abort signal
of its holder is set, which only some callers look at).

**LnSend.** A process is an attempt (one run of `executePaymentViaLn`) or an
updater (`updatePendingPaymentsByWalletId`, over and over). `ledger` is the list
of journals, each named by its kind and its attempt, `pending` the attempts whose
transactions are pending, `balance` what the journals add up to, `bundle` the
stored payment state, `lnd` the latest payment of each hash in the node (external).
The attempt goes through `CheckInTransit`, `CheckBalance`, `PrepareSend` (the abort
signal), `RecordSend`, `PayStart`, then `PayResult` or `PayTimeout`; the updater
through `ListPending`, `LookupPayment` (before the lock, as in the code),
`CheckPending`, `FindFlow`; both end with `SettlePending`, `Revert` or
`ReimburseFee`, and `Finish`. Amounts of both currencies are in one unit.
`WaitersAreFresh` states a real-time fact: the retries for a lock last about 6
seconds, less than the 45 seconds after which an attempt gives up.

**LnPaymentState** holds `LnPaymentStateDeterminator` and `statusFromTxn` as pure
operators; `LnSend` applies them to the journals of a hash.

**LnReceive.** Handlers (`handleHeldInvoices`, `handleHeldInvoiceByPaymentHash`),
cancellations and intraledger senders act on an invoice, which has a state in the
node (external) and the flags `paid` and `processingCompleted` in the database. The
decline path cancels an invoice that is not held, as the code does: the `notPaid()`
of that branch is not returned. **Receipt** is the promise: waiting, then
claimed, then credited; or closed. `ImplementsReceipt` is the refinement.

**BriaStream.** The log of Bria, the connection with `afterSequence`, and slots for
the handlers that run at the same time (listeners are not awaited). Handlers,
`persistEvent`, the stream and the whole server may fail. Two history variables, which
no action reads, say when handlers overlapped: `overtaken` has the events that were
being handled when a later one arrived, `doubled` those that arrived once more while
they were handled. **OnChainSend** and **OnChainReceive** extend it with what the handlers do to the ledger, and with the
requests of the users; they check its properties too. `PayoutCommitted` is left out,
its handler does nothing. In `OnChainReceive` all outputs pay one address of one
wallet; the request id of the next address is named after the output. An error of
`getLastOnChainAddress` is not looked at by the code, so that no new address is asked
for: `unread` remembers for which outputs that happened.

**Amounts, EntryBuilder, PaymentFlow, ReceiveAmounts** are pure: the integer
arithmetic on satoshis and cents, the entries of every kind of journal (`dealer` is the
exchange between the dealer's two accounts), the two payment flow builders up to the
amounts and fees in both currencies, and the two receivers. They are written as the
code computes, division and rounding included. The dealer is external and rounds in its
own favour; a price is any of a set of ratios, chosen anew at each call.

**StoredFlows** is the collection of Lightning payment flows: a sequence of documents
in the order of insertion, since there is no unique index and `findOne` takes the first
of a key (wallet, hash, input amount). `age` counts how often the time to expiry has
passed; a flow flagged `paymentSentAndPending` does not expire. The deletion of an
expired flow that `findLightningPaymentFlow` starts is not awaited there, so it is a
pending operation of its own (`deletions`).

**Transfers** composes all of these. A handler takes a request through the middleware
(`Receive`, `Execute`; a request with the full query next to the hash takes a second name
of its key, `LockName`), for a quiz through `ListQuizzes`, `CheckFunder` and `AddClaim`,
then `FindFlow` or `BuildFlow`, `ReadBtcVolume` and `CheckLimits` (two reads, before
the lock), and ends with `PersistProbe` for an estimate, or with `LockWallet`,
`CheckBalance`, `CheckSignal` and `RecordTransfer` or `RecordSend`. A Lightning payment
then gets its answer (`PaySucceeds`, `PayFails`), or none in time (`PayTimesOut`), and
`UpdatePending` settles it later with the flow it finds. `balance` has the wallets, the
node, the bank and the dealer's accounts; `volume` what each wallet has sent today. The
interleavings inside the locked section, its faults and the stale list of the updater
are those of `LnSend`; here it is one step.

**JobQueue** is sqlxmq with the `JobExecutor`: enqueue, poll with a lease, checkpoint
of an attempt, completion in a transaction with what the job has written, interruption,
and a lease that ends under a running job. **NotificationSettings** is the log of events
from which the settings of a user are folded, with its unique sequence numbers.
**Notifications** adds the jobs: dispatch to all users page by page, to many, to one,
pushes (tokens the provider refuses are forgotten) and mails, price changes with their
cool-off, and the reminders to link an email address. Readers use a replica that lags.

**Users** is the identity in Kratos, the document of the user, the account with its
wallets and the settings above. Each request (logins by phone and device, upgrade,
`verifyPhone`, `removePhone`, `addEmail`, `verifyEmail`, `removeEmail`, deletion, change
of status, `updateUserPhone`) is a list of reads and writes of whole records; requests
overlap, a store may refuse a write, and a request may be cut off after any of them.

The MC modules give the constants small values; they define no behaviour. In
`Transfers` and `Users` a behaviour starts with one of several scenarios, a record of
the requests that may come and of the faults that may happen, so that what cannot
disturb one another is not multiplied.

## What the runs show

| run | instance | shows |
| --- | --- | --- |
| `ln_send_distinct` | a BTC and a USD payment, 2 updaters, a lost lock | resolved payments are charged exactly; the status is true; nothing in flight is resolved |
| `ln_send_retry` | 3 attempts of one wallet, 2 of them at one invoice | no overdraft, one pending payment per hash, no refund of what is paid |
| `ln_send_faults` | a USD payment, 2 updaters, 2 faults of any kind | credited back at most once, and resolved at last if it reached the node |
| `ln_receive_safe` | a USD invoice, 2 handlers, a cancellation, 2 senders of one wallet, an interruption | `Receipt` is implemented (so credited at most once); `FlagsTruthful`: closed means unclaimed, paid means recorded; no second transfer |
| `ln_receive_live` | a BTC invoice and a USD invoice paid with less than a sat, a handler, a cancellation, a fault | credited only if settled; claimed is credited and held is released at last (`HeldEventuallyEnds`) |
| `on_chain_send_overlap` | a payment and a cold transfer, 2 handlers at a time, 2 faults of any kind | only an overtaken event is skipped (`EventsCovered`); the ledger shows every persisted event as far as those before it were in order (`LedgerFollowsBria`); a payment is given back once (`GivenBackOnce`) |
| `on_chain_send_live` | 2 payments and a cold transfer, one handler at a time, 2 handler failures | no overdraft, payouts reach the ledger at last |
| `on_chain_receive_overlap` | 2 outputs, 2 handlers at a time, a fault | credited once, not pending again; a paid address is replaced (`AddressRotated`) and an address is stored once (`AddressesDistinct`), with the exceptions below |
| `on_chain_receive_live` | 2 outputs, one handler at a time, 2 faults, lost locks | outputs are credited at last |
| `transfers` | 2 handlers, 3 requests, 5 scenarios, 2 prices; 11 amounts, 4 fees and 4 ratios for the arithmetic | see below |
| `users` | 13 scenarios, 3 users, 2 workers | see below |

`transfers` checks, of behaviours: the books balance in both currencies at every moment
(`LedgerBalanced`); no wallet is overdrawn (`NoOverdraft`); requests at once pass a limit
by no more than each could have sent alone (`LimitPassedOnlyByOverlap`); the updater
works with the amounts a late payment was sent with (`FlowsFollowPayments`); quizzes are
rewarded once and in order; an idempotency key lets one request through, and a second one
only for a full query that nobody asked for (`OncePerKey`). And of the
arithmetic, for every flow and receipt over the bounded amounts: a payment takes from
the wallet what it says, sending all included (`PaymentsExact`), no rounding makes the
bank or the dealer pay (`BankNeverPays`), and receipts are booked in full
(`ReceiptsBookedWhole`).

`users` checks that the log of a user's settings can be replayed (`LogReplays`), that a
dispatch reaches every user once and ends (`ReachedExactlyOnce`,
`DispatchEventuallyDone`), that nobody is told twice in a cool-off (`QuietInCoolOff`), and
of the three stores: who can log in has an account (`LoginHasAccount`), a deleted
identity has a closed account (`DeletedIsClosed`), and phone and email agree
(`StoresAgree`).

Why the bounds are enough: each hazard of PROJECT.json needs at most two processes
of a kind on one invoice, payout, output, wallet or user, and one or two faults; two
hashes, two wallets or two outputs show that they do not disturb each other. `MaxFaults`,
`MaxLog`, `MaxTransfers` (a cold transfer is recorded at each handling of its event),
`MaxRequests` and the bounds of a scenario are the only bounds on behaviour, and
all are in the guards. The amounts of `transfers` are chosen around what the code
compares with: less than a cent, the dust threshold, the minimum fee, the limit of an
account, the balance with and without the fee. Three requests of two handlers are one
that came before and two that overlap; one expiry is enough for a flow to expire before,
during and after a payment. Slots, updaters and handlers are symmetric in the safety
runs; `on_chain_receive_overlap` has a `VIEW` without the variable `overtaken`, which
neither its actions nor its properties read. Deadlock is not checked, since every request may end and the system then rests.

Fairness: a process that has started goes on (its calls return or fail), the node
ends what is in flight, the cron jobs come back to everything that is pending, a
waiting process finds the lock free at some retry or at a later call, the lock of a
stopped process expires, the reconnect timer fires, and the job runners poll while there
are jobs. Nobody has to pay, to cancel, to time out or to send a request.

What single properties assume, because the code does not give more:

- `ImplementsReceipt` and `CreditedOnce`: no lock is lost while another handler is
  at work. Neither callback looks at the abort signal, and with a lost lock the models
  reach a second credit.
- `FlagsTruthful`, `HeldEventuallyEnds`: no interruption between `markAsPaid` and the
  journal, a case the code logs. The second is about BTC invoices: a claimed USD invoice
  whose handler was interrupted and which then gets old is only declined.
- `ChargedExactly`, `StatusTruthful`, `AtMostOneCredit`: one attempt per invoice.
- `RefundedNeverPaid`: no connection to LND drops. That is taken for a failure, after
  which the payment may still be made. The same happens on chain when an answer of Bria is
  lost, so nothing of the kind is claimed there: the payment is given back, once, and the
  payout may still be sent.
- `EventsCovered`: an event that was overtaken may be lost. It is enough that a later one
  is persisted and the server stops, or that both handlers fail, the earlier one first: the
  next request starts after it. With one handler at a time nothing is overtaken.
- `LedgerFollowsBria`: the hash, the corrected fee and the end of the pending state are
  promised only if no earlier event of the payout was overtaken, since their handlers
  look for what the handlers of the earlier events write, and pass over what they do not
  find. A second correction of the fee is possible if the broadcast arrives again while it
  is handled, and the correction stays pending if the payment was given back.
- `AddressRotated`: the current address was read; on an error of the read the receipt is
  recorded without a request for a new address and the event is persisted.
  `AddressesDistinct`: the event did not arrive again while it was handled.
- `OncePerKey`: no key expires. Clients send the full query when they are told that its
  hash is not registered, and then one request runs; a client that sends it unasked gets a
  second one through, never a third.
- `PayoutsEventuallyFollowed`: an event is persisted once its handler is done; if
  not, the second handling of a cancelled payout is an error for ever, and the second
  handling of a cold transfer records it again.
- `NoOverdraft`: no lock is lost. The abort signal is read once, before the journal is written.
  `LimitPassedOnlyByOverlap`: the limit times the number of handlers, and a cent of
  rounding for each request.
- `FlowsFollowPayments`: excepted are a flow that expired while its payment was in flight
  and was then deleted (a new estimate may take its place), and the flag of a USD wallet
  that pays an amount in satoshis: the updater looks for an amount in cents, works from
  the ledger instead and leaves the flag set.
- `ReachedExactlyOnce`: no lease ends under a running job; with as many failures as
  attempts a dispatch ends early, and so `DispatchEventuallyDone` assumes fewer.
  `QuietInCoolOff`: no two reminder jobs list at the same moment.
- `LoginHasAccount`: no request is cut off (a later login does not repair the account).
  `DeletedIsClosed`, `StoresAgree`: requests of one user do not overlap, as each writes
  whole records back; and where Kratos refuses a phone that MongoDB has taken, the two
  stay different.

## Disagreements between the code and what it says

`ln_send_stale_list` ends with a violation; PROJECT.json quotes the line. An updater
with an old attempt in its list clears the pending flag of a retry of the same invoice,
and the failed retry is not given back. The accounts of the users then differ from what
the node manages.

One more was met while modelling and has no run:

- The journal of a cancelled payout is voided and left pending
  (`services/ledger/facade/onchain-send.ts:119`), although the other revert of a payment
  clears the flag first (`services/ledger/send.ts:39`). In `OnChainSend` a state with a
  payment both in `voided` and in `pending` is reached.

Other behaviours the models reach, of which no document says otherwise, are in the notes
of the hazards in PROJECT.json.

## What is proved

The theorems hold for every value of the constants that satisfies the named
assumptions of the modules: any number of attempts, updaters, handlers, senders,
wallets, invoices, payouts, outputs, faults and restarts, and all amounts. A further
hypothesis is part of the statement of its theorem and restricts the faults or the requests;
it is there because the argument, or the code, needs it.

| module | theorem | states | hypothesis |
| --- | --- | --- | --- |
| `LnSendProofs` | `TypeCorrect` | `[]TypeOK` | |
| | `NoOverdraft` | `[]BalanceNonNegative` | no lock is lost |
| | `OnePending` | `[]OnePendingPerHash` | no lock is lost, an invoice is paid from one wallet |
| `LnSendChargeProofs` | `CreditedAtMostOnce` | `[]AtMostOneCredit` | one attempt per invoice |
| | `NeverRefundedAndPaid` | `[]RefundedNeverPaid` | and no connection to LND drops |
| | `InFlightStaysPending` | `PendingWhileInFlight`, an action property | the same |
| | `ResolvedIsChargedExactly` | `[]ChargedExactly` | one attempt per invoice, only locks fail, a fee not known in advance is not zero in the display currency |
| `LnReceiveProofs` | `TypeCorrect` | `[]TypeOK` | |
| | `NothingUnclaimedIsCredited` | `[]CreditedOnlyIfSettled` | |
| | `ReceivingImplementsReceipt` | `ImplementsReceipt`, the refinement of `Receipt` | no lock is lost |
| | `OneTransferPerWallet` | `[]NoSecondTransfer`, for the payments of one wallet | no lock is lost |
| | `FlagsTellTheTruth` | `[]FlagsTruthful` | and nothing below a cent is paid, no interruption between claim and journal |
| `OnChainSendProofs` | `TypeCorrect` | `[]TypeOK` | |
| | `NoPayoutSkipped` | `[]EventsCovered` | |
| | `NoOverdraft` | `[]BalanceNonNegative` | no lock is lost |
| | `LedgerFollows` | `[]LedgerFollowsBria` | |
| `OnChainReceiveProofs` | `NoReceiptSkipped` | `[]EventsCovered` | |
| | `ReceiptsOnce` | `[]CreditedOnce` | no lock is lost |
| | `PaidAddressRotated` | `[]AddressRotated` | |
| | `OneOfEachAddress` | `[]AddressesDistinct` | |
| `TransfersProofs` | `KeysLetOneThrough` | `[]OncePerKey` | |
| | `QuizzesRewardedOnceInOrder` | `[]QuizzesPaidOnceInOrder` | |
| `EntryBuilderProofs` | `JournalsBalance` | every journal balances in both currencies | a fee between two USD accounts is not rounded to nothing in cents |

None of these invariants is inductive as it stands. What was added, and why:

- **LnSend, types.** A step looks up the hash and the wallet of `current[p]`, so
  `TypeInv` adds that a process past its choice works on an attempt.
- **LnSend, locks.** `SolventInv` adds that a process in the locked section holds the
  lock of its wallet (`LockInv`), and that between the check and the record the balance
  still covers the debit (`FundsInv`): only the holder debits the wallet, all others
  credit it. `PendingInv` adds that an attempt past `CheckInTransit` has no pending
  payment of its hash next to it until it records its own (`ClearInv`). `OnePending`
  needs its second hypothesis: each of two wallets holds only its own lock while it
  looks for a pending payment of the hash.
- **LnSend, charges.** No lock is needed here. Clearing the pending flag is what
  decides who resolves a payment, and `CreditInv` follows the right to credit it: it is
  in the flag, then with the one process that cleared it, then in the one journal it
  wrote. `AnswerInv` adds that what a process was told agrees with the node, whose
  payments do not change once they have ended; that needs the hypothesis on the
  connection, since a dropped one is told as a failure. `ChargeInv` adds that a
  payment which nobody holds or is about to credit has its credit, unless the node
  has spent all that was taken. A stopped process leaves such a payment without it, so
  the hypothesis excludes stops.
- **LnReceive.** `ClaimInv` rests on the node alone: what is settled stays settled.
  `OnceInv` adds that a handler past its second look at the invoice, under the lock,
  works on one that is not credited. With it every step maps to a step of `Receipt` or
  to a stutter. `CancelInv` and `FlagsInv` say what a cancellation and a handler still
  know of an invoice they have checked.
- **BriaStream.** `BriaStreamProofs` has the lemmas for both users of the stream.
  `CoveredInv` says that up to `afterSequence`, and up to the last event sent, all is
  persisted, overtaken or being handled; that before an event which is persisted or
  handled all is persisted or overtaken; and that two handlers have the same event only
  if it arrived once more. The second part is what lets a handler rely on the earlier ones.
- **OnChainSend.** `SolventInv` is the argument of `LnSend` for the lock of a wallet. For
  `LedgerFollows`: `LogInv` says that the events of a payout are in order, so that by
  `CoveredInv` a handler of an event which nothing overtook finds what the handlers of the
  earlier ones have written; `BroadcastInv` that a payout is broadcast by one event;
  `OnceInv` that a handler about to correct a fee finds it uncorrected, or its event
  was doubled; `LateInv` that a correction which comes after the payout was settled is that
  of a payment given back; `ShowInv` that an event which only waits to be persisted is
  already shown.
- **OnChainReceive.** `CreditInv` follows a handler from the lock and its look for the
  receipt to the journal. `AddressInv` says that a receipt without a request for a new
  address came after one, or after an error when the current one was read; it needs no
  lock. `DistinctInv` adds that the address about to be added is not there, unless two
  handlers have the event that asks for it.
- **Transfers.** `KeyInv` says what the two names of a key in Redis tell of its
  executions: each lets one request through, and the plain one lets none through if it was
  taken by a hash that was not registered. `QuizInv` says that a stored claim has at most one process
  that owes its reward, and that it is the one whose insertion succeeded; the unique
  index gives this, no lock. `RequestsAssumption` is about the constants only.
- **EntryBuilder.** A case split over the two currencies; in each case the entries
  cancel. The proviso is the case in which the code does not balance.

`CreditInv`, `AnswerInv` and `ChargeInv` of `LnSend` were model-checked before they were proved.

Only model-checked, and why:

- Liveness (`PendingEventuallyResolved`, `HeldEventuallyEnds`,
  `PayoutsEventuallyFollowed`, `EventuallyCredited`, `DispatchEventuallyDone`): fairness
  and `ENABLED` are out of the prover's reach.
- `StatusTruthful`: the payment state is found by filtering the journals of a hash, and
  what a filter of a sequence returns needs an induction over the sequence.
- `LedgerBalanced` and `GivenBackOnce`: sums over sets, which are folds. `JournalsBalance`
  is the arithmetic the first rests on.
- `NoOverdraft` and `FlowsFollowPayments` of `Transfers`: expired flows are removed by a
  filter of the collection. `LimitPassedOnlyByOverlap` counts handlers.
- `PaymentsExact`, `BankNeverPays`, `ReceiptsBookedWhole`: nonlinear arithmetic with
  division and rounding over price ratios, for which TLC enumerates the inputs.
- The properties of `Notifications` and `Users`: folds over logs of events, and programs
  that are sequences of writes.

## Not modelled

- Parsing and encoding of messages, the GraphQL layer, the layout of answers, templates,
  tracing, and the user interfaces: pure, or without state that is shared.
- Vouchers (`src/apps/voucher`): a web application with withdraw links of its own. Its
  payout reads the status of a link and changes it later without a lock or a
  transaction; a model would restate that.
- API keys: a service of single database statements. Merchants, contacts, support,
  locale, levels, TOTP, captcha and rate limits: thin calls of a store or of a library.
- Legacy on-chain receipts, which Bria superseded; channel management, rebalancing and
  escrow of LND; the history and acknowledgement of notifications.
- The expiry of an idempotency key after an hour, and back-off times.

External and modelled by their use: LND, Bria, medici, MongoDB, Redis, Kratos, sqlxmq's
Postgres, the dealer and the price server.

The map of PROJECT.json names about 10,470 lines of the code. That is a small share of
the repository, of which most is generated (protocol buffers and GraphQL types alone
are more than 28,000 lines), user interface, configuration, build rules and tests'
support; of the hand-written code of the core API's app, domain and service layers,
the notifications service and the Rust libraries it is between a fifth and a quarter.
PROJECT.json lists every component with its reason.

## Plan

1. Proofs: `DeletedIsClosed` of `Users`, `NoOverdraft` of `Transfers` where no stored flow
   expires, and the lemmas on filtered sequences once an induction can be checked.
2. `LnPaymentState` against a history of several attempts.
3. The intraledger branch of an on-chain payment as steps, and vouchers if their payout
   gets a lock.
