---------------------------- MODULE StoredFlows -----------------------------
(***************************************************************************)
(* The collection of Lightning payment flows.  An estimate of the fee or a *)
(* payment stores the flow it has computed; a payment of the same invoice  *)
(* and amount uses it, and the updater of pending payments looks up with   *)
(* what amounts a payment was sent.  The collection has no unique index:   *)
(* several flows may have one key, and a lookup takes the one stored first.*)
(***************************************************************************)
EXTENDS ReceiveAmounts, SequencesExt

VARIABLES
  flows,       \* the collection, in the order of insertion
  deletions,   \* deletions nobody waits for: pairs of a handler and a key
  age,         \* how often the time to expiry has passed
  pending,     \* payments pending in the ledger: a handler, and the flow it sent
  paid         \* external: the hashes the node has paid

flowVars == <<flows, deletions, age>>

InitFlows == flows = << >> /\ deletions = {} /\ age = 0 /\ pending = {} /\ paid = {}

FlowKey(wallet, hash, inputAmount) ==
  [wallet |-> wallet, hash |-> hash, inputAmount |-> inputAmount]

(* rawFromPaymentFlow *)
Document(f, key, route) ==
  [key |-> key, sender |-> f.sender, recipient |-> f.recipient,
   btc |-> f.btc, usd |-> f.usd, btcFee |-> f.btcFee, usdFee |-> f.usdFee,
   route |-> route, createdAt |-> age, paymentSentAndPending |-> FALSE]

IsExpired(d) == ~d.paymentSentAndPending /\ d.createdAt < age

(* The place of the first flow with a key, 0 if there is none.             *)
FindOne(key) == SelectInSeq(flows, LAMBDA d : d.key = key)

PersistNew(d) == flows' = Append(flows, d)

(* Mutant: only the flag of the stored flow is set.                        *)
UpdateLightningPaymentFlowFlag(d) ==
  flows' = IF FindOne(d.key) = 0 THEN flows
           ELSE [flows EXCEPT ![FindOne(d.key)].paymentSentAndPending = d.paymentSentAndPending]

(* The whole flow is written; that there is none to write is only logged.  *)
UpdateLightningPaymentFlow(d) ==
  flows' = IF FindOne(d.key) = 0 THEN flows ELSE [flows EXCEPT ![FindOne(d.key)] = d]

MarkLightningPaymentFlowNotPending(key) ==
  flows' = IF FindOne(key) = 0 THEN flows
           ELSE [flows EXCEPT ![FindOne(key)].paymentSentAndPending = FALSE]

DeleteLightningPaymentFlow(p, key) ==
  /\ <<p, key>> \in deletions
  /\ deletions' = deletions \ {<<p, key>>}
  /\ flows' = IF FindOne(key) = 0 THEN flows ELSE RemoveAt(flows, FindOne(key))
  /\ UNCHANGED <<age, pending, paid>>

DeleteExpiredLightningPaymentFlows ==
  /\ \E i \in DOMAIN flows : IsExpired(flows[i])
  /\ flows' = SelectSeq(flows, LAMBDA d : ~IsExpired(d))
  /\ UNCHANGED <<deletions, age, pending, paid>>

FlowsAge(bound) ==
  /\ age < bound
  /\ age' = age + 1
  /\ UNCHANGED <<flows, deletions, pending, paid>>

(* What was sent, as the ledger transaction shows it: the debit less the   *)
(* fee, in the currency of the wallet.                                     *)
InputAmountFromLedgerTransaction(sent) == Of(PaymentAmounts(sent), CurrencyOf(sent.sender))

UpdaterKey(sent) ==
  FlowKey(sent.sender, sent.key.hash, InputAmountFromLedgerTransaction(sent))

(* The flow the updater works with: the stored one, or else one that is    *)
(* reconstructed from the ledger, with the amounts that were sent.         *)
FlowForUpdate(sent) ==
  LET i == FindOne(UpdaterKey(sent)) IN IF i = 0 THEN sent ELSE flows[i]

InTransit(hash) == \E x \in pending : x[2].key.hash = hash
=============================================================================
