---------------------------- MODULE OnChainReceive ----------------------------
(***************************************************************************)
(* On-chain receipts: the events of Bria about the outputs that pay an     *)
(* address of a wallet.                                                    *)
(*                                                                         *)
(*   servers/event-handlers/bria.ts                    utxo... handlers    *)
(*   app/wallets/add-pending-on-chain-transaction.ts                       *)
(*   app/wallets/add-settled-on-chain-transaction.ts                       *)
(*   app/wallets/remove-pending-on-chain-transaction.ts                    *)
(*   app/wallets/create-on-chain-address.ts, get-last-on-chain-address.ts  *)
(*                                                                         *)
(* All outputs pay the first address of one wallet, with more than the     *)
(* dust threshold (the others are passed over by the handlers).  The       *)
(* request id of the address that follows a receipt, and that address, are *)
(* named after the output.                                                 *)
(***************************************************************************)
EXTENDS BriaStream

CONSTANTS
    Utxos, None,
    Expiring,       \* the owner of a lock whose process has stopped
    First, Own,     \* the first address, and one that the user asks for
    LockLoss        \* whether a lock may expire under its owner

ASSUME ReceiveAssumption ==
    /\ {None, Expiring} \cap Slots = {} /\ None # Expiring
    /\ {First, Own} \cap Utxos = {} /\ First # Own
    /\ LockLoss \in BOOLEAN

VARIABLES
    lock,           \* the slot that holds the lock of each output
    request,        \* newAddressRequestId of each slot
    receipts,       \* number of receipts of each output in the ledger
    requested,      \* the outputs whose receipt has a request id
    pendingReceives,\* the outputs in the collection of pending receives
    briaAddresses,  \* the addresses Bria has made for a request id
    addresses,      \* the addresses of the wallet, in the order of the array
    utxo,           \* the state of each output in Bria
    unread          \* history: outputs for which the current address was not read

receiptVars == <<receipts, requested, unread>>
addressVars == <<briaAddresses, addresses>>
receiveVars == <<lock, request, receiptVars, pendingReceives, addressVars, utxo>>
vars == <<streamVars, receiveVars>>

-----------------------------------------------------------------------------
Handling(k, type) == EventOf(k).type = type
Utxo(k) == EventOf(k).of
Continue(k, step) == Step(k, step) /\ UNCHANGED <<log, connection, persisted, faults>>
Returns(k) == Continue(k, "persist")
FindLastByWalletId == addresses[Len(addresses)]
Release(k) == lock' = [u \in Utxos |-> IF lock[u] = k THEN None ELSE lock[u]]

Init ==
    /\ StreamInit
    /\ lock = [u \in Utxos |-> None]
    /\ request = [k \in Slots |-> FALSE]
    /\ receipts = [u \in Utxos |-> 0] /\ requested = {} /\ unread = {}
    /\ pendingReceives = {}
    /\ briaAddresses = {} /\ addresses = <<First>>
    /\ utxo = [u \in Utxos |-> "none"]

\* Bria sees, drops or settles an output (external).
BriaStep(u, from, to) ==
    /\ utxo[u] = from
    /\ utxo' = [utxo EXCEPT ![u] = to]
    /\ Emit([type |-> to, of |-> u])
    /\ UNCHANGED <<connection, slot, persisted, faults, lock, request, receiptVars,
                   pendingReceives, addressVars>>
Detect(u) == BriaStep(u, "none", "detected")
Drop(u) == BriaStep(u, "detected", "dropped")
Settle(u) == BriaStep(u, "detected", "settled")

\* The user asks for a new address: createOnChainAddress without a request id.
CreateOnChainAddress ==
    /\ Own \notin Range(addresses)
    /\ addresses' = Append(addresses, Own)
    /\ UNCHANGED <<streamVars, lock, request, receiptVars, pendingReceives, briaAddresses, utxo>>

(***************************************************************************)
(* lockOnChainTxHashAndVout, for the detected and the settled events.      *)
(***************************************************************************)
AcquireLock(k) ==
    /\ At(k, "handle") /\ ~Handling(k, "dropped")
    /\ lock[Utxo(k)] = None
    /\ lock' = [lock EXCEPT ![Utxo(k)] = k]
    /\ Continue(k, IF Handling(k, "detected") THEN "checkPending" ELSE "checkRecorded")
    /\ UNCHANGED <<request, receiptVars, pendingReceives, addressVars, utxo>>

\* Mutant: the event of an output whose lock is taken is passed over.
LockUnavailablePassed(k) ==
    /\ At(k, "handle") /\ ~Handling(k, "dropped")
    /\ lock[Utxo(k)] # None
    /\ Returns(k)
    /\ UNCHANGED receiveVars

\* All attempts failed: the error is the answer of the handler.
LockUnavailable(k) ==
    /\ At(k, "handle") /\ ~Handling(k, "dropped")
    /\ lock[Utxo(k)] # None
    /\ Retry(k) /\ UNCHANGED faults
    /\ UNCHANGED receiveVars

(***************************************************************************)
(* addPendingTransaction and removePendingTransaction.                     *)
(***************************************************************************)
\* isOnChainReceiptTxRecordedForWallet: a receipt in the ledger is not pending any more.
CheckPending(k) ==
    /\ At(k, "checkPending")
    /\ IF receipts[Utxo(k)] > 0
       THEN /\ pendingReceives' = pendingReceives \ {Utxo(k)}
            /\ Release(k) /\ Returns(k)
       ELSE Continue(k, "persistPending") /\ UNCHANGED <<lock, pendingReceives>>
    /\ UNCHANGED <<request, receiptVars, addressVars, utxo>>

\* persistNew; an output that is there already is fine.
PersistPending(k) ==
    /\ At(k, "persistPending")
    /\ pendingReceives' = pendingReceives \cup {Utxo(k)}
    /\ Release(k) /\ Returns(k)
    /\ UNCHANGED <<request, receiptVars, addressVars, utxo>>

\* removePendingTransaction takes no lock.
UtxoDropped(k) ==
    /\ At(k, "handle") /\ Handling(k, "dropped")
    /\ pendingReceives' = pendingReceives \ {Utxo(k)}
    /\ Returns(k)
    /\ UNCHANGED <<lock, request, receiptVars, addressVars, utxo>>

(***************************************************************************)
(* addSettledTransaction.                                                  *)
(***************************************************************************)
\* Mutant: without the look at the ledger.
CheckRecordedSkipped(k) ==
    /\ At(k, "checkRecorded")
    /\ Continue(k, "readAddress")
    /\ UNCHANGED receiveVars

\* Mutant: the request id of the receipt is not read.
CheckRecordedWithoutRequest(k) ==
    /\ At(k, "checkRecorded")
    /\ IF receipts[Utxo(k)] > 0
       THEN /\ request' = [request EXCEPT ![k] = FALSE]
            /\ Release(k) /\ Continue(k, "remove")
       ELSE Continue(k, "readAddress") /\ UNCHANGED <<lock, request>>
    /\ UNCHANGED <<receiptVars, pendingReceives, addressVars, utxo>>

CheckRecorded(k) ==
    /\ At(k, "checkRecorded")
    /\ IF receipts[Utxo(k)] > 0
       THEN /\ request' = [request EXCEPT ![k] = Utxo(k) \in requested]
            /\ Release(k) /\ Continue(k, "remove")
       ELSE Continue(k, "readAddress") /\ UNCHANGED <<lock, request>>
    /\ UNCHANGED <<receiptVars, pendingReceives, addressVars, utxo>>

\* getLastOnChainAddress: a new address is due when the current one was paid.
ReadAddress(k) ==
    /\ At(k, "readAddress")
    /\ request' = [request EXCEPT ![k] = FindLastByWalletId = First]
    /\ Continue(k, "record")
    /\ UNCHANGED <<lock, receiptVars, pendingReceives, addressVars, utxo>>

\* Its error is compared with the address like any other answer, and no address is due.
ReadAddressFails(k) ==
    /\ Fault("handler")
    /\ At(k, "readAddress")
    /\ request' = [request EXCEPT ![k] = FALSE]
    /\ unread' = unread \cup {Utxo(k)}
    /\ Step(k, "record")
    /\ UNCHANGED <<log, connection, persisted, lock, receipts, requested, pendingReceives,
                   addressVars, utxo>>

\* recordReceiveOnChain, with the request id; the lock is released after it.
Record(k) ==
    /\ At(k, "record")
    /\ receipts' = [receipts EXCEPT ![Utxo(k)] = @ + 1]
    /\ requested' = IF request[k] THEN requested \cup {Utxo(k)} ELSE requested
    /\ Release(k) /\ Continue(k, "remove")
    /\ UNCHANGED <<request, unread, pendingReceives, addressVars, utxo>>

RemovePending(k) ==
    /\ At(k, "remove")
    /\ pendingReceives' = pendingReceives \ {Utxo(k)}
    /\ Continue(k, IF request[k] THEN "findAddress" ELSE "persist")
    /\ UNCHANGED <<lock, request, receiptVars, addressVars, utxo>>

(***************************************************************************)
(* createOnChainAddress with a request id.                                 *)
(***************************************************************************)
FindAddress(k) ==
    /\ At(k, "findAddress")
    /\ Continue(k, IF Utxo(k) \in briaAddresses THEN "isRecorded" ELSE "newAddress")
    /\ UNCHANGED receiveVars

\* getAddressForWallet: Bria makes one address for a request id.
NewAddress(k) ==
    /\ At(k, "newAddress")
    /\ IF Utxo(k) \in briaAddresses
       THEN Retry(k) /\ UNCHANGED faults
       ELSE Continue(k, "isRecorded")
    /\ briaAddresses' = briaAddresses \cup {Utxo(k)}
    /\ UNCHANGED <<lock, request, receiptVars, pendingReceives, addresses, utxo>>

\* Mutant: the address is added without asking whether the wallet has it.
IsRecordedSkipped(k) ==
    /\ At(k, "isRecorded")
    /\ Continue(k, "persistAddress")
    /\ UNCHANGED receiveVars

IsRecorded(k) ==
    /\ At(k, "isRecorded")
    /\ Continue(k, IF Utxo(k) \in Range(addresses) THEN "persist" ELSE "persistAddress")
    /\ UNCHANGED receiveVars

PersistAddress(k) ==
    /\ At(k, "persistAddress")
    /\ addresses' = Append(addresses, Utxo(k))
    /\ Returns(k)
    /\ UNCHANGED <<lock, request, receiptVars, pendingReceives, briaAddresses, utxo>>

(***************************************************************************)
(* Errors, stops and expired locks.                                        *)
(***************************************************************************)
HandlerError(k) ==
    /\ HandlerFails(k)
    /\ Release(k)
    /\ UNCHANGED <<request, receiptVars, pendingReceives, addressVars, utxo>>

\* The locks of a process that stops stay until their time is over.
Stop ==
    /\ Crash
    /\ lock' = [u \in Utxos |-> IF lock[u] = None THEN None ELSE Expiring]
    /\ UNCHANGED <<request, receiptVars, pendingReceives, addressVars, utxo>>

LockExpires(u) ==
    /\ lock[u] = Expiring
    /\ lock' = [lock EXCEPT ![u] = None]
    /\ UNCHANGED <<streamVars, request, receiptVars, pendingReceives, addressVars, utxo>>

LoseLock(u) ==
    /\ LockLoss /\ faults < MaxFaults /\ faults' = faults + 1
    /\ lock[u] \in Slots
    /\ lock' = [lock EXCEPT ![u] = None]
    /\ UNCHANGED <<log, connection, slot, persisted, request, receiptVars, pendingReceives,
                   addressVars, utxo>>

-----------------------------------------------------------------------------
Handle(k) ==
    \/ AcquireLock(k) \/ LockUnavailable(k)
    \/ CheckPending(k) \/ PersistPending(k) \/ UtxoDropped(k)
    \/ CheckRecorded(k) \/ ReadAddress(k) \/ Record(k) \/ RemovePending(k)
    \/ FindAddress(k) \/ NewAddress(k) \/ IsRecorded(k) \/ PersistAddress(k)

Stream ==
    /\ \/ \E k \in Slots : Deliver(k) \/ Persist(k) \/ PersistFails(k)
       \/ StreamFails \/ Refresh \/ Connect
    /\ UNCHANGED receiveVars

Next ==
    \/ \E k \in Slots : Handle(k) \/ ReadAddressFails(k) \/ HandlerError(k)
    \/ \E u \in Utxos : Detect(u) \/ Drop(u) \/ Settle(u) \/ LockExpires(u) \/ LoseLock(u)
    \/ Stream
    \/ Stop
    \/ CreateOnChainAddress

Spec == Init /\ [][Next]_vars
\* As for the stream; the handlers go on and the locks of a stopped process expire.
Goes(A) == A /\ UNCHANGED receiveVars
Fairness ==
    /\ \A k \in Slots : WF_vars(Handle(k)) /\ WF_vars(Goes(Persist(k)))
    /\ WF_vars(Goes(\E k \in Slots : Deliver(k)))
    /\ WF_vars(Goes(Connect))
    /\ \A u \in Utxos : WF_vars(LockExpires(u))
FairSpec == Spec /\ Fairness

-----------------------------------------------------------------------------
IsPersisted(type, u) == \E i \in persisted : log[i] = [type |-> type, of |-> u]

\* However often and at the same time its event is handled, an output is credited once,
\* and it is credited when its event is persisted (isOnChainReceiptTxRecordedForWallet
\* under the lock).  It never comes back as pending then, also when its first event is
\* handled after its last ("in case we need to reprocess bria events").
CreditedOnce ==
    \A u \in Utxos :
        /\ receipts[u] <= 1
        /\ receipts[u] = 1 => utxo[u] = "settled"
        /\ IsPersisted("settled", u) => receipts[u] = 1 /\ u \notin pendingReceives

\* An address that was paid is not the current one once the receipt is dealt with, whatever
\* happened between the ledger's record and the new address (newAddressRequestId).  Only
\* an error of getLastOnChainAddress leaves it: the receipt is then recorded without a
\* request id, and the event is persisted.
AddressRotated ==
    \A u \in Utxos : IsPersisted("settled", u) => FindLastByWalletId # First \/ u \in unread

\* The wallet has each new address once, unless the event of the output arrived again while
\* it was handled: isRecorded and persistNew are two steps without a lock.
AddressesDistinct ==
    \A i, j \in DOMAIN addresses :
        i # j /\ addresses[i] = addresses[j] =>
            \E n \in doubled : log[n] = [type |-> "settled", of |-> addresses[i]]

\* What Bria has settled is credited and leaves the pending receives.
EventuallyCredited ==
    \A u \in Utxos : utxo[u] = "settled" ~> receipts[u] = 1 /\ u \notin pendingReceives
==============================================================================
