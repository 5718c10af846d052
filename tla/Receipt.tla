------------------------------- MODULE Receipt -------------------------------
(***************************************************************************)
(* What receiving over Lightning promises: an invoice that waits for a     *)
(* payment is either claimed in the node, and then credited once to its    *)
(* wallet, or it is closed and never claimed nor credited.                 *)
(***************************************************************************)
CONSTANT Hashes

VARIABLE receipt    \* the stage each invoice has reached

Stages == {"waiting", "claimed", "credited", "closed"}

Init == receipt = [h \in Hashes |-> "waiting"]

Advance(h, from, to) == receipt[h] = from /\ receipt' = [receipt EXCEPT ![h] = to]

Claim(h) == Advance(h, "waiting", "claimed")
Credit(h) == Advance(h, "claimed", "credited")
Close(h) == Advance(h, "waiting", "closed")

Next == \E h \in Hashes : Claim(h) \/ Credit(h) \/ Close(h)

Spec == Init /\ [][Next]_receipt
==============================================================================
