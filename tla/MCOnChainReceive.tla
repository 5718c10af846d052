--------------------------- MODULE MCOnChainReceive ---------------------------
(***************************************************************************)
(* Small instances of OnChainReceive: one or two outputs, one or two       *)
(* handlers at the same time.                                              *)
(***************************************************************************)
EXTENDS OnChainReceive, TLC

CONSTANTS k1, k2, u1, u2

Symmetry == Permutations(Slots) \cup Permutations(Utxos)

\* No property and no action here reads which events were overtaken.
WithoutOvertaken ==
    <<log, after, sent, link, refreshing, slot, persisted, faults, doubled, receiveVars>>
==============================================================================
