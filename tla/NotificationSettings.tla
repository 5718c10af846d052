------------------------ MODULE NotificationSettings ------------------------
(***************************************************************************)
(* The notification settings of a user: an entity that is stored as the    *)
(* log of its events.  What is set is folded from the log: the items (the  *)
(* push tokens, the channels and categories that are switched off) and the *)
(* email address.                                                          *)
(***************************************************************************)
EXTENDS Integers, Sequences, SequencesExt

NoEmail == "no email"
Initialized == [type |-> "initialized"]
ItemEvent(type, item) == [type |-> type, item |-> item]
EmailEvent(type, addr) == [type |-> type, addr |-> addr]

Items(log) ==
  FoldLeft(LAMBDA set, e : IF e.type = "added" THEN set \cup {e.item}
                           ELSE IF e.type = "removed" THEN set \ {e.item} ELSE set,
           {}, log)

EmailAddress(log) ==
  FoldLeft(LAMBDA addr, e : IF e.type = "emailAdded" THEN e.addr
                            ELSE IF e.type = "emailRemoved" THEN NoEmail ELSE addr,
           NoEmail, log)

(* The events an operation pushes: none if it changes nothing.             *)
EventsOf(op, log) ==
  LET old == EmailAddress(log)
      removed == IF old = NoEmail THEN << >> ELSE <<EmailEvent("emailRemoved", old)>>
  IN CASE op.op = "add" ->
            IF op.item \in Items(log) THEN << >> ELSE <<ItemEvent("added", op.item)>>
       [] op.op = "remove" ->
            IF op.item \in Items(log) THEN <<ItemEvent("removed", op.item)>> ELSE << >>
       [] op.op = "setEmail" ->
            IF old = op.addr THEN << >> ELSE Append(removed, EmailEvent("emailAdded", op.addr))
       [] op.op = "unsetEmail" -> removed

(* A user who has no settings yet gets new ones.                           *)
NewEvents(op, read) ==
  (IF read = << >> THEN <<Initialized>> ELSE << >>) \o EventsOf(op, read)

(* Mutant: the events are appended whatever the log has become.            *)
CanPersistAlways(log, read, events) == TRUE

(* The events are stored under the next sequence numbers after the ones    *)
(* that were read, which are unique; new settings under a new id, which    *)
(* has no header if the user got settings meanwhile.                       *)
CanPersist(log, read, events) == events = << >> \/ Len(log) = Len(read)
=============================================================================
