------------------------------ MODULE MCUsers -------------------------------
(***************************************************************************)
(* A small instance of Users and Notifications: each scenario is a state   *)
(* to start from and a few requests that may come in any order and at the  *)
(* same time, of up to three users.                                        *)
(***************************************************************************)
EXTENDS Users

With(phone, email) == [NoIdentity EXCEPT !.state = "active", !.phone = phone, !.email = email,
                                         !.verified = email # NoEmail]
OnDevice == [NoIdentity EXCEPT !.state = "active", !.device = "d1"]

LogOf(i) == <<Initialized>> \o (IF HasEmail(i) THEN <<EmailEvent("emailAdded", i.email)>> ELSE << >>)

Three(a, b) == <<a, b, NoIdentity>>

Quiet == [kickoffs |-> 0, periods |-> 0, faults |-> 0, lapses |-> 0, reminders |-> {},
          funded |-> {}]

People(ids, requests) ==
  [requests |-> requests, identities |-> ids,
   settings |-> [u \in 1..3 |-> IF HasEmail(ids[u]) THEN LogOf(ids[u]) ELSE << >>]] @@ Quiet

LoginPhone(p, n) == [kind |-> "loginPhone", phone |-> p, n |-> n]
LoginDevice(n) == [kind |-> "loginDevice", device |-> "d1", n |-> n]
ByUser(kind, u) == [kind |-> kind, user |-> u]
ByPhone(kind, u, p) == [kind |-> kind, user |-> u, phone |-> p]
ByEmail(kind, u, e) == [kind |-> kind, user |-> u, email |-> e]
Status(u) == [kind |-> "updateStatus", user |-> u, status |-> "locked"]
SetItem(op, u, item) == [kind |-> "settings", user |-> u, op |-> [op |-> op, item |-> item]]

Nobody == Three(NoIdentity, NoIdentity)
Phone1 == Three(With("p1", NoEmail), NoIdentity)
Device1 == Three(OnDevice, NoIdentity)
Email1 == Three(With(NoPhone, "e1"), NoIdentity)
Both1 == Three(With("p1", "e1"), NoIdentity)
Phones == Three(With("p1", NoEmail), With("p2", NoEmail))

PeopleScenarios ==
  { [People(Nobody, {LoginPhone("p1", 1), LoginPhone("p1", 2), LoginDevice(1), LoginDevice(2)})
       EXCEPT !.faults = 1],
    People(Device1, {ByPhone("upgrade", 1, "p1"), LoginPhone("p1", 1), ByUser("delete", 1), Status(1)}),
    People(Email1, {ByPhone("verifyPhone", 1, "p1"), LoginPhone("p1", 1), ByUser("removePhone", 1)}),
    People(Phone1, {ByEmail("addEmail", 1, "e1"), ByEmail("verifyEmail", 1, "e1"),
                    ByUser("removeEmail", 1), SetItem("add", 1, "t1")}),
    People(Phone1, {ByEmail("addEmail", 1, "e1"), ByEmail("verifyEmail", 1, "e1"),
                    ByUser("removePhone", 1), ByPhone("verifyPhone", 1, "p2")}),
    [People(Phones, {ByPhone("updatePhone", 1, "p2"), ByUser("delete", 2), LoginPhone("p1", 1), Status(2)})
       EXCEPT !.faults = 1],
    [People(Phones, {ByPhone("updatePhone", 1, "p2"), ByPhone("updatePhone", 2, "p3")})
       EXCEPT !.funded = {2}],
    People(Phone1, {ByUser("delete", 1), LoginPhone("p1", 1), ByUser("delete", 2)}),
    People(Both1, {ByUser("removeEmail", 1), ByUser("removePhone", 1), ByPhone("updatePhone", 1, "p3")}) }

Price(e) == [kind |-> "price", event |-> e, large |-> TRUE]
SmallPrice == [kind |-> "price", event |-> "small", large |-> FALSE]
ToUsers(us) == [kind |-> "marketing", event |-> "marketing", users |-> us]

TwoTokens == <<Initialized, ItemEvent("added", "t1"), ItemEvent("added", "t2"),
               EmailEvent("emailAdded", "e1")>>

News(settings, requests) ==
  [requests |-> requests, settings |-> settings, identities |-> Nobody] @@ Quiet

NewsScenarios ==
  { [News(<<<<Initialized>>, <<Initialized>>, << >>>>, {Price("up"), Price("down"), SmallPrice})
       EXCEPT !.faults = 1, !.periods = 1],
    [News(<<<<Initialized>>, << >>, << >>>>, {ToUsers({1, 2})}) EXCEPT !.faults = 1, !.lapses = 1],
    [News(<<TwoTokens, << >>, << >>>>,
          {[kind |-> "verification", user |-> 1], SetItem("remove", 1, "t1"), SetItem("add", 1, PushOff)})
       EXCEPT !.faults = 1],
    [News(<<<<Initialized>>, <<Initialized>>, << >>>>, {[kind |-> "transaction", user |-> 1]})
       EXCEPT !.reminders = {2}, !.kickoffs = 2, !.periods = 1] }

MCScenarios == PeopleScenarios \cup NewsScenarios
=============================================================================
