------------------------------- MODULE Users --------------------------------
(***************************************************************************)
(* Users and accounts: an identity in Kratos (how to log in), a document   *)
(* in the users collection, an account with its wallets, and the settings  *)
(* of the notifications service.  No transaction spans them: every request *)
(* reads a whole record, and later writes the whole record.                *)
(***************************************************************************)
EXTENDS Notifications

CONSTANT MaxDeletions   \* maxDeletions; the scenario adds the identities at first and who has funds

VARIABLES identity,    \* Kratos: state, phone, email, verified, device
          users,       \* Mongo: phone, deletedPhones
          accounts,    \* Mongo: is there one, level, statusHistory, has it a default wallet
          wallets,     \* how many wallets the account has
          overlap,     \* history: two of these requests were at work at the same time,
          refused      \* the store that refused its part of a change of a user

userVars == <<identity, users, accounts, wallets, overlap, refused>>
notificationVars == <<jobVars, faultVars, settingsVars, timeVars, dispatchVars>>

NoPhone == "no phone"
NoDevice == "no device"
NoIdentity == [state |-> "none", phone |-> NoPhone, email |-> NoEmail, verified |-> FALSE,
               device |-> NoDevice]
NoDocument == [phone |-> NoPhone, deletedPhones |-> {}]
NoAccount == [exists |-> FALSE, level |-> 0, statusHistory |-> << >>, default |-> FALSE]

Init ==
  /\ InitNotifications
  /\ identity = scenario.identities
  /\ users = [u \in UserIds |-> [NoDocument EXCEPT !.phone = identity[u].phone]]
  /\ accounts = [u \in UserIds |->
       IF identity[u].state = "none" THEN NoAccount
       ELSE [exists |-> TRUE, level |-> IF identity[u].device = NoDevice THEN 1 ELSE 0,
             statusHistory |-> <<"active">>, default |-> TRUE]]
  /\ wallets = [u \in UserIds |-> IF accounts[u].exists THEN 2 ELSE 0]
  /\ overlap = FALSE /\ refused = {}

(***************************************************************************)
(* Kratos (external).  The schema of an identity follows from its traits;  *)
(* an update replaces all traits, and phone, email and device are unique.  *)
(***************************************************************************)
Active(u) == identity[u].state = "active"
HasPhone(i) == i.phone # NoPhone
HasEmail(i) == i.email # NoEmail
PhoneNoPassword(i) == HasPhone(i) /\ ~HasEmail(i)
EmailNoPassword(i) == HasEmail(i) /\ ~HasPhone(i)
PhoneEmailNoPassword(i) == HasPhone(i) /\ HasEmail(i)
UsernamePasswordDeviceId(i) == i.device # NoDevice

Accepts(u, i) ==
  \A v \in UserIds \ {u} : Active(v) => /\ HasPhone(i) => identity[v].phone # i.phone
                                        /\ HasEmail(i) => identity[v].email # i.email
                                        /\ i.device # NoDevice => identity[v].device # i.device

UpdateIdentity(u, i) ==
  identity' = [identity EXCEPT ![u] =
                 [i EXCEPT !.verified = identity[u].email = i.email /\ identity[u].verified]]

(* The unique index on phone of the users collection.                      *)
UniquePhone(u, phone) == phone # NoPhone => \A v \in UserIds \ {u} : users[v].phone # phone

AccountStatus(account) == Last(account.statusHistory)

(***************************************************************************)
(* The functions of the app layer: the stores they ask, in their order.    *)
(* Each step below is one access to a store.                               *)
(***************************************************************************)
(* Mutant: one wallet is enough.                                           *)
InitializeFirstWallet == <<"newWallet", "initialize">>

(* A wallet for each of initialWallets, then the account again.            *)
InitializeCreatedAccount == <<"newWallet", "newWallet", "initialize">>

CreateAccount == <<"newUser", "newAccount">> \o InitializeCreatedAccount

LoginWithPhoneToken == <<"lookup", "create">> \o CreateAccount

LoginWithDevice == <<"create">> \o CreateAccount

UpgradeAccount == <<"user", "saveUser", "account", "saveAccount">>

LoginDeviceUpgradeWithPhone == <<"lookup", "identity", "write">> \o UpgradeAccount

VerifyPhone == <<"user", "saveUser", "identity", "write">>

RemovePhone == <<"identity", "write", "user", "saveUser">>

AddEmail == <<"identity", "write">>

(* Mutant: the notifications service is not told.                          *)
VerifyEmailOnly == <<"verify">>

VerifyEmail == <<"verify", "find">>

RemoveEmail == <<"identity", "write", "user", "saveUser", "find">>

(* Mutant: the identity is deleted before the account is closed.           *)
DeleteIdentityFirst == <<"account", "user", "deletions", "saveUser", "remove", "saveAccount">>

MarkAccountForDeletion == <<"account", "user", "deletions", "saveUser", "saveAccount", "remove">>

UpdateUserPhone == <<"account", "holder", "user", "saveUser", "identity", "write">>

UpdateAccountStatus == <<"account", "saveAccount">>

Program ==
  [loginPhone |-> LoginWithPhoneToken, loginDevice |-> LoginWithDevice,
   upgrade |-> LoginDeviceUpgradeWithPhone, verifyPhone |-> VerifyPhone,
   removePhone |-> RemovePhone, addEmail |-> AddEmail, verifyEmail |-> VerifyEmail,
   removeEmail |-> RemoveEmail, delete |-> MarkAccountForDeletion,
   updatePhone |-> UpdateUserPhone, updateStatus |-> UpdateAccountStatus]

(***************************************************************************)
(* Steps of a request.                                                     *)
(***************************************************************************)
AtWork(r) == r.kind \in DOMAIN Program /\ pc[r] \notin {"todo", "done"}

Plan(r) == IF pc[r] = "todo" THEN Program[r.kind] ELSE mem[r].plan

At(r, step) ==
  /\ r.kind \in DOMAIN Program /\ pc[r] \in {"todo", "work"}
  /\ Head(Plan(r)) = step
  /\ overlap' = (overlap \/ (pc[r] = "todo" /\ \E q \in DOMAIN pc : AtWork(q)))

(* Go on with what is left to do.  "find" is up to the notifications.      *)
Continue(r, left, fields) ==
  IF left = << >> THEN End(r)
  ELSE /\ Goto(r, IF Head(left) = "find" THEN "find" ELSE "work")
       /\ Remember(r, fields @@ [plan |-> left] @@ mem[r])

Proceed(r, fields) == Continue(r, Tail(Plan(r)), fields)

(* A store refuses its part after the other store was changed.             *)
Refuse(r, store, u) ==
  refused' = IF r.kind \in {"loginPhone", "verifyPhone", "updatePhone"}
             THEN refused \cup {<<store, u>>} ELSE refused

(* markAccountForDeletion is also a part of updateUserPhone, for the user  *)
(* who has the new phone.                                                  *)
Deleting(r) == r.kind = "delete" \/ "victim" \in DOMAIN mem[r]
Subject(r) == IF "victim" \in DOMAIN mem[r] THEN mem[r].victim ELSE r.user

(* getUserIdFromIdentifier: who has this phone logs in.                    *)
LookupIdentifier(r) ==
  /\ At(r, "lookup")
  /\ IF \E u \in UserIds : Active(u) /\ identity[u].phone = r.phone
     THEN End(r) ELSE Proceed(r, None)
  /\ UNCHANGED <<identity, users, accounts, wallets, refused, notificationVars>>

(* createIdentityWithSession, with a phone or for a device.                *)
NewIdentity(r) ==
  IF r.kind = "loginPhone" THEN [NoIdentity EXCEPT !.state = "active", !.phone = r.phone]
  ELSE [NoIdentity EXCEPT !.state = "active", !.device = r.device]

CreateIdentity(r) ==
  /\ At(r, "create")
  /\ LET unused == {u \in UserIds : identity[u].state = "none"}
         u == Min(unused)
     IN /\ unused # {}
        /\ IF Accepts(u, NewIdentity(r))
           THEN identity' = [identity EXCEPT ![u] = NewIdentity(r)] /\ Proceed(r, [user |-> u])
           ELSE End(r) /\ UNCHANGED identity
  /\ UNCHANGED <<users, accounts, wallets, refused, notificationVars>>

NewUser(r) ==
  /\ At(r, "newUser")
  /\ LET u == mem[r].user
         phone == IF r.kind = "loginPhone" THEN r.phone ELSE NoPhone
     IN IF UniquePhone(u, phone)
        THEN users' = [users EXCEPT ![u].phone = phone] /\ Proceed(r, None) /\ UNCHANGED refused
        ELSE End(r) /\ Refuse(r, "users", u) /\ UNCHANGED users
  /\ UNCHANGED <<identity, accounts, wallets, notificationVars>>

(* The account exists, and is active, before it has wallets.               *)
PersistNewAccount(r) ==
  /\ At(r, "newAccount")
  /\ accounts' = [accounts EXCEPT ![mem[r].user] =
                    [NoAccount EXCEPT !.exists = TRUE, !.statusHistory = <<"active">>]]
  /\ Proceed(r, None)
  /\ UNCHANGED <<identity, users, wallets, refused, notificationVars>>

PersistNewWallet(r) ==
  /\ At(r, "newWallet")
  /\ wallets' = [wallets EXCEPT ![mem[r].user] = @ + 1]
  /\ Proceed(r, None)
  /\ UNCHANGED <<identity, users, accounts, refused, notificationVars>>

InitializeAccount(r) ==
  /\ At(r, "initialize")
  /\ accounts' = [accounts EXCEPT ![mem[r].user] =
                    [exists |-> TRUE, level |-> IF r.kind = "loginDevice" THEN 0 ELSE 1,
                     statusHistory |-> <<"active">>, default |-> TRUE]]
  /\ Proceed(r, None)
  /\ UNCHANGED <<identity, users, wallets, refused, notificationVars>>

(* The operations of the Kratos services get the identity, look at its     *)
(* schema, and put another in its place.                                   *)
UpdateIdentityFromDevice(r, i) ==
  [may |-> UsernamePasswordDeviceId(i), to |-> [i EXCEPT !.phone = r.phone, !.device = NoDevice]]

AddPhoneToIdentity(r, i) ==
  [may |-> EmailNoPassword(i), to |-> [i EXCEPT !.phone = r.phone]]

AddUnverifiedEmailToIdentity(r, i) ==
  [may |-> PhoneNoPassword(i), to |-> [i EXCEPT !.email = r.email]]

RemoveEmailFromIdentity(r, i) ==
  [may |-> PhoneEmailNoPassword(i), to |-> [i EXCEPT !.email = NoEmail]]

RemovePhoneFromIdentity(r, i) ==
  [may |-> PhoneEmailNoPassword(i) /\ i.verified, to |-> [i EXCEPT !.phone = NoPhone]]

UpdatePhone(r, i) == [may |-> TRUE, to |-> [i EXCEPT !.phone = r.phone]]

Change(r, i) ==
  CASE r.kind = "upgrade"     -> UpdateIdentityFromDevice(r, i)
    [] r.kind = "verifyPhone" -> AddPhoneToIdentity(r, i)
    [] r.kind = "addEmail"    -> AddUnverifiedEmailToIdentity(r, i)
    [] r.kind = "removeEmail" -> RemoveEmailFromIdentity(r, i)
    [] r.kind = "removePhone" -> RemovePhoneFromIdentity(r, i)
    [] r.kind = "updatePhone" -> UpdatePhone(r, i)

GetIdentity(r) ==
  /\ At(r, "identity")
  /\ IF Active(r.user) /\ Change(r, identity[r.user]).may
     THEN Proceed(r, [identity |-> identity[r.user]]) /\ UNCHANGED refused
     ELSE End(r) /\ Refuse(r, "Kratos", r.user)
  /\ UNCHANGED <<identity, users, accounts, wallets, notificationVars>>

(* updatePhone keeps the schema and sends nothing but the phone: any other *)
(* schema refuses that.                                                    *)
FitsSchema(r, i) == r.kind = "updatePhone" => PhoneNoPassword(i)

WriteIdentity(r) ==
  /\ At(r, "write")
  /\ LET i == Change(r, mem[r].identity).to
     IN IF Active(r.user) /\ FitsSchema(r, mem[r].identity) /\ Accepts(r.user, i)
        THEN UpdateIdentity(r.user, i) /\ Proceed(r, None) /\ UNCHANGED refused
        ELSE End(r) /\ Refuse(r, "Kratos", r.user) /\ UNCHANGED identity
  /\ UNCHANGED <<users, accounts, wallets, notificationVars>>

(* validateCode: Kratos takes the code and verifies the address.  What the *)
(* notifications service answers then is ignored.                          *)
ValidateCode(r) ==
  /\ At(r, "verify")
  /\ IF Active(r.user) /\ identity[r.user].email = r.email
     THEN /\ identity' = [identity EXCEPT ![r.user].verified = TRUE]
          /\ Proceed(r, [op |-> [op |-> "setEmail", addr |-> r.email]])
     ELSE End(r) /\ UNCHANGED identity
  /\ UNCHANGED <<users, accounts, wallets, refused, notificationVars>>

(* UsersRepository: findById, and update with the whole document.          *)
FindUser(r) ==
  /\ At(r, "user")
  /\ LET doc == users[Subject(r)]
     IN IF r.kind = "verifyPhone" /\ doc.phone # NoPhone THEN End(r) ELSE Proceed(r, [doc |-> doc])
  /\ UNCHANGED <<identity, users, accounts, wallets, refused, notificationVars>>

Released(doc, phone) == [phone |-> NoPhone, deletedPhones |-> doc.deletedPhones \cup {phone}]

UserDocument(r, doc) ==
  IF Deleting(r) THEN IF doc.phone = NoPhone THEN doc ELSE Released(doc, doc.phone)
  ELSE IF r.kind = "removePhone" THEN Released(doc, mem[r].identity.phone)
  ELSE IF r.kind = "removeEmail" THEN doc
  ELSE [doc EXCEPT !.phone = r.phone]

UpdateUser(r) ==
  /\ At(r, "saveUser")
  /\ LET doc == UserDocument(r, mem[r].doc)
         skip == Deleting(r) /\ mem[r].doc.phone = NoPhone
     IN IF skip \/ UniquePhone(Subject(r), doc.phone)
        THEN /\ users' = IF skip THEN users ELSE [users EXCEPT ![Subject(r)] = doc]
             /\ Proceed(r, IF r.kind = "removeEmail" THEN [op |-> [op |-> "unsetEmail"]] ELSE None)
        ELSE End(r) /\ UNCHANGED users
  /\ UNCHANGED <<identity, accounts, wallets, refused, notificationVars>>

(* AccountsRepository: find and, later, update with the whole account.     *)
FindAccount(r) ==
  /\ At(r, "account")
  /\ LET account == accounts[Subject(r)]
         validated == r.kind \in {"delete", "updatePhone"}
     IN IF \/ ~account.exists
           \/ validated /\ AccountStatus(account) # "active"
           \/ "victim" \in DOMAIN mem[r] /\ Subject(r) \in scenario.funded
        THEN End(r) ELSE Proceed(r, [account |-> account])
  /\ UNCHANGED <<identity, users, accounts, wallets, refused, notificationVars>>

UpdateAccount(r) ==
  /\ At(r, "saveAccount")
  /\ accounts' = [accounts EXCEPT ![Subject(r)] =
       IF Deleting(r) THEN [mem[r].account EXCEPT !.statusHistory = Append(@, "closed")]
       ELSE IF r.kind = "upgrade" THEN [mem[r].account EXCEPT !.level = 1]
       ELSE [mem[r].account EXCEPT !.statusHistory = Append(@, r.status)]]
  /\ Proceed(r, None)
  /\ UNCHANGED <<identity, users, wallets, refused, notificationVars>>

(* updateUserPhone: the user who has the phone, in the users collection,   *)
(* is deleted first.                                                       *)
FindHolder(r) ==
  /\ At(r, "holder")
  /\ LET holders == {u \in UserIds : users[u].phone = r.phone}
     IN IF holders = {} THEN Proceed(r, None)
        ELSE Continue(r, MarkAccountForDeletion \o Tail(Plan(r)), [victim |-> Min(holders)])
  /\ UNCHANGED <<identity, users, accounts, wallets, refused, notificationVars>>

(* How many users have deleted these phones?                               *)
CheckDeletions(r) ==
  /\ At(r, "deletions")
  /\ LET doc == mem[r].doc
         phones == doc.deletedPhones \cup ({doc.phone} \ {NoPhone})
         others == {u \in UserIds : users[u].deletedPhones \cap phones # {}}
     IN IF Cardinality(others) >= MaxDeletions THEN End(r) ELSE Proceed(r, None)
  /\ UNCHANGED <<identity, users, accounts, wallets, refused, notificationVars>>

(* With this the part of updateUserPhone is over, too.                     *)
DeleteIdentity(r) ==
  /\ At(r, "remove")
  /\ IF Active(Subject(r))
     THEN /\ identity' = [identity EXCEPT ![Subject(r)] = [NoIdentity EXCEPT !.state = "deleted"]]
          /\ IF Tail(Plan(r)) = << >> THEN End(r)
             ELSE Goto(r, "work") /\ Remember(r, [plan |-> Tail(Plan(r))])
     ELSE End(r) /\ UNCHANGED identity
  /\ UNCHANGED <<users, accounts, wallets, refused, notificationVars>>

UserStep(r) ==
  \/ LookupIdentifier(r) \/ CreateIdentity(r) \/ NewUser(r) \/ PersistNewAccount(r)
  \/ PersistNewWallet(r) \/ InitializeAccount(r) \/ GetIdentity(r) \/ WriteIdentity(r)
  \/ ValidateCode(r) \/ FindUser(r) \/ UpdateUser(r) \/ FindAccount(r) \/ UpdateAccount(r)
  \/ FindHolder(r) \/ CheckDeletions(r) \/ DeleteIdentity(r)

Next ==
  /\ \/ NotificationsNext /\ UNCHANGED userVars
     \/ \E r \in DOMAIN pc : UserStep(r)
  /\ UNCHANGED scenario

vars == <<scenario, userVars, notificationVars, requestVars>>

Spec == Init /\ [][Next]_vars /\ WF_vars(Serve /\ UNCHANGED <<userVars, scenario>>)

(***************************************************************************)
(* Properties.                                                             *)
(***************************************************************************)
Rest == \A r \in DOMAIN pc : pc[r] \in {"todo", "done"}

(* However requests overlap, who can log in has an account with wallets    *)
(* and a default wallet, once all requests are over and none was cut off.  *)
(* The only exception is a new user whose phone the users collection still *)
(* or already gives to another user.                                       *)
(* (loginWithPhoneToken, loginWithDevice, initializeCreatedAccount)        *)
LoginHasAccount ==
  (Rest /\ faults = 0) =>
    \A u \in UserIds : Active(u) =>
      \/ accounts[u].exists /\ wallets[u] = 2 /\ accounts[u].default
      \/ <<"users", u>> \in refused

(* An identity is deleted only after its account was recorded as closed,   *)
(* at every moment and whatever fails, unless requests overlap: each of    *)
(* them writes a whole account, so one may undo the other.                 *)
(* (markAccountForDeletion)                                                *)
DeletedIsClosed ==
  ~overlap => \A u \in UserIds : identity[u].state = "deleted" =>
    "closed" \in Range(accounts[u].statusHistory)

(* One request after the other, the stores agree about a user.  The users  *)
(* collection and Kratos give the same phone, unless Kratos refused its    *)
(* part of a change: what verifyPhone and updateUserPhone wrote to the     *)
(* collection before then stays.  The notifications service has the email  *)
(* address that Kratos has verified, and no other, unless a change of the  *)
(* settings at the same time made its update fail.  (removePhoneFromIdentity, *)
(* verifyEmail, removeEmail, update_email_address)                         *)
StoresAgree ==
  (Rest /\ faults = 0 /\ ~overlap) =>
    \A u \in UserIds : Active(u) =>
      /\ \/ users[u].phone = identity[u].phone
         \/ <<"Kratos", u>> \in refused \/ <<"users", u>> \in refused
      /\ conflicts = 0 =>
           EmailAddress(log[u]) = (IF identity[u].verified THEN identity[u].email ELSE NoEmail)
=============================================================================
