------------------------------ MODULE Accounts ------------------------------
(***************************************************************************)
(* Accounts (auth.service.ts, beta-access.service.ts, the change of phone  *)
(* and email of users.service.ts, and the user administration of           *)
(* admin.service.ts): registering or logging in with a code, the closed    *)
(* beta, passwords, contacts, and disabling, restoring and purging.        *)
(*                                                                         *)
(* Every handler reads, awaits and then writes by id.  What the write      *)
(* checks again is what the code's where clause or the database's unique   *)
(* indexes check; the rest is as the handler read it.                      *)
(***************************************************************************)
EXTENDS OneTimeCodes

CONSTANTS
    Users,        \* account rows
    Admins,       \* accounts that exist at the start, as administrators
    Legacy,       \* accounts of the first wave, whose phone is not in canonical form
    OldPhone,     \* their number
    MaxUses       \* BetaInviteCode.maxUses of the one beta code

ASSUME AccountsAssumption ==
    /\ Admins \subseteq Users /\ Legacy \subseteq Admins /\ MaxUses \in Nat \ {0}
    /\ OldPhone \in Phones

VARIABLES
    account,
    betaUsed,     \* BetaInviteCode.usedCount
    betaOff,      \* BetaInviteCode.disabledAt
    redeemed,     \* BetaInviteRedemption
    proven        \* history: which contacts each account has proved

accountVars == <<codeVars, account, betaUsed, betaOff, redeemed, proven>>

None == [exists |-> FALSE, phone |-> NoTarget, email |-> NoTarget, phoneVerified |-> FALSE,
         emailVerified |-> FALSE, deleted |-> FALSE, purged |-> FALSE, role |-> "user",
         password |-> FALSE, canonical |-> TRUE]
Active(u) == account[u].exists /\ ~account[u].deleted
Channel(t) == IF t \in Phones THEN "phone" ELSE "email"

\* The account's value of a channel; a number that is not canonical matches no other.
Holds(u, t) == /\ account[u].exists
               /\ \/ account[u].phone = t /\ account[u].canonical
                  \/ account[u].email = t
Taken(t) == \E u \in Users : Holds(u, t)
TakenByOther(t, v) == \E u \in Users \ {v} : Holds(u, t)
Verified(u, t) == IF t \in Phones THEN account[u].phoneVerified ELSE account[u].emailVerified

AccountsInit ==
    /\ CodesInit
    /\ account = [u \in Users |->
           IF u \in Legacy THEN [None EXCEPT !.exists = TRUE, !.role = "admin", !.password = TRUE,
                                             !.phone = OldPhone, !.canonical = FALSE]
           ELSE IF u \in Admins THEN [None EXCEPT !.exists = TRUE, !.role = "admin", !.password = TRUE]
           ELSE None]
    /\ betaUsed = 0 /\ betaOff = FALSE /\ redeemed = {} /\ proven = {}

Writes(u, a) == account' = [account EXCEPT ![u] = a]

-----------------------------------------------------------------------------
\* register: a phone is always given; the channel names what the code proves.
Register(r, phone, email, channel) ==
    /\ request[r] = Idle /\ (channel = "email" => email # NoTarget)
    /\ LET t == IF channel = "email" THEN email ELSE phone
       IN \E c \in Typed(t) :
             Goes(r, [Idle EXCEPT !.pc = "verify", !.target = t, !.code = c, !.consume = FALSE, !.kind = "register",
                                  !.next = "existing", !.extra = IF channel = "email" THEN phone ELSE email])
    /\ UNCHANGED <<otp, lost, account, betaUsed, betaOff, redeemed, proven>>

\* An active account with the proven contact is logged in, and the code spent.
RegisterExisting(r) ==
    /\ request[r].pc = "existing"
    /\ IF \E u \in Users : Active(u) /\ Holds(u, request[r].target)
       THEN SpendCode(request[r].row) /\ Over(r)
       ELSE Becomes(r, "gate") /\ UNCHANGED <<otp, lost>>
    /\ UNCHANGED <<account, betaUsed, betaOff, redeemed, proven>>

\* decideRegistration: the gate is off or the contact is on the list, or there
\* is a use of the code left; then the form and the free contacts are checked.
RegisterGate(r) ==
    /\ request[r].pc = "gate"
    /\ \/ Goes(r, [request[r] EXCEPT !.pc = "conflict"])
       \/ ~betaOff /\ betaUsed < MaxUses /\ Goes(r, [request[r] EXCEPT !.pc = "conflict", !.flag = TRUE])
       \/ Over(r)
    /\ UNCHANGED <<otp, lost, account, betaUsed, betaOff, redeemed, proven>>

RegisterConflict(r) ==
    /\ request[r].pc = "conflict"
    /\ IF Taken(request[r].target) \/ (request[r].extra # NoTarget /\ Taken(request[r].extra))
       THEN Over(r) ELSE Becomes(r, "insert")
    /\ UNCHANGED <<otp, lost, account, betaUsed, betaOff, redeemed, proven>>

RedeemBlind == TRUE

\* applyRedemption: the conditional update inside the transaction.
Redeemable == ~betaOff /\ betaUsed < MaxUses

StampBoth(t, c) == TRUE

\* Only the channel the code has proved is stamped.
Stamp(t, c) == Channel(t) = c

\* The row and the redemption commit together or not at all.
RegisterInsert(r, u) ==
    /\ request[r].pc = "insert" /\ ~account[u].exists
    /\ LET q == request[r]
           contacts == {q.target, q.extra}
           free == \A t \in contacts \ {NoTarget} : ~Taken(t)
       IN \/ /\ free /\ (q.flag => Redeemable)
             /\ Writes(u, [None EXCEPT !.exists = TRUE, !.password = TRUE,
                             !.phone = CHOOSE t \in contacts : t \in Phones,
                             !.email = IF contacts \cap Emails = {} THEN NoTarget ELSE CHOOSE t \in contacts : t \in Emails,
                             !.phoneVerified = Stamp(q.target, "phone"), !.emailVerified = Stamp(q.target, "email")])
             /\ proven' = proven \cup {<<u, q.target>>}
             /\ betaUsed' = IF q.flag THEN betaUsed + 1 ELSE betaUsed
             /\ redeemed' = IF q.flag THEN redeemed \cup {u} ELSE redeemed
             /\ Becomes(r, "spend")
          \/ /\ ~(free /\ (q.flag => Redeemable)) /\ Over(r)
             /\ UNCHANGED <<account, betaUsed, redeemed, proven>>
    /\ UNCHANGED <<otp, lost, betaOff>>

RegisterSpends(r) ==
    /\ request[r].pc = "spend" /\ SpendCode(request[r].row) /\ Over(r)
    /\ UNCHANGED <<account, betaUsed, betaOff, redeemed, proven>>

\* setCodeDisabled.
SetCodeDisabled ==
    /\ betaOff' = ~betaOff
    /\ UNCHANGED <<codeVars, account, betaUsed, redeemed, proven>>

-----------------------------------------------------------------------------
\* login with a password: the number as read is put in canonical form, by id.
Login(r, u) ==
    /\ request[r] = Idle /\ Active(u) /\ account[u].password
    /\ IF account[u].canonical THEN request' = request
       ELSE Goes(r, [Idle EXCEPT !.pc = "repair", !.who = u, !.target = account[u].phone])
    /\ UNCHANGED <<otp, lost, account, betaUsed, betaOff, redeemed, proven>>

RepairPhone(r) ==
    /\ request[r].pc = "repair"
    /\ LET u == request[r].who
       IN IF TakenByOther(request[r].target, u) THEN account' = account
          ELSE Writes(u, [account[u] EXCEPT !.phone = request[r].target, !.canonical = TRUE])
    /\ Over(r)
    /\ UNCHANGED <<otp, lost, betaUsed, betaOff, redeemed, proven>>

\* forgotPassword: a code only for an active account with the channel verified.
ForgotPassword(t) ==
    /\ \E u \in Users : Active(u) /\ Holds(u, t) /\ Verified(u, t)
    /\ \E arrives \in BOOLEAN : SendCode(t, arrives)
    /\ UNCHANGED <<request, lost, account, betaUsed, betaOff, redeemed, proven>>

ResetPassword(r, t, u) ==
    /\ request[r] = Idle /\ Active(u) /\ Holds(u, t) /\ Verified(u, t)
    /\ \E c \in Typed(t) : Goes(r, [Idle EXCEPT !.pc = "verify", !.target = t, !.code = c, !.next = "reset", !.who = u])
    /\ UNCHANGED <<otp, lost, account, betaUsed, betaOff, redeemed, proven>>

ResetWrites(r) ==
    /\ request[r].pc = "reset"
    /\ Writes(request[r].who, [account[request[r].who] EXCEPT !.password = TRUE])
    /\ Over(r)
    /\ UNCHANGED <<otp, lost, betaUsed, betaOff, redeemed, proven>>

\* changePhoneStart and changeEmailStart: a code goes to the new contact.
ChangeStart(u, t) ==
    /\ account[u].exists /\ ~Taken(t)
    /\ \E arrives \in BOOLEAN : SendCode(t, arrives)
    /\ UNCHANGED <<request, lost, account, betaUsed, betaOff, redeemed, proven>>

\* changePhoneConfirm and changeEmailConfirm: whose session, which contact.
ChangeContact(r, u, t) ==
    /\ request[r] = Idle /\ account[u].exists /\ ~Holds(u, t) /\ ~TakenByOther(t, u)
    /\ \E c \in Typed(t) : Goes(r, [Idle EXCEPT !.pc = "verify", !.target = t, !.code = c, !.next = "change", !.who = u])
    /\ UNCHANGED <<otp, lost, account, betaUsed, betaOff, redeemed, proven>>

WithPhone(a, t) == [a EXCEPT !.phone = t, !.phoneVerified = TRUE, !.canonical = TRUE]
WithEmail(a, t) == [a EXCEPT !.email = t, !.emailVerified = TRUE]

ChangeWrites(r) ==
    /\ request[r].pc = "change"
    /\ LET u == request[r].who
           t == request[r].target
       IN IF TakenByOther(t, u) THEN UNCHANGED <<account, proven>>
          ELSE /\ Writes(u, IF t \in Phones THEN WithPhone(account[u], t) ELSE WithEmail(account[u], t))
               /\ proven' = proven \cup {<<u, t>>}
    /\ Over(r)
    /\ UNCHANGED <<otp, lost, betaUsed, betaOff, redeemed>>

\* updateEmail: an address without proof; the stamp goes when the address, as
\* read, is another one.
UpdateEmail(r, u, t) ==
    /\ request[r] = Idle /\ account[u].exists /\ ~TakenByOther(t, u)
    /\ Goes(r, [Idle EXCEPT !.pc = "email", !.target = t, !.who = u, !.flag = account[u].email # t])
    /\ UNCHANGED <<otp, lost, account, betaUsed, betaOff, redeemed, proven>>

UpdateEmailWrites(r) ==
    /\ request[r].pc = "email"
    /\ LET u == request[r].who
       IN IF TakenByOther(request[r].target, u) THEN account' = account
          ELSE Writes(u, [account[u] EXCEPT !.email = request[r].target, !.emailVerified = @ /\ ~request[r].flag])
    /\ Over(r)
    /\ UNCHANGED <<otp, lost, betaUsed, betaOff, redeemed, proven>>

ClearEmail(u) ==
    /\ account[u].exists
    /\ Writes(u, [account[u] EXCEPT !.email = NoTarget, !.emailVerified = FALSE])
    /\ UNCHANGED <<codeVars, betaUsed, betaOff, redeemed, proven>>

-----------------------------------------------------------------------------
\* The guards of user administration, each on a read.  setUserRole: nobody
\* demotes himself.
MayChangeRole(kind, by, u) == (kind = "demote" => by # u) /\ Active(u)

\* softDeleteUser; a second one changes nothing.
MayDisable(by, u) == by # u /\ Active(u)

\* restoreUser
MayRestore(u) == account[u].exists /\ account[u].deleted /\ ~account[u].purged

\* purgeUser, for a person without stores and gifts under way.
MayPurge(by, u) == by # u /\ account[u].exists /\ ~account[u].purged /\ account[u].role # "admin"

Permitted(kind, by, u) ==
    \/ kind \in {"promote", "demote"} /\ MayChangeRole(kind, by, u)
    \/ kind = "disable" /\ MayDisable(by, u)
    \/ kind = "restore" /\ MayRestore(u)
    \/ kind = "purge" /\ MayPurge(by, u)

\* AdminGuard looks the caller up on every request.
AdminRequest(r, kind, by, u) ==
    /\ request[r] = Idle /\ Active(by) /\ account[by].role = "admin"
    /\ Permitted(kind, by, u)
    /\ Goes(r, [Idle EXCEPT !.pc = "admin", !.kind = kind, !.who = u])
    /\ UNCHANGED <<otp, lost, account, betaUsed, betaOff, redeemed, proven>>

\* The tombstone: no contact, no password and no stamp is left.  What the same
\* transaction deletes from other tables is not among the variables here.
Purged(a) == [None EXCEPT !.exists = TRUE, !.deleted = TRUE, !.purged = TRUE, !.role = a.role]

Administered(kind, a) ==
    CASE kind = "promote" -> [a EXCEPT !.role = "admin"]
      [] kind = "demote" -> [a EXCEPT !.role = "user"]
      [] kind = "disable" -> [a EXCEPT !.deleted = TRUE]
      [] kind = "restore" -> [a EXCEPT !.deleted = FALSE]
      [] kind = "purge" -> Purged(a)

\* The writes are by id.
AdminWrites(r) ==
    /\ request[r].pc = "admin"
    /\ Writes(request[r].who, Administered(request[r].kind, account[request[r].who]))
    /\ Over(r)
    /\ UNCHANGED <<otp, lost, betaUsed, betaOff, redeemed, proven>>

AccountsNext ==
    \/ CodesNext /\ UNCHANGED <<account, betaUsed, betaOff, redeemed, proven>>
    \/ SetCodeDisabled
    \/ \E u \in Users : ClearEmail(u)
    \/ \E t \in Targets : ForgotPassword(t) \/ \E u \in Users : ChangeStart(u, t)
    \/ \E r \in Requests :
          \/ \E p \in Phones, e \in Emails \cup {NoTarget}, c \in {"phone", "email"} : Register(r, p, e, c)
          \/ RegisterExisting(r) \/ RegisterGate(r) \/ RegisterConflict(r) \/ RegisterSpends(r)
          \/ RepairPhone(r) \/ ResetWrites(r) \/ ChangeWrites(r) \/ UpdateEmailWrites(r) \/ AdminWrites(r)
          \/ \E u \in Users :
                \/ RegisterInsert(r, u) \/ Login(r, u)
                \/ \E t \in Targets : ResetPassword(r, t, u) \/ ChangeContact(r, u, t)
                \/ \E t \in Emails : UpdateEmail(r, u, t)
                \/ \E kind \in {"promote", "demote", "disable", "restore", "purge"}, by \in Users :
                      AdminRequest(r, kind, by, u)

AccountsSpec == AccountsInit /\ [][AccountsNext]_accountVars

-----------------------------------------------------------------------------
\* Type invariant of the accounts and the beta code.
AccountsTypeOK ==
    /\ CodesTypeOK
    /\ \A u \in Users : /\ account[u].phone \in Phones \cup {NoTarget} /\ account[u].email \in Emails \cup {NoTarget}
                        /\ account[u].role \in {"user", "admin"}
    /\ betaUsed \in 0..MaxUses /\ redeemed \subseteq Users /\ proven \subseteq Users \X Targets

\* "two concurrent redemptions of the LAST remaining slot cannot both succeed":
\* every use of the beta code admitted one account, and no more than its cap.
BetaSlotsHold == betaUsed = Cardinality(redeemed) /\ betaUsed <= MaxUses

\* "Stamp the verification timestamp ONLY for the channel that was actually
\* proven": a verified phone was proved by a code sent to it, and who has a
\* verified address has proved an address, through registrations, changes and
\* purges in any order.  Left out are the first-wave numbers that login repairs:
\* that write can put the old number under the stamp of a new one.
VerifiedWasProven ==
    \A u \in Users \ Legacy :
        /\ account[u].phoneVerified => <<u, account[u].phone>> \in proven
        /\ account[u].emailVerified => \E t \in Emails : <<u, t>> \in proven

\* Accounts are admitted within the beta's slots and verified by proof only.
AccountsHold == AccountsTypeOK /\ BetaSlotsHold /\ VerifiedWasProven

\* "The email is stored UNVERIFIED": a verified address is one that was proved.
\* Not so when updateEmail writes on a read that a confirmed change has overtaken.
EmailWasProven == \A u \in Users : account[u].emailVerified => <<u, account[u].email>> \in proven

\* "Purged users cannot be restored": not so when the purge commits between the
\* read and the write of a restore.
PurgeIsFinal == \A u \in Users : account[u].purged => account[u].deleted

\* "This keeps the system from accidentally locking itself out": not so when two
\* administrators demote or disable each other at the same time.
SomeAdminLeft == \E u \in Users : Active(u) /\ account[u].role = "admin"

-----------------------------------------------------------------------------
(***************************************************************************)
(* The inductive invariant: the requests in flight count against the       *)
(* limits the code rows alone are held to, and carry what their writes     *)
(* rely on.                                                                *)
(***************************************************************************)
OtpRows == [target : Targets, attempts : Nat, age : {"fresh", "expired", "old"}, live : BOOLEAN,
            arrived : BOOLEAN, uses : Nat]
AccountRows == [exists : BOOLEAN, phone : Phones \cup {NoTarget}, email : Emails \cup {NoTarget},
                phoneVerified : BOOLEAN, emailVerified : BOOLEAN, deleted : BOOLEAN, purged : BOOLEAN,
                role : {"user", "admin"}, password : BOOLEAN, canonical : BOOLEAN]
Decrees == {"promote", "demote", "disable", "restore", "purge"}
Proving == {"verify", "row", "compare"}
Joining == {"existing", "gate", "conflict", "insert"}
Opening == {"compare", "spend"} \cup Joining
Asks == [pc : {"idle", "repair", "reset", "change", "email", "admin"} \cup Proving \cup Opening,
         target : Targets \cup {NoTarget}, code : Nat, row : Nat, consume : BOOLEAN,
         next : {"end", "existing", "reset", "change"}, who : Users \cup {NoOne},
         extra : Targets \cup {NoTarget}, flag : BOOLEAN, kind : Decrees \cup {"none", "register"}]

Registers(q) == q.pc \in Joining \/ (q.pc \in Proving /\ q.next = "existing")

\* A request carries what its next steps rely on; a registration one number and
\* at most one address.
AskFits(q) ==
    /\ q \in Asks
    /\ q.pc \in Proving => q.target \in Targets /\ (q.consume <=> q.next # "existing")
    /\ Registers(q) => \/ q.target \in Phones /\ q.extra \in Emails \cup {NoTarget}
                       \/ q.target \in Emails /\ q.extra \in Phones
    /\ q.pc \in {"reset", "change", "email", "admin"} \/ (q.pc \in Proving /\ q.next \in {"reset", "change"})
          => q.who \in Users
    /\ q.pc = "change" => q.target \in Targets
    /\ q.pc = "email" => q.target \in Emails
    /\ q.pc = "repair" => q.who \in Legacy /\ q.target \in Phones \cup {NoTarget}
    /\ q.pc = "admin" => q.kind \in Decrees

\* The requests that may still guess at a target, and those that may open with a row.
Guessers(t) == {r \in Requests : request[r].pc \in {"row", "compare"} /\ request[r].target = t}
Holders(i) == {r \in Requests : request[r].pc \in Opening /\ request[r].row = i}

AsksFit ==
    /\ otp \in Seq(OtpRows) /\ lost \in 0..MaxLost
    /\ request \in [Requests -> Asks]
    /\ \A r \in Requests :
          /\ AskFits(request[r]) /\ request[r].row \in 0..Len(otp)
          /\ request[r].pc \in Opening => request[r].row \in CodeRows
          /\ request[r].pc = "compare" => otp[request[r].row].target = request[r].target

GuessesAhead ==
    \A t \in Targets : WindowAttempts(t) + Cardinality(Guessers(t)) <= MaxTargetAttempts + Cardinality(Requests) - 1

\* A live row was used by lost deletes only; a dead one finds no new holder.
UsesAhead ==
    \A i \in CodeRows :
        /\ otp[i].live => otp[i].uses <= lost
        /\ ~otp[i].live => otp[i].uses + Cardinality(Holders(i)) <= Cardinality(Requests) + lost

PeopleFit ==
    /\ account \in [Users -> AccountRows] /\ betaOff \in BOOLEAN /\ proven \subseteq Users \X Targets
    /\ \A u \in Users : ~account[u].canonical => u \in Legacy
    /\ IsFiniteSet(redeemed) /\ redeemed \subseteq Users /\ \A u \in redeemed : account[u].exists

AccountsInv ==
    /\ AsksFit /\ GuessesAhead /\ UsesAhead
    /\ PeopleFit /\ BetaSlotsHold /\ VerifiedWasProven
=============================================================================
