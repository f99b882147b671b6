----------------------------- MODULE AddressBook -----------------------------
(***************************************************************************)
(* The delivery addresses of one user (addresses.service.ts) and the gift  *)
(* attempts that wait for a default address (GiftAttempt rows).            *)
(*                                                                         *)
(* Every request first reads and later writes in one transaction; what it  *)
(* has read may be stale by then.  The reads a request makes before its    *)
(* first write are one snapshot.  Address ids grow with creation and are   *)
(* never used again, as cuids do; the fields of an address are left out.   *)
(***************************************************************************)
EXTENDS Naturals, FiniteSets, FiniteSetsExt

CONSTANTS
    NAddresses,   \* bound on the addresses the user ever saves
    OwnerCalls,   \* requests of the owner that may be in flight at once
    NAttempts     \* bound on the gift attempts recorded for the user

ASSUME AddressBookAssumption == NAddresses \in Nat /\ NAttempts \in Nat

VARIABLES
    book,         \* each address: "unused", "plain", "default" or "gone"
    attempt,      \* each attempt: "none", "open" or "resolved"
    told,         \* how often the sender of the attempt was told to retry
    call,         \* the owner's requests
    overlapped    \* two of the owner's requests have been in flight together

bookVars == <<book, attempt, told, call, overlapped>>

AddressIds == 1..NAddresses
AttemptIds == 1..NAttempts
NoCall == [pc |-> "idle", addr |-> 0, wants |-> FALSE, was |-> FALSE, had |-> FALSE, found |-> {}]

Saved == {i \in AddressIds : book[i] \in {"plain", "default"}}
Unused == {i \in AddressIds : book[i] = "unused"}
Defaults == {i \in AddressIds : book[i] = "default"}
HasDefault == Defaults # {}

\* A transaction that makes address i the default clears the others first.
OnlyDefault(b, i) ==
    [j \in AddressIds |-> IF j = i THEN "default" ELSE IF b[j] = "default" THEN "plain" ELSE b[j]]

BookInit ==
    /\ book = [i \in AddressIds |-> "unused"]
    /\ attempt = [t \in AttemptIds |-> "none"] /\ told = [t \in AttemptIds |-> 0]
    /\ call = [c \in OwnerCalls |-> NoCall]
    /\ overlapped = FALSE

\* A request begins: what it reads before its transaction.
Begin(c, pc, i, wants) ==
    /\ call[c].pc = "idle"
    /\ call' = [call EXCEPT ![c] = [pc |-> pc, addr |-> i, wants |-> wants,
                                    was |-> i \in Defaults, had |-> HasDefault, found |-> {}]]
    /\ overlapped' = (overlapped \/ \E d \in OwnerCalls : call[d].pc # "idle")
    /\ UNCHANGED <<book, attempt, told>>

\* A first address becomes the default whether or not the owner asks for it.
CreateAddressLoad(c, wants) == Begin(c, "create", 0, wants \/ Saved = {})
UpdateAddressLoad(c, i, wants) == i \in Saved /\ Begin(c, "update", i, wants)
SetDefaultLoad(c, i) == i \in Saved /\ Begin(c, "setDefault", i, TRUE)
RemoveAddressLoad(c, i) == i \in Saved /\ Begin(c, "remove", i, FALSE)

\* The senders who wait are told when this request has found no default before.
ThenResolve(c) ==
    call' = [call EXCEPT ![c] = IF call[c].wants /\ ~call[c].had
                                THEN [NoCall EXCEPT !.pc = "resolve"] ELSE NoCall]

CreateAddress(c) ==
    /\ call[c].pc = "create" /\ Unused # {}
    /\ LET i == Min(Unused)
       IN  book' = IF call[c].wants THEN OnlyDefault(book, i) ELSE [book EXCEPT ![i] = "plain"]
    /\ ThenResolve(c)
    /\ UNCHANGED <<attempt, told, overlapped>>

\* The others are cleared only when the owner asks for the default and the row
\* was not the default when it was read; the row keeps what was read of it.
UpdateAddress(c) ==
    LET i == call[c].addr IN
    /\ call[c].pc = "update"
    /\ IF i \in Saved
       THEN /\ book' = IF call[c].wants /\ ~call[c].was THEN OnlyDefault(book, i)
                       ELSE [book EXCEPT ![i] = IF call[c].was THEN "default" ELSE "plain"]
            /\ ThenResolve(c)
       ELSE book' = book /\ call' = [call EXCEPT ![c] = NoCall]
    /\ UNCHANGED <<attempt, told, overlapped>>

SetDefault(c) ==
    /\ call[c].pc = "setDefault"
    /\ IF call[c].addr \in Saved
       THEN book' = OnlyDefault(book, call[c].addr) /\ ThenResolve(c)
       ELSE book' = book /\ call' = [call EXCEPT ![c] = NoCall]
    /\ UNCHANGED <<attempt, told, overlapped>>

NoSuccessor(i, was) == [book EXCEPT ![i] = "gone"]

\* When the deleted address was the default, the most recent other one follows.
Successor(i, was) ==
    LET rest == Saved \ {i}
        gone == [book EXCEPT ![i] = "gone"]
    IN  IF was /\ rest # {} THEN [gone EXCEPT ![Max(rest)] = "default"] ELSE gone

RemoveAddress(c) ==
    LET i == call[c].addr IN
    /\ call[c].pc = "remove"
    /\ book' = IF i \in Saved THEN Successor(i, call[c].was) ELSE book
    /\ call' = [call EXCEPT ![c] = NoCall]
    /\ UNCHANGED <<attempt, told, overlapped>>

\* resolvePendingAttemptsFor runs after the answer: it reads the open attempts,
\* marks them by id and tells their senders.
ResolveLoad(c) ==
    /\ call[c].pc = "resolve"
    /\ LET open == {t \in AttemptIds : attempt[t] = "open"}
       IN  call' = [call EXCEPT ![c] = IF open = {} THEN NoCall
                                       ELSE [NoCall EXCEPT !.pc = "tell", !.found = open]]
    /\ UNCHANGED <<book, attempt, told, overlapped>>

ResolveTell(c) ==
    /\ call[c].pc = "tell"
    /\ attempt' = [t \in AttemptIds |-> IF t \in call[c].found THEN "resolved" ELSE attempt[t]]
    /\ told' = [t \in AttemptIds |-> IF t \in call[c].found THEN told[t] + 1 ELSE told[t]]
    /\ call' = [call EXCEPT ![c] = NoCall]
    /\ UNCHANGED <<book, overlapped>>

\* A sender's gift was refused for want of a default address.
RecordAttempt ==
    /\ \E t \in AttemptIds :
          /\ attempt[t] = "none" /\ \A u \in AttemptIds : u < t => attempt[u] # "none"
          /\ attempt' = [attempt EXCEPT ![t] = "open"]
    /\ UNCHANGED <<book, told, call, overlapped>>

\* The steps that delete no address; RemoveAddress also unlinks gifts.
BookNext ==
    \E c \in OwnerCalls :
        \/ \E wants \in BOOLEAN : CreateAddressLoad(c, wants)
        \/ \E i \in AddressIds : \/ \E wants \in BOOLEAN : UpdateAddressLoad(c, i, wants)
                                 \/ SetDefaultLoad(c, i) \/ RemoveAddressLoad(c, i)
        \/ CreateAddress(c) \/ UpdateAddress(c) \/ SetDefault(c)
        \/ ResolveLoad(c) \/ ResolveTell(c)

-----------------------------------------------------------------------------
\* Type invariant of the address book.
BookTypeOK ==
    /\ book \in [AddressIds -> {"unused", "plain", "default", "gone"}]
    /\ attempt \in [AttemptIds -> {"none", "open", "resolved"}]
    /\ told \in [AttemptIds -> Nat]
    /\ overlapped \in BOOLEAN
    /\ call \in [OwnerCalls -> [pc : {"idle", "create", "update", "setDefault", "remove",
                                      "resolve", "tell"},
                                addr : 0..NAddresses, wants : BOOLEAN, was : BOOLEAN,
                                had : BOOLEAN, found : SUBSET AttemptIds]]

\* An owner whose own requests never overlap keeps exactly one default for as
\* long as any address is left, through every sequence of creates, edits,
\* promotions and deletions.
OneDefaultKept == overlapped \/ Saved = {} \/ Cardinality(Defaults) = 1

\* "so the invariant 'at most one default per user' always holds" (create, and
\* the transactions of update and setDefault): with overlapping requests it
\* does not, because update writes back the flag it has read (README, section 6).
AtMostOneDefault == Cardinality(Defaults) <= 1

-----------------------------------------------------------------------------
(***************************************************************************)
(* What keeps the properties: the inductive invariant of the address book. *)
(***************************************************************************)
\* As long as the owner's requests have not overlapped, the one in flight
\* knows the book as it is: whether its row is the default, whether it adds to
\* an empty book.
OwnerCallFits(c) ==
    /\ call[c].pc \in {"update", "setDefault", "remove"} =>
          /\ call[c].addr \in Saved
          /\ call[c].was <=> call[c].addr \in Defaults
    /\ call[c].pc = "create" /\ ~call[c].wants => Saved # {}

BookInv ==
    /\ BookTypeOK
    /\ ~overlapped =>
          /\ \A c, d \in OwnerCalls : call[c].pc # "idle" /\ call[d].pc # "idle" => c = d
          /\ \A c \in OwnerCalls : OwnerCallFits(c)
          /\ Saved = {} \/ \E i \in AddressIds : Defaults = {i}
=============================================================================
