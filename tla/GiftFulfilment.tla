--------------------------- MODULE GiftFulfilment ---------------------------
(***************************************************************************)
(* A gift from its creation to its delivery (gifts.service.ts,             *)
(* gifts-auto-default.service.ts, gift-status.ts, store.service.ts) over   *)
(* the receiver's address book.  The sender creates and cancels, the       *)
(* receiver confirms an address, a sweep every ten minutes does it for a   *)
(* receiver who is silent, the store prepares, ships and delivers.         *)
(*                                                                         *)
(* A request reads the gift, checks, and writes later: by id where the     *)
(* code writes by id, under a status filter where it has one.  `seen' is   *)
(* what the receiver has been told, by notifications and by reads.         *)
(* Wishlist counters and published posts are modelled in GiftWall.         *)
(***************************************************************************)
EXTENDS AddressBook

CONSTANTS
    Gifts,        \* rows of the gift table
    Parties,      \* requests of sender, receiver and store in flight at once
    Bodies,       \* request bodies, told apart by their hash
    Covered,      \* the address ids inside the store's delivery zones
    Fast,         \* gifts of fast-delivery products: only they are zone-bound
    Surprise      \* gifts whose product is hidden until delivery

ASSUME GiftAssumption == Covered \subseteq AddressIds /\ Fast \subseteq Gifts /\ Surprise \subseteq Gifts

VARIABLES
    status,       \* Gift.status
    payload,      \* the hash stored with the idempotency key of the sender
    pinned,       \* Gift.addressId, 0 for null
    stamps,       \* the phases the gift has been in: confirmedAt, shippedAt...
    overdue,      \* created more than 24 hours ago
    parcel,       \* the status of the gift's Shipment
    seen,         \* what the receiver has been told of the gift
    misanswered,  \* a creation was answered with a gift made from another body
    act           \* the requests in flight, the sweep's visit among them

giftTables == <<status, payload, pinned, stamps, overdue, parcel, seen, misanswered>>
giftVars == <<bookVars, giftTables, act>>

Statuses == {"pending_address", "address_confirmed", "default_address_used",
             "preparing", "shipped", "delivered", "cancelled"}
Sweep == "sweep"
Callers == Parties \cup {Sweep}
NoAct == [pc |-> "idle", gift |-> "none", addr |-> 0, body |-> "none"]
Rows == {g \in Gifts : status[g] # "none"}
Finish(a) == act' = [act EXCEPT ![a] = NoAct]
In(a, pc) == act[a].pc = pc
Subject(a) == act[a].gift

ShipUnprepared(from) ==
    CASE from = "pending_address" -> {"address_confirmed", "default_address_used", "cancelled"}
      [] from \in {"address_confirmed", "default_address_used"} -> {"preparing", "shipped", "cancelled"}
      [] from = "preparing" -> {"shipped"}
      [] from = "shipped" -> {"delivered"}
      [] OTHER -> {}

\* ALLOWED_TRANSITIONS, which assertTransition consults.
Allowed(from) ==
    CASE from = "pending_address" -> {"address_confirmed", "default_address_used", "cancelled"}
      [] from \in {"address_confirmed", "default_address_used"} -> {"preparing", "cancelled"}
      [] from = "preparing" -> {"shipped"}
      [] from = "shipped" -> {"delivered"}
      [] OTHER -> {}

MaskedUntilShipped(g, s) == g \in Surprise /\ s \notin {"shipped", "delivered"}

\* shouldMaskGiftBody and applySurpriseReveal: a surprise is revealed by its
\* delivery only.
Masked(g, s) == g \in Surprise /\ s # "delivered"

\* What the receiver can be told: the names of product and store, what else
\* gives them away (their ids, category, city), the message; and the names on a
\* path that has no mask.
Facts == {"name", "trace", "message", "openName"}

\* What a notification about a gift of status s tells the receiver, and what
\* applyGiftVisibility leaves in a view: the mask blanks the two names only.
Body(g, s) == IF Masked(g, s) THEN {} ELSE {"name"}
View(g, s) == Body(g, s) \cup {"trace"} \cup (IF s = "delivered" THEN {"message"} ELSE {})
Show(g, what) == seen' = [seen EXCEPT ![g] = @ \cup what]

GiftInit ==
    /\ BookInit
    /\ status = [g \in Gifts |-> "none"] /\ payload = [g \in Gifts |-> "none"]
    /\ pinned = [g \in Gifts |-> 0] /\ stamps = [g \in Gifts |-> {}]
    /\ overdue = [g \in Gifts |-> FALSE] /\ parcel = [g \in Gifts |-> "none"]
    /\ seen = [g \in Gifts |-> {}] /\ misanswered = FALSE
    /\ act = [a \in Callers |-> NoAct]

\* A request that has passed its checks and still has to write.
Start(a, pc, g, i, b) ==
    /\ act[a].pc = "idle"
    /\ act' = [act EXCEPT ![a] = [pc |-> pc, gift |-> g, addr |-> i, body |-> b]]

-----------------------------------------------------------------------------
AnyBody(g, b) == TRUE

\* The stored hash decides between a replay and 409 idempotency_key_reused.
SameBody(g, b) == payload[g] = b

Replay(b) == misanswered' = (misanswered \/ \E g \in Rows : SameBody(g, b) /\ payload[g] # b)

\* GiftsService.create, with an idempotency key: the pre-check.
CreateLookup(a, b) ==
    /\ IF Rows # {} THEN act[a].pc = "idle" /\ Replay(b) /\ act' = act
       ELSE Start(a, "guards", "none", 0, b) /\ UNCHANGED misanswered
    /\ UNCHANGED <<bookVars, status, payload, pinned, stamps, overdue, parcel, seen>>

\* Without a default address the attempt is recorded, best effort, and the
\* request refused; the other guards (self, blocked, stock) refuse as well.
CreateGuards(a) ==
    /\ In(a, "guards")
    /\ \/ HasDefault /\ act' = [act EXCEPT ![a].pc = "insert"] /\ UNCHANGED bookVars
       \/ ~HasDefault /\ Finish(a) /\ (RecordAttempt \/ UNCHANGED bookVars)
       \/ HasDefault /\ Finish(a) /\ UNCHANGED bookVars
    /\ UNCHANGED giftTables

NoIndex == TRUE

\* @@unique([senderId, idempotencyKey])
KeyFree == Rows = {}

\* The insert, or the winner's gift when a parallel request was first.
CreateInsert(a) ==
    /\ In(a, "insert")
    /\ IF KeyFree
       THEN \E g \in Gifts \ Rows :
              /\ status' = [status EXCEPT ![g] = "pending_address"]
              /\ payload' = [payload EXCEPT ![g] = act[a].body]
              /\ Show(g, Body(g, "pending_address"))
              /\ UNCHANGED misanswered
       ELSE Replay(act[a].body) /\ UNCHANGED <<status, payload, seen>>
    /\ Finish(a)
    /\ UNCHANGED <<bookVars, pinned, stamps, overdue, parcel>>

-----------------------------------------------------------------------------
\* confirmAddress: the receiver's own address, the default when none is named,
\* inside the zones for a fast delivery.
ConfirmAddressLoad(a, g) ==
    /\ status[g] = "pending_address"
    /\ \E i \in Saved : /\ g \in Fast => i \in Covered
                        /\ Start(a, "confirm", g, i, "none")
    /\ UNCHANGED <<bookVars, giftTables>>

\* The write is by id; a deleted address breaks the foreign key.
ConfirmAddress(a) ==
    LET g == Subject(a) IN
    /\ In(a, "confirm")
    /\ IF act[a].addr \in Saved
       THEN /\ status' = [status EXCEPT ![g] = "address_confirmed"]
            /\ pinned' = [pinned EXCEPT ![g] = act[a].addr]
            /\ stamps' = [stamps EXCEPT ![g] = @ \cup {"confirmed"}]
            /\ Show(g, View(g, "address_confirmed"))
       ELSE UNCHANGED <<status, pinned, stamps, seen>>
    /\ Finish(a)
    /\ UNCHANGED <<bookVars, payload, overdue, parcel, misanswered>>

Cancellable == {"pending_address", "address_confirmed", "default_address_used"}

CancelLoad(a, g) ==
    /\ status[g] \in Cancellable
    /\ Start(a, "cancel", g, 0, "none")
    /\ UNCHANGED <<bookVars, giftTables>>

CancelById(g) == TRUE

\* updateMany with the status filter.
StillCancellable(g) == status[g] \in Cancellable

Cancel(a) ==
    LET g == Subject(a) IN
    /\ In(a, "cancel")
    /\ IF StillCancellable(g)
       THEN status' = [status EXCEPT ![g] = "cancelled"] /\ Show(g, Body(g, "cancelled"))
       ELSE UNCHANGED <<status, seen>>
    /\ Finish(a)
    /\ UNCHANGED <<bookVars, payload, pinned, stamps, overdue, parcel, misanswered>>

-----------------------------------------------------------------------------
\* markPreparing, markShipped, markDelivered: the store's request to move the
\* gift on, checked against the table when it is read.
StoreLoad(a, g, to) ==
    /\ to \in {"preparing", "shipped", "delivered"} /\ to \in Allowed(status[g])
    /\ Start(a, to, g, 0, "none")
    /\ UNCHANGED <<bookVars, giftTables>>

\* The write is by id.  A shipment with a known provider gets its row next.
StoreWrite(a) ==
    LET g == Subject(a)  to == act[a].pc IN
    /\ to \in {"preparing", "shipped", "delivered"}
    /\ status' = [status EXCEPT ![g] = to]
    /\ stamps' = [stamps EXCEPT ![g] = @ \cup {to}]
    /\ Show(g, Body(g, to))
    /\ \/ Finish(a)
       \/ to = "shipped" /\ act' = [act EXCEPT ![a].pc = "parcel"]
    /\ UNCHANGED <<bookVars, payload, pinned, overdue, parcel, misanswered>>

RegisterParcel(a) ==
    /\ In(a, "parcel")
    /\ parcel' = [parcel EXCEPT ![Subject(a)] = "registered"]
    /\ Finish(a)
    /\ UNCHANGED <<bookVars, status, payload, pinned, stamps, overdue, seen, misanswered>>

\* upsertShipment: whatever the gift's status; an existing row keeps its own.
UpsertShipment(g) ==
    /\ g \in Rows /\ parcel[g] = "none"
    /\ parcel' = [parcel EXCEPT ![g] = "registered"]
    /\ UNCHANGED <<bookVars, status, payload, pinned, stamps, overdue, seen, misanswered, act>>

\* appendShipmentEvent: the event, and for "delivered" the gift when the table
\* allows it from the status that was read with the request.  The statuses
\* before delivery are one.
ShipmentEvent(a, g, s) ==
    /\ parcel[g] # "none" /\ act[a].pc = "idle"
    /\ parcel' = [parcel EXCEPT ![g] = s]
    /\ IF s = "delivered" /\ "delivered" \in Allowed(status[g])
       THEN Start(a, "mirror", g, 0, "none") ELSE act' = act
    /\ UNCHANGED <<bookVars, status, payload, pinned, stamps, overdue, seen, misanswered>>

MirrorDelivered(a) ==
    /\ In(a, "mirror")
    /\ status' = [status EXCEPT ![Subject(a)] = "delivered"]
    /\ stamps' = [stamps EXCEPT ![Subject(a)] = @ \cup {"delivered"}]
    /\ Finish(a)
    /\ UNCHANGED <<bookVars, payload, pinned, overdue, parcel, seen, misanswered>>

-----------------------------------------------------------------------------
BecomesOverdue(g) ==
    /\ g \in Rows /\ ~overdue[g]
    /\ overdue' = [overdue EXCEPT ![g] = TRUE]
    /\ UNCHANGED <<bookVars, status, payload, pinned, stamps, parcel, seen, misanswered, act>>

Eligible(g) == IF g \in Fast THEN Saved \cap Covered ELSE Saved

\* The default if it qualifies, else the oldest address that does.
Preferred(g) ==
    Min(IF Eligible(g) \cap Defaults # {} THEN Eligible(g) \cap Defaults ELSE Eligible(g))

\* runOnce visits an overdue gift; with no address that qualifies it only tells
\* both sides.
SweepVisit(g) ==
    /\ status[g] = "pending_address" /\ overdue[g]
    /\ act[Sweep].pc = "idle"
    /\ IF Eligible(g) # {}
       THEN Start(Sweep, "sweep", g, Preferred(g), "none") /\ UNCHANGED seen
       ELSE act' = act /\ Show(g, IF Saved = {} THEN {} ELSE Body(g, "pending_address"))
    /\ UNCHANGED <<bookVars, status, payload, pinned, stamps, overdue, parcel, misanswered>>

SweepNever(g) == FALSE

\* updateMany where the gift is still pending.
StillPending(g) == status[g] = "pending_address"

SweepWrite ==
    LET g == Subject(Sweep)  i == act[Sweep].addr IN
    /\ In(Sweep, "sweep")
    /\ IF StillPending(g) /\ i \in Saved
       THEN /\ status' = [status EXCEPT ![g] = "default_address_used"]
            /\ pinned' = [pinned EXCEPT ![g] = i]
            /\ stamps' = [stamps EXCEPT ![g] = @ \cup {"confirmed"}]
            /\ Show(g, Body(g, "default_address_used"))
       ELSE UNCHANGED <<status, pinned, stamps, seen>>
    /\ Finish(Sweep)
    /\ UNCHANGED <<bookVars, payload, overdue, parcel, misanswered>>

\* findOne and findReceived.
ReceiverViews(g) ==
    /\ g \in Rows /\ Show(g, View(g, status[g]))
    /\ UNCHANGED <<bookVars, status, payload, pinned, stamps, overdue, parcel, misanswered, act>>

\* The paths without a mask: the public list of received gifts, which drops
\* cancelled ones; a post of the gift, which may be made from the creation on
\* and stays with both parties; the receiver's own wishlist, where a wish is
\* marked as bought.
OpenRead(g) ==
    /\ \/ status[g] \notin {"none", "cancelled"} /\ Show(g, {"openName"})
       \/ g \in Rows /\ \E ids \in SUBSET {"trace"} : Show(g, {"openName"} \cup ids)
       \/ g \in Rows /\ Show(g, {"trace"})
    /\ UNCHANGED <<bookVars, status, payload, pinned, stamps, overdue, parcel, misanswered, act>>

\* Gift.address is onDelete: SetNull.
AddressGone(c) ==
    /\ RemoveAddress(c)
    /\ pinned' = [g \in Gifts |-> IF pinned[g] # 0 /\ book'[pinned[g]] = "gone" THEN 0 ELSE pinned[g]]
    /\ UNCHANGED <<status, payload, stamps, overdue, parcel, seen, misanswered, act>>

GiftNext ==
    \/ BookNext /\ UNCHANGED <<giftTables, act>>
    \/ \E c \in OwnerCalls : AddressGone(c)
    \/ \E a \in Parties, b \in Bodies : CreateLookup(a, b)
    \/ \E a \in Parties : \/ CreateGuards(a) \/ CreateInsert(a) \/ ConfirmAddress(a) \/ Cancel(a)
                          \/ StoreWrite(a) \/ RegisterParcel(a) \/ MirrorDelivered(a)
    \/ \E a \in Parties, g \in Gifts :
          \/ ConfirmAddressLoad(a, g) \/ CancelLoad(a, g)
          \/ \E to \in Statuses : StoreLoad(a, g, to)
          \/ \E s \in {"registered", "delivered"} : ShipmentEvent(a, g, s)
    \/ \E g \in Gifts : UpsertShipment(g) \/ BecomesOverdue(g) \/ SweepVisit(g)
                       \/ ReceiverViews(g) \/ OpenRead(g)
    \/ SweepWrite

GiftSpec == GiftInit /\ [][GiftNext]_giftVars

\* The timer fires again and again, and a sweep that has begun ends.
GiftFairness == WF_giftVars(\E g \in Gifts : SweepVisit(g) /\ act' # act) /\ WF_giftVars(SweepWrite)

-----------------------------------------------------------------------------
\* Type invariant of the gift table and the requests on it.
GiftTypeOK ==
    /\ status \in [Gifts -> Statuses \cup {"none"}]
    /\ payload \in [Gifts -> Bodies \cup {"none"}]
    /\ pinned \in [Gifts -> 0..NAddresses]
    /\ stamps \in [Gifts -> SUBSET {"confirmed", "preparing", "shipped", "delivered"}]
    /\ overdue \in [Gifts -> BOOLEAN]
    /\ parcel \in [Gifts -> {"none", "registered", "delivered"}]
    /\ seen \in [Gifts -> SUBSET Facts]
    /\ misanswered \in BOOLEAN
    /\ act \in [Callers -> [pc : {"idle", "guards", "insert", "confirm", "cancel", "preparing",
                                 "shipped", "delivered", "parcel", "mirror", "sweep"},
                           gift : Gifts \cup {"none"}, addr : 0..NAddresses,
                           body : Bodies \cup {"none"}]]

\* However creations with one idempotency key overlap, they make one gift, and
\* nobody is answered with a gift made from another body.
OneGiftPerKey ==
    /\ Cardinality(Rows) <= 1
    /\ ~misanswered

\* A gift is never delivered unless it was shipped, shipped unless prepared,
\* prepared unless an address had been confirmed, whatever stale request wrote
\* last.
PhasesInOrder ==
    \A g \in Gifts :
        /\ "delivered" \in stamps[g] => "shipped" \in stamps[g]
        /\ "shipped" \in stamps[g] => "preparing" \in stamps[g]
        /\ "preparing" \in stamps[g] => "confirmed" \in stamps[g]

\* One gift per checkout, through its phases in order, over an address book
\* that keeps its default.
GiftsAreOrderly ==
    /\ BookTypeOK /\ GiftTypeOK
    /\ OneDefaultKept
    /\ OneGiftPerKey
    /\ PhasesInOrder

\* Before delivery no path of any kind tells the receiver a message, and no
\* notification and no view behind the mask names a surprise.
SurpriseKept ==
    \A g \in Gifts : ("message" \in seen[g] \/ (g \in Surprise /\ "name" \in seen[g]))
                         => "delivered" \in stamps[g]

\* applyGiftVisibility is "the function every gift-returning endpoint MUST call
\* before responding", with the names masked "until status === 'delivered'"
\* (gift-visibility.ts): the list of received gifts and the posts do not.
SurpriseKeptOnEveryPath ==
    \A g \in Surprise : seen[g] \cap {"name", "openName"} # {} => "delivered" \in stamps[g]

\* A gift the store has accepted once comes back among the cancellable ones only
\* by a confirmation that was checked before the acceptance and written after
\* it; no cancellation takes it otherwise, also when that was checked before.
AcceptedNotCancelled ==
    [][\A g \in Gifts : "preparing" \in stamps[g] =>
          /\ status'[g] = "cancelled" => status[g] \in {"cancelled", "address_confirmed"}
          /\ status'[g] \in Cancellable /\ status[g] \notin Cancellable
                => \E a \in Parties : In(a, "confirm") /\ Subject(a) = g]_giftVars

\* "once the gift is `preparing` or beyond, the store has the order and
\* cancellation needs the refund flow" (cancel): fails after such a confirmation.
AcceptedForGood ==
    [][\A g \in Gifts : "preparing" \in stamps[g] /\ status'[g] = "cancelled"
                            => status[g] = "cancelled"]_giftVars

\* The sweep "promotes overdue `pending_address` gifts" (gifts-auto-default): a
\* gift that is overdue while an address qualifies does not stay pending for ever.
SilentReceiverServed ==
    \A g \in Gifts : []<>~(status[g] = "pending_address" /\ overdue[g] /\ Eligible(g) # {})

\* "a future caller can't silently transition a delivered or cancelled gift back
\* into the pipeline" (gift-status.ts): the writes by id do (README, section 6).
TerminalGiftsStay ==
    [][\A g \in Gifts : status[g] \in {"delivered", "cancelled"} => status'[g] = status[g]]_giftVars

\* A sender whose attempt is recorded is told once the receiver has a default
\* and nothing is under way: not so when the address is saved between the
\* sender's check and the recording (README, section 6).
NoAttemptForgotten ==
    (HasDefault /\ \A c \in OwnerCalls : call[c].pc = "idle")
        => \A t \in AttemptIds : attempt[t] # "open"

-----------------------------------------------------------------------------
(***************************************************************************)
(* What keeps the properties: the inductive invariant of the gifts.        *)
(***************************************************************************)
\* What has happened to a gift that a request has read as ready for its write:
\* the stamps stay when a stale write takes the status back.
Past(pc) == CASE pc = "preparing" -> {"confirmed"}
              [] pc = "shipped" -> {"confirmed", "preparing"}
              [] pc \in {"delivered", "mirror"} -> {"confirmed", "preparing", "shipped"}
              [] OTHER -> {}

ActFits(a) ==
    act[a].pc \notin {"idle", "guards", "insert"} =>
        act[a].gift \in Rows /\ Past(act[a].pc) \subseteq stamps[act[a].gift]

\* What a gift in a status has behind it.
Behind(s) == CASE s \in {"address_confirmed", "default_address_used"} -> {"confirmed"}
               [] s = "preparing" -> {"confirmed", "preparing"}
               [] s = "shipped" -> {"confirmed", "preparing", "shipped"}
               [] s = "delivered" -> {"confirmed", "preparing", "shipped", "delivered"}
               [] OTHER -> {}

\* The statuses of a gift no store has accepted yet.
Unaccepted == {"none", "pending_address", "default_address_used"}

GiftInv ==
    /\ BookInv
    /\ GiftTypeOK
    /\ \A g, h \in Rows : g = h
    /\ ~misanswered
    /\ \A a \in Callers : ActFits(a)
    /\ \A g \in Gifts : Behind(status[g]) \subseteq stamps[g]
    /\ \A g \in Gifts : status[g] \in Unaccepted => "preparing" \notin stamps[g]
    /\ PhasesInOrder
    /\ SurpriseKept
=============================================================================
