----------------------------- MODULE Storefront -----------------------------
(***************************************************************************)
(* One store and one of its products (stores.service.ts,                   *)
(* products.service.ts, store-integrations.service.ts, and the store       *)
(* review of admin.service.ts): the application and its review, the plan   *)
(* and the upstream integration, the catalogue, and what a buyer may order.*)
(*                                                                         *)
(* The merchant and the operators write the store's row by id after        *)
(* reading it, each handler in two steps; none of the writes is            *)
(* conditional on what was read.                                           *)
(***************************************************************************)
EXTENDS Naturals

CONSTANTS
    Handlers,     \* requests of the merchant and the operators under way at once
    MaxShop       \* bound on the requests of a behaviour

ASSUME StorefrontAssumption == MaxShop \in Nat

VARIABLES
    store,        \* the Store row: status, plan, integration
    product,      \* the Product row: exists, isAvailable, stockStatus
    job,          \* the requests of the merchant and the operators
    buying,       \* the one purchase under way: the product and the store it names
    decision,     \* history: what the operators last made of the store
    met,          \* history: what the purchase has met: its product on offer, the store open
    shop          \* number of requests so far

shopVars == <<store, product, job, buying, decision, met, shop>>

StoreStatuses == {"draft", "pending", "submitted", "approved", "rejected", "changes_requested", "suspended"}
AdminStatuses == {"pending", "approved", "rejected", "suspended"}    \* ALLOWED_STORE_STATUSES
ReviewStatuses == {"approved", "rejected", "changes_requested"}
PublicStatuses == {"approved", "pending"}                            \* PUBLIC_STORE_STATUSES
NoJob == [pc |-> "idle", status |-> "draft"]
NoOrder == [pc |-> "no", product |-> FALSE, body |-> "none", store |-> "none"]

\* A new application is 'pending', which is a public status.
ShopInit ==
    /\ store = [status |-> "pending", plan |-> "starter", type |-> "none", link |-> "disconnected", secret |-> FALSE]
    /\ product = [exists |-> FALSE, available |-> FALSE, stock |-> FALSE]
    /\ job = [h \in Handlers |-> NoJob]
    /\ buying = NoOrder /\ decision = "none" /\ met = {} /\ shop = 0

StartsJob(h, pc) == /\ job[h] = NoJob /\ shop < MaxShop /\ shop' = shop + 1
                    /\ job' = [job EXCEPT ![h] = [pc |-> pc, status |-> store.status]]
EndsJob(h) == job' = [job EXCEPT ![h] = NoJob] /\ UNCHANGED shop

-----------------------------------------------------------------------------
WritesBack(read) == IF read = "changes_requested" THEN "submitted" ELSE read

\* patch: an edit after changes were requested is a resubmission; otherwise
\* the status is not among what is written.
PatchedStatus(read) == IF read = "changes_requested" THEN "submitted" ELSE store.status

PatchLoads(h) ==
    /\ StartsJob(h, "patch")
    /\ UNCHANGED <<store, product, buying, decision>>

PatchWrites(h) ==
    /\ job[h].pc = "patch"
    /\ store' = [store EXCEPT !.status = PatchedStatus(job[h].status)]
    /\ EndsJob(h)
    /\ UNCHANGED <<product, buying, decision>>

SubmitLoads(h) ==
    /\ store.status \in {"draft", "pending", "changes_requested"}
    /\ StartsJob(h, "submit")
    /\ UNCHANGED <<store, product, buying, decision>>

SubmitWrites(h) ==
    /\ job[h].pc = "submit" /\ store' = [store EXCEPT !.status = "submitted"]
    /\ EndsJob(h)
    /\ UNCHANGED <<product, buying, decision>>

\* review and setStoreStatus take the store from whatever state it is in.
DecideStore(s) ==
    /\ shop < MaxShop /\ shop' = shop + 1
    /\ s \in AdminStatuses \cup ReviewStatuses
    /\ store' = [store EXCEPT !.status = s] /\ decision' = s
    /\ UNCHANGED <<product, job, buying>>

SetPlan(plan) ==
    /\ shop < MaxShop /\ shop' = shop + 1
    /\ store.plan # plan /\ store' = [store EXCEPT !.plan = plan]
    /\ UNCHANGED <<product, job, buying, decision>>

-----------------------------------------------------------------------------
\* connect: the capability is checked, then type, status and a fresh secret are written.
ConnectChecks(h) ==
    /\ store.plan = "pro" /\ StartsJob(h, "connect")
    /\ UNCHANGED <<store, product, buying, decision>>

\* Disconnecting clears the secret as well.
Linked(on) == [store EXCEPT !.type = IF on THEN "api" ELSE "none",
                            !.link = IF on THEN "connected" ELSE "disconnected", !.secret = on]

ConnectWrites(h) ==
    /\ job[h].pc = "connect" /\ store' = Linked(TRUE)
    /\ EndsJob(h)
    /\ UNCHANGED <<product, buying, decision>>

Disconnect ==
    /\ shop < MaxShop /\ shop' = shop + 1
    /\ store' = Linked(FALSE)
    /\ UNCHANGED <<product, job, buying, decision>>

\* handleWebhook: without a secret nothing is accepted; a bad signature marks the link.
WebhookLoads(h) ==
    /\ store.secret /\ StartsJob(h, "webhook")
    /\ UNCHANGED <<store, product, buying, decision>>

WebhookFails(h) ==
    /\ job[h].pc = "webhook" /\ store' = [store EXCEPT !.link = "error"]
    /\ EndsJob(h)
    /\ UNCHANGED <<product, buying, decision>>

-----------------------------------------------------------------------------
\* Products of the owner: create, update and remove, each one write.
CreateProduct ==
    /\ ~product.exists
    /\ \E stock \in BOOLEAN : product' = [exists |-> TRUE, available |-> TRUE, stock |-> stock]

UpdateProduct ==
    /\ product.exists
    /\ \E a, s \in BOOLEAN : product' = [product EXCEPT !.available = a, !.stock = s]

RemoveProduct == product.exists /\ product' = [exists |-> FALSE, available |-> FALSE, stock |-> FALSE]

EditProduct ==
    /\ shop < MaxShop /\ shop' = shop + 1
    /\ CreateProduct \/ UpdateProduct \/ RemoveProduct
    /\ UNCHANGED <<store, job, buying, decision>>

AnyStoreSells(named) == named => product.exists /\ product.available /\ product.stock

\* checkAvailability: on sale, in stock, and in a public store; there is nothing
\* to check for an order that names no product.
Availability(named) ==
    named => /\ product.exists /\ product.available /\ product.stock
             /\ store.status \in PublicStatuses

\* The body names the product or not, and this store, another one or none.
BuyStarts ==
    /\ buying = NoOrder /\ shop < MaxShop /\ shop' = shop + 1
    /\ \E named \in BOOLEAN, body \in {"none", "this", "other"} :
          buying' = [NoOrder EXCEPT !.pc = "checking", !.product = named, !.body = body]
    /\ UNCHANGED <<store, product, job, decision>>

BuyChecks ==
    /\ buying.pc = "checking"
    /\ buying' = IF Availability(buying.product) THEN [buying EXCEPT !.pc = "checked"] ELSE NoOrder
    /\ UNCHANGED <<store, product, job, decision, shop>>

\* The store of the body goes before the product's own, and is not checked.
OrderedFrom == IF buying.body # "none" THEN buying.body ELSE IF buying.product THEN "this" ELSE "none"

BuyOrders ==
    /\ buying.pc = "checked"
    /\ buying' = [buying EXCEPT !.pc = "ordered", !.store = OrderedFrom]
    /\ UNCHANGED <<store, product, job, decision, shop>>

BuyEnds ==
    /\ buying.pc = "ordered" /\ buying' = NoOrder
    /\ UNCHANGED <<store, product, job, decision, shop>>

-----------------------------------------------------------------------------
ShopStep ==
    \/ \E h \in Handlers : \/ PatchLoads(h) \/ PatchWrites(h) \/ SubmitLoads(h) \/ SubmitWrites(h)
                           \/ ConnectChecks(h) \/ ConnectWrites(h) \/ WebhookLoads(h) \/ WebhookFails(h)
    \/ \E s \in StoreStatuses : DecideStore(s)
    \/ \E plan \in {"starter", "pro"} : SetPlan(plan)
    \/ Disconnect \/ EditProduct \/ BuyStarts \/ BuyChecks \/ BuyOrders \/ BuyEnds

InMarket == store.status \in {"approved", "pending"}
OnOffer == product.exists /\ product.available /\ product.stock /\ InMarket

Meets == {m \in {"open", "offer"} : (m = "open" => InMarket) /\ (m = "offer" => OnOffer)}

ShopNext == /\ ShopStep
            /\ met' = IF buying'.pc = "no" THEN {} ELSE met \cup Meets

ShopSpec == ShopInit /\ [][ShopNext]_shopVars

-----------------------------------------------------------------------------
\* Type invariant of the store, its product and the requests on them.
ShopTypeOK ==
    /\ store.status \in StoreStatuses /\ store.plan \in {"starter", "pro"}
    /\ store.link \in {"connected", "disconnected", "error"} /\ store.secret \in BOOLEAN
    /\ product \in [exists : BOOLEAN, available : BOOLEAN, stock : BOOLEAN]
    /\ buying \in [pc : {"no", "checking", "checked", "ordered"}, product : BOOLEAN,
                   body : {"none", "this", "other"}, store : {"none", "this", "other"}]
    /\ shop \in 0..MaxShop

\* A store the operators have rejected, suspended or sent back is not in the
\* marketplace again before an operator says so, whatever edit or submission
\* the merchant had under way when they decided.
HiddenUntilDecided ==
    store.status \in PublicStatuses /\ decision # "none" => decision \in PublicStatuses

\* Whoever orders a product by its id has met it on sale, in stock and in a
\* public store at some moment of the purchase, whatever was edited or decided
\* meanwhile ("a bookmarked product URL or a stale wishlist entry" does not buy
\* from a suspended store).  Of the store the body names, and of orders that
\* name no product, it says nothing: see OrderedFromOpenStore.
OrderedWasOffered == buying.pc = "ordered" /\ buying.product => "offer" \in met

\* What is shown, and what is bought by its product id, is what the operators
\* and the merchant have offered.
OffersHold ==
    /\ ShopTypeOK
    /\ HiddenUntilDecided
    /\ OrderedWasOffered

\* "pre-approval; ... the public never does" (stores.service.ts:96-98).  Does not hold:
\* create leaves the status at its default, 'pending', which is in the public list.
PublicWasReviewed == store.status \in PublicStatuses => decision # "none"

\* "Disconnected" is what a store without integration shows (integrationStatus,
\* store-integrations.service.ts:66).  Does not hold: a webhook that read the
\* secret before the disconnect marks the link afterwards.
DisconnectedLooksIt == store.type = "none" => store.link = "disconnected"

\* "Other states (already submitted, approved, suspended) bounce"
\* (stores.service.ts:305).  Does not hold: the write is not conditional, and a
\* store approved in the meantime goes back to submitted.
SubmitBounces ==
    [][store.status \in {"approved", "suspended"} /\ store'.status = "submitted" => FALSE]_shopVars

\* "Without this, a buyer could complete an order against a suspended / rejected
\* store" (products.service.ts:510-511): whoever orders from this store has met
\* it public.  Does not hold: an order may name the store and no product, or the
\* store beside another store's product (here a product of this store).
OrderedFromOpenStore == buying.pc = "ordered" /\ buying.store = "this" => "open" \in met

-----------------------------------------------------------------------------
\* The inductive invariant: the rows in full, what a request carries from its
\* read to its write, and that a purchase past its check has met the offer.
OffersInv ==
    /\ OffersHold
    /\ store \in [status : StoreStatuses, plan : {"starter", "pro"}, type : {"none", "api"},
                  link : {"connected", "disconnected", "error"}, secret : BOOLEAN]
    /\ job \in [Handlers -> [pc : {"idle", "patch", "submit", "connect", "webhook"}, status : StoreStatuses]]
    /\ buying.pc \in {"checked", "ordered"} /\ buying.product => "offer" \in met
=============================================================================
