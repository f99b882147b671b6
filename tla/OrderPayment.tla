---------------------------- MODULE OrderPayment ----------------------------
(***************************************************************************)
(* A buyer's order from checkout to the ledger (orders.service.ts,         *)
(* payments.service.ts, order-ledger.ts, ledger-reconciliation.service.ts):*)
(* the order row is locked, the gateway charges, the gift is created, the  *)
(* order becomes paid in one transaction, and the ledger legs follow after *)
(* the commit, one at a time.                                              *)
(*                                                                         *)
(* A confirmation is a request that keeps its place between two awaits; a  *)
(* crash, or a database error that is thrown out of the handler, ends it   *)
(* there.  Prices and names are left out; a leg is its position in the     *)
(* list buildOrderLedgerEntries returns.                                   *)
(***************************************************************************)
EXTENDS Naturals, FiniteSets, FiniteSetsExt

CONSTANTS
    Orders,      \* checkouts of one buyer
    Requests,      \* confirmations and repairs that may be in flight at once
    NLegs,       \* ledger entries of a paid order: cash, fee, payable, delivery
    MaxCrashes   \* bound on the requests that are cut off

ASSUME OrderPaymentAssumption == NLegs \in Nat \ {0} /\ MaxCrashes \in Nat

VARIABLES
    order,      \* Order.status
    payment,    \* Payment.status of the order's row
    charged,    \* charges the gateway made for the order
    gifts,      \* gifts created for the order
    linked,     \* Order.giftId is set
    ledger,     \* the legs posted for the order
    ready,      \* the receiver exists, is not blocked, has a default address,
                \* and the product is in stock
    request,    \* each actor's request: where it is, for which order and leg
    crashes

orderVars == <<order, payment, charged, gifts, linked, ledger, ready, request, crashes>>

Legs == 1..NLegs
NoRequest == [pc |-> "idle", of |-> "none", leg |-> 0]
Stands(a, pc) == request[a].pc = pc
OrderOf(a) == request[a].of
MoveTo(a, pc) == request' = [request EXCEPT ![a].pc = pc]
Ends(a) == request' = [request EXCEPT ![a] = NoRequest]

OrderInit ==
    /\ order = [o \in Orders |-> "none"]
    /\ payment = [o \in Orders |-> "none"]
    /\ charged = [o \in Orders |-> 0]
    /\ gifts = [o \in Orders |-> 0]
    /\ linked = [o \in Orders |-> FALSE]
    /\ ledger = [o \in Orders |-> {}]
    /\ ready = TRUE
    /\ request = [a \in Requests |-> NoRequest]
    /\ crashes = 0

\* The receiver removes an address, the buyer is blocked, the product sells
\* out: what checkout has found may no longer hold at the payment.
ReadinessChanges ==
    /\ ready' = ~ready
    /\ UNCHANGED <<order, payment, charged, gifts, linked, ledger, request, crashes>>

\* The guards of OrdersService.create refuse before anyone is charged.
Orderable == ready

CreateOrder(o) ==
    /\ order[o] = "none" /\ Orderable
    /\ order' = [order EXCEPT ![o] = "pending"]
    /\ UNCHANGED <<payment, charged, gifts, linked, ledger, ready, request, crashes>>

\* confirmMock loads the order; a paid one with its gift takes the fast path,
\* which only re-ensures the ledger.
ConfirmLoad(a, o) ==
    /\ Stands(a, "idle") /\ order[o] # "none"
    /\ request' = [request EXCEPT ![a] =
          [pc |-> IF order[o] = "paid" /\ linked[o] THEN "ensure" ELSE "lock",
           of |-> o, leg |-> 0]]
    /\ UNCHANGED <<order, payment, charged, gifts, linked, ledger, ready, crashes>>

LockableAlways(o) == order[o] # "none"

\* The first writer wins: only a pending order can be locked.
Lockable(o) == order[o] = "pending"

LockOrder(a) ==
    /\ Stands(a, "lock")
    /\ IF Lockable(OrderOf(a))
       THEN /\ order' = [order EXCEPT ![OrderOf(a)] = "processing"]
            /\ MoveTo(a, "gateway")
       ELSE /\ order' = order
            /\ IF order[OrderOf(a)] = "paid" /\ linked[OrderOf(a)] THEN MoveTo(a, "ensure") ELSE Ends(a)
    /\ UNCHANGED <<payment, charged, gifts, linked, ledger, ready, crashes>>

\* The gateway charges, or declines and the attempt is recorded as failed.
ChargeOrder(a) ==
    /\ Stands(a, "gateway")
    /\ \/ charged' = [charged EXCEPT ![OrderOf(a)] = @ + 1] /\ MoveTo(a, "gift")
       \/ charged' = charged /\ MoveTo(a, "fail")
    /\ UNCHANGED <<order, payment, gifts, linked, ledger, ready, crashes>>

\* GiftsService.create runs its own guards again, without an idempotency key.
MakeGift(a) ==
    /\ Stands(a, "gift")
    /\ IF ready
       THEN gifts' = [gifts EXCEPT ![OrderOf(a)] = @ + 1] /\ MoveTo(a, "settle")
       ELSE gifts' = gifts /\ MoveTo(a, "fail")
    /\ UNCHANGED <<order, payment, charged, linked, ledger, ready, crashes>>

\* recordFailedPayment, in one transaction.
RecordFailedPayment(a) ==
    /\ Stands(a, "fail")
    /\ payment' = [payment EXCEPT ![OrderOf(a)] = "failed"]
    /\ order' = [order EXCEPT ![OrderOf(a)] = "failed"]
    /\ Ends(a)
    /\ UNCHANGED <<charged, gifts, linked, ledger, ready, crashes>>

\* The payment row, the status and the link, in one transaction.
SettleOrder(a) ==
    /\ Stands(a, "settle")
    /\ payment' = [payment EXCEPT ![OrderOf(a)] = "paid"]
    /\ order' = [order EXCEPT ![OrderOf(a)] = "paid"]
    /\ linked' = [linked EXCEPT ![OrderOf(a)] = TRUE]
    /\ MoveTo(a, "ensure")
    /\ UNCHANGED <<charged, gifts, ledger, ready, crashes>>

\* ensureLedgerForPaidOrder posts nothing when any entry exists.
EnsureLedger(a) ==
    /\ Stands(a, "ensure")
    /\ IF ledger[OrderOf(a)] # {} THEN Ends(a)
       ELSE request' = [request EXCEPT ![a].pc = "post", ![a].leg = 1]
    /\ UNCHANGED <<order, payment, charged, gifts, linked, ledger, ready, crashes>>

\* record: a leg that exists, by its key or by the order and reason, is kept.
PostLeg(a) ==
    /\ Stands(a, "post")
    /\ ledger' = [ledger EXCEPT ![OrderOf(a)] = @ \cup {request[a].leg}]
    /\ IF request[a].leg = NLegs THEN Ends(a)
       ELSE request' = [request EXCEPT ![a].leg = @ + 1]
    /\ UNCHANGED <<order, payment, charged, gifts, linked, ready, crashes>>

\* missingOrderPostings looks for the head of the legs only.
MissingLegs(o) == order[o] = "paid" /\ 1 \notin ledger[o]

RepairableAlways(o) == order[o] # "none"

\* repairOrder works on paid orders only.
Repairable(o) == order[o] = "paid"

\* repairAll visits what is reported missing; an operator may also name an
\* order.  Each leg has its own key, so only the missing ones are created.
Repair(a, o) ==
    /\ Stands(a, "idle") /\ Repairable(o)
    /\ request' = [request EXCEPT ![a] = [pc |-> "post", of |-> o, leg |-> 1]]
    /\ UNCHANGED <<order, payment, charged, gifts, linked, ledger, ready, crashes>>

CutOff(a) ==
    /\ ~Stands(a, "idle") /\ crashes < MaxCrashes
    /\ crashes' = crashes + 1
    /\ Ends(a)
    /\ UNCHANGED <<order, payment, charged, gifts, linked, ledger, ready>>

OrderNext ==
    \/ ReadinessChanges
    \/ \E o \in Orders : CreateOrder(o)
    \/ \E a \in Requests, o \in Orders : ConfirmLoad(a, o) \/ Repair(a, o)
    \/ \E a \in Requests : \/ LockOrder(a) \/ ChargeOrder(a) \/ MakeGift(a) \/ RecordFailedPayment(a)
                         \/ SettleOrder(a) \/ EnsureLedger(a) \/ PostLeg(a) \/ CutOff(a)

OrderSpec == OrderInit /\ [][OrderNext]_orderVars

-----------------------------------------------------------------------------
\* Type invariant of the order tables and the requests.
OrderTypeOK ==
    /\ order \in [Orders -> {"none", "pending", "processing", "paid", "failed"}]
    /\ payment \in [Orders -> {"none", "paid", "failed"}]
    /\ charged \in [Orders -> Nat] /\ gifts \in [Orders -> Nat]
    /\ linked \in [Orders -> BOOLEAN]
    /\ ledger \in [Orders -> SUBSET Legs]
    /\ ready \in BOOLEAN /\ crashes \in 0..MaxCrashes
    /\ request \in [Requests -> [pc : {"idle", "lock", "gateway", "gift", "fail", "settle",
                                     "ensure", "post"},
                               of : Orders \cup {"none"}, leg : 0..NLegs]]

\* However often the buyer confirms and wherever a confirmation is cut off, an
\* order is charged at most once, gets at most one gift, and no gift without a
\* charge.
ChargedOnce == \A o \in Orders : gifts[o] <= charged[o] /\ charged[o] <= 1

\* What an order's final status says of its money: paid means charged, with its
\* gift linked and its payment recorded; a failed order has no gift on its way;
\* and the ledger knows paid orders only.
StatusTellsTheMoney ==
    \A o \in Orders :
        /\ order[o] = "paid" => charged[o] = 1 /\ gifts[o] = 1 /\ linked[o] /\ payment[o] = "paid"
        /\ order[o] = "failed" => gifts[o] = 0 /\ payment[o] = "failed"
        /\ ledger[o] # {} => order[o] = "paid"

\* The order, its gift and its ledger entries agree with the gateway, wherever
\* a confirmation is cut off.
OrderAndMoneyAgree ==
    /\ OrderTypeOK
    /\ ChargedOnce
    /\ StatusTellsTheMoney

\* "Sweep: find every missing posting and repair it" (repairAll): when nothing
\* is in flight for a paid order, either its legs are complete or the sweep
\* reports it.  Not so: a posting cut off behind the first leg is complete to
\* the fast path and to the sweep (README, section 6).
NothingHiddenFromTheSweep ==
    \A o \in Orders : (order[o] = "paid" /\ \A a \in Requests : OrderOf(a) # o)
                          => ledger[o] = Legs \/ MissingLegs(o)

-----------------------------------------------------------------------------
(***************************************************************************)
(* The invariant behind OrderAndMoneyAgree: where a confirmation stands    *)
(* tells what has happened to its order, because the lock lets only one    *)
(* confirmation of an order pass.                                          *)
(***************************************************************************)
BehindTheLock == {"gateway", "gift", "fail", "settle"}

\* At most one confirmation of an order is behind the lock, ever.
OneBehindTheLock == \A a, b \in Requests :
    /\ request[a].pc \in BehindTheLock /\ request[b].pc \in BehindTheLock
    /\ OrderOf(a) = OrderOf(b)
    => a = b

\* Where a request stands, its order stands too.
RequestsTellTheOrder == \A a \in Requests :
    /\ ~Stands(a, "idle") => OrderOf(a) \in Orders
    /\ request[a].pc \in BehindTheLock => order[OrderOf(a)] = "processing"
    /\ Stands(a, "gateway") => charged[OrderOf(a)] = 0
    /\ Stands(a, "gift") => charged[OrderOf(a)] = 1 /\ gifts[OrderOf(a)] = 0
    /\ Stands(a, "fail") => gifts[OrderOf(a)] = 0
    /\ Stands(a, "settle") => charged[OrderOf(a)] = 1 /\ gifts[OrderOf(a)] = 1
    /\ request[a].pc \in {"ensure", "post"} => order[OrderOf(a)] = "paid"
    /\ Stands(a, "post") => request[a].leg \in Legs

\* Nothing happens to an order before the lock.
UnlockedIsUncharged == \A o \in Orders :
    order[o] \in {"none", "pending"} => charged[o] = 0

OrderInv ==
    /\ OrderAndMoneyAgree
    /\ OneBehindTheLock
    /\ RequestsTellTheOrder
    /\ UnlockedIsUncharged
=============================================================================
