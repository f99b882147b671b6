----------------------------- MODULE GiftProofs -----------------------------
(***************************************************************************)
(* Proofs about the consumer side: the money of orders, the address book   *)
(* and the gifts, the counters and posts of the wall and its entries, and  *)
(* notifications, for any number of rows, people and requests in flight.   *)
(***************************************************************************)
EXTENDS OrderPayment, GiftFulfilment, GiftWall, WallFeed, Notifications, SumTheorems,
        SequenceTheorems

-----------------------------------------------------------------------------
(***************************************************************************)
(* Orders and their money.                                                 *)
(***************************************************************************)
OrderStates == {"none", "pending", "processing", "paid", "failed"}
Places == {"idle", "lock", "gateway", "gift", "fail", "settle", "ensure", "post"}
RequestRows == [pc : Places, of : Orders \cup {"none"}, leg : 0..NLegs]

\* Before the first checkout nothing is charged and nobody waits.
LEMMA OrderInitInv == OrderInit => OrderInv
<1> SUFFICES ASSUME OrderInit PROVE OrderInv
  OBVIOUS
<1> USE OrderPaymentAssumption DEF OrderInit, NoRequest
<1>1. OrderTypeOK
  BY DEF OrderTypeOK
<1>2. ChargedOnce /\ StatusTellsTheMoney
  BY DEF ChargedOnce, StatusTellsTheMoney
<1>3. OneBehindTheLock /\ RequestsTellTheOrder /\ UnlockedIsUncharged
  BY DEF OneBehindTheLock, RequestsTellTheOrder, UnlockedIsUncharged, BehindTheLock, Stands, OrderOf
<1> QED
  BY <1>1, <1>2, <1>3 DEF OrderInv, OrderAndMoneyAgree

\* What the steps of a request use of its row.
LEMMA RequestTyped ==
    ASSUME OrderInv, NEW a \in Requests
    PROVE  /\ request \in [Requests -> RequestRows]
           /\ request[a] \in RequestRows
           /\ ~Stands(a, "idle") => OrderOf(a) \in Orders
  BY DEF OrderInv, OrderAndMoneyAgree, OrderTypeOK, RequestRows, Places, RequestsTellTheOrder

Moved(a, l) == [request[a] EXCEPT !.pc = l]

\* Moving a request writes its place and keeps its order and its leg.
LEMMA MovesTyped ==
    ASSUME OrderInv, NEW a \in Requests, NEW l \in Places
    PROVE  /\ Moved(a, l) \in RequestRows
           /\ Moved(a, l).pc = l /\ Moved(a, l).of = OrderOf(a)
           /\ Moved(a, l).leg = request[a].leg
           /\ [request EXCEPT ![a].pc = l] = [request EXCEPT ![a] = Moved(a, l)]
<1>1. request[a] \in RequestRows /\ request \in [Requests -> RequestRows]
  BY RequestTyped
<1>2. /\ Moved(a, l) \in RequestRows /\ Moved(a, l).pc = l /\ Moved(a, l).of = OrderOf(a)
      /\ Moved(a, l).leg = request[a].leg
  BY <1>1 DEF RequestRows, OrderOf, Moved
<1>3. [request EXCEPT ![a].pc = l] = [request EXCEPT ![a] = Moved(a, l)]
  BY <1>1 DEF Moved
<1> QED
  BY <1>2, <1>3

\* A request that has ended is a row of its own.
LEMMA EndedTyped == NoRequest \in RequestRows /\ NoRequest.pc = "idle"
  BY OrderPaymentAssumption DEF NoRequest, RequestRows, Places

\* A step that leaves every order as it is and moves one request to a place its
\* order allows, or ends it.
LEMMA RequestStepKeepsInv ==
    ASSUME OrderInv, NEW a \in Requests, NEW new \in RequestRows,
           request' = [request EXCEPT ![a] = new],
           UNCHANGED <<order, payment, charged, gifts, linked, ledger>>,
           ready' \in BOOLEAN, crashes' \in 0..MaxCrashes,
           new.pc \notin BehindTheLock,
           new.pc # "idle" => new.of \in Orders,
           new.pc \in {"ensure", "post"} => order[new.of] = "paid",
           new.pc = "post" => new.leg \in Legs
    PROVE  OrderInv'
<1> USE DEF OrderInv, OrderAndMoneyAgree
<1>1. /\ request' \in [Requests -> RequestRows]
      /\ request'[a] = new
      /\ \A c \in Requests : c # a => request'[c] = request[c]
  BY RequestTyped
<1>2. OrderTypeOK'
  BY <1>1 DEF OrderTypeOK, RequestRows, Places
<1>3. ChargedOnce' /\ StatusTellsTheMoney' /\ UnlockedIsUncharged'
  BY DEF ChargedOnce, StatusTellsTheMoney, UnlockedIsUncharged
<1>4. OneBehindTheLock'
  BY <1>1 DEF OneBehindTheLock, OrderOf
<1>5. RequestsTellTheOrder'
  <2> SUFFICES ASSUME NEW c \in Requests
               PROVE  /\ ~Stands(c, "idle")' => OrderOf(c)' \in Orders
                      /\ request'[c].pc \in BehindTheLock => order[OrderOf(c)'] = "processing"
                      /\ Stands(c, "gateway")' => charged[OrderOf(c)'] = 0
                      /\ Stands(c, "gift")' => charged[OrderOf(c)'] = 1 /\ gifts[OrderOf(c)'] = 0
                      /\ Stands(c, "fail")' => gifts[OrderOf(c)'] = 0
                      /\ Stands(c, "settle")' => charged[OrderOf(c)'] = 1 /\ gifts[OrderOf(c)'] = 1
                      /\ request'[c].pc \in {"ensure", "post"} => order[OrderOf(c)'] = "paid"
                      /\ Stands(c, "post")' => request'[c].leg \in Legs
    BY DEF RequestsTellTheOrder
  <2>1. CASE c = a
    BY <1>1, <2>1 DEF Stands, OrderOf, BehindTheLock
  <2>2. CASE c # a
    BY <1>1, <2>2 DEF RequestsTellTheOrder, Stands, OrderOf
  <2> QED
    BY <2>1, <2>2
<1> QED
  BY <1>2, <1>3, <1>4, <1>5

\* What a request's new place says of its order, in the next state.
PlaceFits(new) ==
    /\ new.pc # "idle" => new.of \in Orders
    /\ new.pc \in BehindTheLock => order'[new.of] = "processing"
    /\ new.pc = "gateway" => charged'[new.of] = 0
    /\ new.pc = "gift" => charged'[new.of] = 1 /\ gifts'[new.of] = 0
    /\ new.pc = "fail" => gifts'[new.of] = 0
    /\ new.pc = "settle" => charged'[new.of] = 1 /\ gifts'[new.of] = 1
    /\ new.pc \in {"ensure", "post"} => order'[new.of] = "paid"
    /\ new.pc = "post" => new.leg \in Legs

\* What the tables may say of one order, in the next state.
RowFits(o) ==
    /\ gifts'[o] <= charged'[o] /\ charged'[o] <= 1
    /\ order'[o] = "paid" => charged'[o] = 1 /\ gifts'[o] = 1 /\ linked'[o] /\ payment'[o] = "paid"
    /\ order'[o] = "failed" => gifts'[o] = 0 /\ payment'[o] = "failed"
    /\ ledger'[o] # {} => order'[o] = "paid"
    /\ order'[o] \in {"none", "pending"} => charged'[o] = 0

\* A step of the one request that is behind the lock of an order, or that is
\* about to pass it: no other request depends on the order's row.
LEMMA OwnerStepKeepsInv ==
    ASSUME OrderInv, NEW a \in Requests, NEW new \in RequestRows,
           request' = [request EXCEPT ![a] = new],
           NEW o \in Orders,
           order[o] \in {"pending", "processing"},
           \A c \in Requests : c # a /\ OrderOf(c) = o => request[c].pc \notin BehindTheLock,
           order' \in [Orders -> OrderStates], payment' \in [Orders -> {"none", "paid", "failed"}],
           charged' \in [Orders -> Nat], gifts' \in [Orders -> Nat],
           linked' \in [Orders -> BOOLEAN],
           \A p \in Orders : p # o => /\ order'[p] = order[p] /\ payment'[p] = payment[p]
                                      /\ charged'[p] = charged[p] /\ gifts'[p] = gifts[p]
                                      /\ linked'[p] = linked[p],
           UNCHANGED <<ledger, ready, crashes>>,
           new.pc # "idle" => new.of = o,
           PlaceFits(new), RowFits(o)
    PROVE  OrderInv'
<1> USE DEF OrderInv, OrderAndMoneyAgree
<1>1. /\ request' \in [Requests -> RequestRows]
      /\ request'[a] = new
      /\ \A c \in Requests : c # a => request'[c] = request[c]
  BY RequestTyped
<1>2. OrderTypeOK'
  BY <1>1 DEF OrderTypeOK, RequestRows, Places, OrderStates
<1>3. ChargedOnce' /\ StatusTellsTheMoney' /\ UnlockedIsUncharged'
  BY DEF ChargedOnce, StatusTellsTheMoney, UnlockedIsUncharged, RowFits
<1>4. OneBehindTheLock'
  <2> SUFFICES ASSUME NEW c \in Requests, NEW d \in Requests,
                      request'[c].pc \in BehindTheLock, request'[d].pc \in BehindTheLock,
                      request'[c].of = request'[d].of
               PROVE  c = d
    BY DEF OneBehindTheLock, OrderOf
  <2>1. CASE c # a /\ d # a
    BY <1>1, <2>1 DEF OneBehindTheLock, OrderOf
  <2>2. CASE c = a \/ d = a
    BY <1>1, <2>2 DEF OrderOf, BehindTheLock
  <2> QED
    BY <2>1, <2>2
<1>5. RequestsTellTheOrder'
  <2> SUFFICES ASSUME NEW c \in Requests PROVE PlaceFits(request'[c])
    BY DEF RequestsTellTheOrder, PlaceFits, Stands, OrderOf
  <2>1. CASE c = a
    BY <1>1, <2>1
  <2>2. CASE c # a /\ OrderOf(c) = o
    BY <1>1, <2>2 DEF RequestsTellTheOrder, PlaceFits, Stands, OrderOf, BehindTheLock
  <2>3. CASE c # a /\ OrderOf(c) # o
    BY <1>1, <2>3 DEF RequestsTellTheOrder, PlaceFits, Stands, OrderOf, BehindTheLock
  <2> QED
    BY <2>1, <2>2, <2>3
<1> QED
  BY <1>2, <1>3, <1>4, <1>5

\* The lock: the winner goes on to the gateway, everyone else takes the fast
\* path or is refused.
LEMMA LockKeepsInv ==
    ASSUME OrderInv, NEW a \in Requests, LockOrder(a)
    PROVE  OrderInv'
<1> DEFINE o == OrderOf(a)
<1> USE DEF OrderInv, OrderAndMoneyAgree
<1>1. o \in Orders
  BY RequestTyped DEF LockOrder, Stands
<1>2. CASE ~Lockable(o)
  <2>1. /\ UNCHANGED <<order, payment, charged, gifts, linked, ledger, ready, crashes>>
        /\ \/ order[o] = "paid" /\ request' = [request EXCEPT ![a].pc = "ensure"]
           \/ request' = [request EXCEPT ![a] = NoRequest]
    BY <1>2 DEF LockOrder, MoveTo, Ends
  <2>2. ready' \in BOOLEAN /\ crashes' \in 0..MaxCrashes
    BY <2>1 DEF OrderTypeOK
  <2>3. CASE order[o] = "paid" /\ request' = [request EXCEPT ![a].pc = "ensure"]
    <3> DEFINE new == Moved(a, "ensure")
    <3>1. /\ new \in RequestRows /\ new.pc = "ensure" /\ new.of = o
          /\ request' = [request EXCEPT ![a] = new]
      BY <2>3, MovesTyped DEF Places
    <3> QED
      BY <1>1, <2>1, <2>2, <2>3, <3>1, RequestStepKeepsInv, ZenonT(40) DEF BehindTheLock
  <2>4. CASE request' = [request EXCEPT ![a] = NoRequest]
    BY <2>1, <2>2, <2>4, EndedTyped, RequestStepKeepsInv DEF BehindTheLock
  <2> QED
    BY <2>1, <2>3, <2>4
<1>3. CASE Lockable(o)
  <2>1. /\ order' = [order EXCEPT ![o] = "processing"]
        /\ request' = [request EXCEPT ![a].pc = "gateway"]
        /\ UNCHANGED <<payment, charged, gifts, linked, ledger, ready, crashes>>
        /\ order[o] = "pending"
    BY <1>3 DEF LockOrder, MoveTo, Lockable
  <2> DEFINE new == Moved(a, "gateway")
  <2>2. /\ new \in RequestRows /\ new.pc = "gateway" /\ new.of = o
        /\ request' = [request EXCEPT ![a] = new]
    BY <2>1, MovesTyped DEF Places
  <2>3. /\ order' \in [Orders -> OrderStates] /\ order'[o] = "processing"
        /\ \A p \in Orders : p # o => order'[p] = order[p]
    BY <1>1, <2>1 DEF OrderTypeOK, OrderStates
  <2>4. charged'[o] = 0 /\ gifts'[o] = 0 /\ ledger'[o] = {}
    BY <1>1, <2>1 DEF UnlockedIsUncharged, ChargedOnce, StatusTellsTheMoney, OrderTypeOK
  <2>5. \A c \in Requests : c # a /\ OrderOf(c) = o => request[c].pc \notin BehindTheLock
    BY <2>1 DEF RequestsTellTheOrder
  <2>6. PlaceFits(new) /\ RowFits(o)
    BY <1>1, <2>2, <2>3, <2>4 DEF PlaceFits, RowFits, BehindTheLock
  <2>7. /\ payment' = payment /\ payment' \in [Orders -> {"none", "paid", "failed"}]
        /\ charged' = charged /\ charged' \in [Orders -> Nat]
        /\ gifts' = gifts /\ gifts' \in [Orders -> Nat]
        /\ linked' = linked /\ linked' \in [Orders -> BOOLEAN]
        /\ UNCHANGED <<ledger, ready, crashes>>
    BY <2>1 DEF OrderTypeOK
  <2>8. order[o] \in {"pending", "processing"}
    BY <2>1
  <2> QED
    BY <1>1, <2>2, <2>3, <2>5, <2>6, <2>7, <2>8, OwnerStepKeepsInv, ZenonT(40)
<1> QED
  BY <1>2, <1>3

\* The request behind the lock is alone with its order, which is not in the
\* ledger yet.
LEMMA OwnerFacts ==
    ASSUME OrderInv, NEW a \in Requests, request[a].pc \in BehindTheLock
    PROVE  /\ OrderOf(a) \in Orders
           /\ order[OrderOf(a)] = "processing"
           /\ ledger[OrderOf(a)] = {}
           /\ gifts[OrderOf(a)] <= charged[OrderOf(a)] /\ charged[OrderOf(a)] <= 1
           /\ \A c \in Requests : c # a /\ OrderOf(c) = OrderOf(a)
                                     => request[c].pc \notin BehindTheLock
<1> USE DEF OrderInv, OrderAndMoneyAgree
<1>1. OrderOf(a) \in Orders /\ order[OrderOf(a)] = "processing"
  BY DEF RequestsTellTheOrder, BehindTheLock, Stands
<1>2. ledger[OrderOf(a)] = {} /\ gifts[OrderOf(a)] <= charged[OrderOf(a)] /\ charged[OrderOf(a)] <= 1
  BY <1>1 DEF StatusTellsTheMoney, ChargedOnce
<1>3. \A c \in Requests : c # a /\ OrderOf(c) = OrderOf(a) => request[c].pc \notin BehindTheLock
  BY DEF OneBehindTheLock
<1> QED
  BY <1>1, <1>2, <1>3

\* The gateway and the gift: the owner's order is charged or given its gift.
LEMMA ChargeAndGiftKeepInv ==
    ASSUME OrderInv, NEW a \in Requests, ChargeOrder(a) \/ MakeGift(a)
    PROVE  OrderInv'
<1> DEFINE o == OrderOf(a)
<1> USE DEF OrderInv, OrderAndMoneyAgree
<1>1. request[a].pc \in BehindTheLock
  BY DEF ChargeOrder, MakeGift, Stands, BehindTheLock
<1>2. /\ o \in Orders /\ order[o] = "processing" /\ ledger[o] = {}
      /\ gifts[o] <= charged[o] /\ charged[o] <= 1
      /\ \A c \in Requests : c # a /\ OrderOf(c) = o => request[c].pc \notin BehindTheLock
  BY <1>1, OwnerFacts
<1>3. /\ charged[o] \in Nat /\ gifts[o] \in Nat
      /\ request[a].pc = "gateway" => charged[o] = 0 /\ gifts[o] = 0
      /\ request[a].pc = "gift" => charged[o] = 1 /\ gifts[o] = 0
  BY <1>2 DEF OrderTypeOK, RequestsTellTheOrder, Stands
<1>4. PICK l \in Places :
         /\ request' = [request EXCEPT ![a].pc = l]
         /\ UNCHANGED <<order, payment, linked, ledger, ready, crashes>>
         /\ \/ /\ request[a].pc = "gateway" /\ l = "gift"
               /\ charged' = [charged EXCEPT ![o] = @ + 1] /\ gifts' = gifts
            \/ /\ request[a].pc = "gift" /\ l = "settle"
               /\ gifts' = [gifts EXCEPT ![o] = @ + 1] /\ charged' = charged
            \/ /\ request[a].pc \in {"gateway", "gift"} /\ l = "fail"
               /\ charged' = charged /\ gifts' = gifts
  BY DEF ChargeOrder, MakeGift, MoveTo, Places, Stands
<1> DEFINE new == Moved(a, l)
<1>5. /\ new \in RequestRows /\ new.pc = l /\ new.of = o
      /\ request' = [request EXCEPT ![a] = new]
  BY <1>4, MovesTyped
<1>6. /\ charged' \in [Orders -> Nat] /\ gifts' \in [Orders -> Nat]
      /\ \A p \in Orders : p # o => charged'[p] = charged[p] /\ gifts'[p] = gifts[p]
  <2>1. charged \in [Orders -> Nat] /\ gifts \in [Orders -> Nat]
    BY DEF OrderTypeOK
  <2>2. charged' = charged \/ charged' = [charged EXCEPT ![o] = @ + 1]
    BY <1>4
  <2>3. gifts' = gifts \/ gifts' = [gifts EXCEPT ![o] = @ + 1]
    BY <1>4
  <2>4. charged' \in [Orders -> Nat] /\ \A p \in Orders : p # o => charged'[p] = charged[p]
    BY <1>2, <2>1, <2>2
  <2>5. gifts' \in [Orders -> Nat] /\ \A p \in Orders : p # o => gifts'[p] = gifts[p]
    BY <1>2, <2>1, <2>3
  <2> QED
    BY <2>4, <2>5
<1>7. /\ l = "gift" => charged'[o] = 1 /\ gifts'[o] = 0
      /\ l = "settle" => charged'[o] = 1 /\ gifts'[o] = 1
      /\ l = "fail" => gifts'[o] = 0 /\ charged'[o] \in {0, 1}
      /\ l \in {"gift", "settle", "fail"}
  BY <1>2, <1>3, <1>4 DEF OrderTypeOK
<1>8. order'[o] = "processing" /\ ledger'[o] = {}
  BY <1>2, <1>4
<1>9. PlaceFits(new) /\ RowFits(o)
  BY <1>2, <1>5, <1>7, <1>8 DEF PlaceFits, RowFits
<1>10. /\ order' = order /\ order' \in [Orders -> OrderStates]
       /\ payment' = payment /\ payment' \in [Orders -> {"none", "paid", "failed"}]
       /\ linked' = linked /\ linked' \in [Orders -> BOOLEAN]
       /\ UNCHANGED <<ledger, ready, crashes>>
  BY <1>4 DEF OrderTypeOK, OrderStates
<1>11. order[o] \in {"pending", "processing"} /\ (new.pc # "idle" => new.of = o)
  BY <1>2, <1>5
<1> HIDE DEF new, o, OrderInv, OrderAndMoneyAgree
<1> QED
  BY <1>2, <1>5, <1>6, <1>9, <1>10, <1>11, OwnerStepKeepsInv

\* The two transactions that end the owner's work: failed, or paid and linked.
LEMMA OutcomeKeepsInv ==
    ASSUME OrderInv, NEW a \in Requests, RecordFailedPayment(a) \/ SettleOrder(a)
    PROVE  OrderInv'
<1> DEFINE o == OrderOf(a)
<1> USE DEF OrderInv, OrderAndMoneyAgree
<1>1. request[a].pc \in BehindTheLock
  BY DEF RecordFailedPayment, SettleOrder, Stands, BehindTheLock
<1>2. /\ o \in Orders /\ order[o] = "processing" /\ ledger[o] = {}
      /\ gifts[o] <= charged[o] /\ charged[o] <= 1
      /\ \A c \in Requests : c # a /\ OrderOf(c) = o => request[c].pc \notin BehindTheLock
  BY <1>1, OwnerFacts
<1>3. /\ request[a].pc = "fail" => gifts[o] = 0
      /\ request[a].pc = "settle" => charged[o] = 1 /\ gifts[o] = 1
  BY DEF RequestsTellTheOrder, Stands
<1>4. PICK r \in {"failed", "paid"} :
         /\ order' = [order EXCEPT ![o] = r] /\ payment' = [payment EXCEPT ![o] = r]
         /\ UNCHANGED <<charged, gifts, ledger, ready, crashes>>
         /\ \/ /\ r = "failed" /\ request[a].pc = "fail" /\ linked' = linked
               /\ request' = [request EXCEPT ![a] = NoRequest]
            \/ /\ r = "paid" /\ request[a].pc = "settle"
               /\ linked' = [linked EXCEPT ![o] = TRUE]
               /\ request' = [request EXCEPT ![a].pc = "ensure"]
  BY DEF RecordFailedPayment, SettleOrder, MoveTo, Ends, Stands
<1>5. /\ order' \in [Orders -> OrderStates] /\ payment' \in [Orders -> {"none", "paid", "failed"}]
      /\ linked' \in [Orders -> BOOLEAN]
      /\ order'[o] = r /\ payment'[o] = r /\ (r = "paid" => linked'[o])
      /\ \A p \in Orders : p # o => /\ order'[p] = order[p] /\ payment'[p] = payment[p]
                                    /\ linked'[p] = linked[p]
  BY <1>2, <1>4 DEF OrderTypeOK, OrderStates
<1> DEFINE new == IF r = "failed" THEN NoRequest ELSE Moved(a, "ensure")
<1>6. /\ new \in RequestRows
      /\ request' = [request EXCEPT ![a] = new]
      /\ \/ r = "failed" /\ new.pc = "idle"
         \/ r = "paid" /\ new.pc = "ensure" /\ new.of = o
  <2>1. CASE r = "failed"
    BY <1>4, <2>1, EndedTyped
  <2>2. CASE r = "paid"
    <3>1. request' = [request EXCEPT ![a].pc = "ensure"] /\ new = Moved(a, "ensure")
      BY <1>4, <2>2
    <3> HIDE DEF new
    <3> QED
      BY <2>2, <3>1, MovesTyped DEF Places
  <2> QED
    BY <2>1, <2>2
<1>7. /\ charged' = charged /\ charged' \in [Orders -> Nat]
      /\ gifts' = gifts /\ gifts' \in [Orders -> Nat]
      /\ UNCHANGED <<ledger, ready, crashes>>
  BY <1>4 DEF OrderTypeOK
<1>8. PlaceFits(new) /\ RowFits(o)
  BY <1>2, <1>3, <1>4, <1>5, <1>6, <1>7 DEF PlaceFits, RowFits, BehindTheLock
<1>9. order[o] \in {"pending", "processing"} /\ (new.pc # "idle" => new.of = o)
  BY <1>2, <1>6
<1>10. request' = [request EXCEPT ![a] = new] /\ new \in RequestRows
  BY <1>6
<1> HIDE DEF OrderInv, o, new
<1> QED
  BY <1>2, <1>5, <1>7, <1>8, <1>9, <1>10, OwnerStepKeepsInv, ZenonT(40)

\* The reads of a confirmation and of a repair, and the look at the ledger.
LEMMA ReadsKeepInv ==
    ASSUME OrderInv, NEW a \in Requests,
           \/ \E o \in Orders : ConfirmLoad(a, o) \/ Repair(a, o)
           \/ EnsureLedger(a)
           \/ CutOff(a)
    PROVE  OrderInv'
<1> USE DEF OrderInv, OrderAndMoneyAgree
<1>1. /\ UNCHANGED <<order, payment, charged, gifts, linked, ledger>>
      /\ ready' \in BOOLEAN /\ crashes' \in 0..MaxCrashes
  BY OrderPaymentAssumption DEF ConfirmLoad, Repair, EnsureLedger, CutOff, OrderTypeOK
<1>2. 1 \in Legs /\ 0 \in 0..NLegs /\ 1 \in 0..NLegs
  BY OrderPaymentAssumption DEF Legs
<1>3. ASSUME NEW o \in Orders, ConfirmLoad(a, o) PROVE OrderInv'
  <2> DEFINE new == [pc |-> IF order[o] = "paid" /\ linked[o] THEN "ensure" ELSE "lock",
                     of |-> o, leg |-> 0]
  <2>1. /\ new \in RequestRows /\ new.pc \in {"ensure", "lock"} /\ new.of = o
        /\ new.pc = "ensure" => order[o] = "paid"
    BY <1>2 DEF RequestRows, Places
  <2>2. request' = [request EXCEPT ![a] = new]
    BY <1>3 DEF ConfirmLoad
  <2> HIDE DEF new
  <2> QED
    BY <1>1, <2>1, <2>2, RequestStepKeepsInv DEF BehindTheLock
<1>4. ASSUME NEW o \in Orders, Repair(a, o) PROVE OrderInv'
  <2> DEFINE new == [pc |-> "post", of |-> o, leg |-> 1]
  <2>1. new \in RequestRows /\ new.pc = "post" /\ new.of = o /\ new.leg = 1
    BY <1>2 DEF RequestRows, Places
  <2>2. request' = [request EXCEPT ![a] = new] /\ order[o] = "paid"
    BY <1>4 DEF Repair, Repairable
  <2> HIDE DEF new
  <2> QED
    BY <1>1, <1>2, <2>1, <2>2, RequestStepKeepsInv DEF BehindTheLock
<1>5. CASE request' = [request EXCEPT ![a] = NoRequest]
  BY <1>1, <1>5, EndedTyped, RequestStepKeepsInv DEF BehindTheLock
<1>6. CASE EnsureLedger(a) /\ ledger[OrderOf(a)] = {}
  <2> DEFINE new == [request[a] EXCEPT !.pc = "post", !.leg = 1]
  <2>1. /\ request[a] \in RequestRows /\ request \in [Requests -> RequestRows]
        /\ OrderOf(a) \in Orders /\ order[OrderOf(a)] = "paid"
    BY <1>6, RequestTyped DEF EnsureLedger, Stands, RequestsTellTheOrder
  <2>2. new \in RequestRows /\ new.pc = "post" /\ new.of = OrderOf(a) /\ new.leg = 1
    BY <1>2, <2>1 DEF RequestRows, Places, OrderOf
  <2>3. request' = [request EXCEPT ![a].pc = "post", ![a].leg = 1]
    BY <1>6 DEF EnsureLedger
  <2>4. request' = [request EXCEPT ![a] = new]
    BY <2>1, <2>3
  <2> HIDE DEF new
  <2> QED
    BY <1>1, <1>2, <2>1, <2>2, <2>4, RequestStepKeepsInv DEF BehindTheLock
<1> QED
  BY <1>3, <1>4, <1>5, <1>6 DEF EnsureLedger, CutOff, Ends

\* Posting a leg: the order is paid, and the ledger gains one of its legs.
LEMMA PostKeepsInv ==
    ASSUME OrderInv, NEW a \in Requests, PostLeg(a)
    PROVE  OrderInv'
<1> DEFINE o == OrderOf(a)
<1> USE DEF OrderInv, OrderAndMoneyAgree
<1>1. /\ o \in Orders /\ order[o] = "paid" /\ request[a].leg \in Legs
      /\ request[a] \in RequestRows /\ request \in [Requests -> RequestRows]
  BY RequestTyped DEF PostLeg, Stands, RequestsTellTheOrder
<1>2. /\ UNCHANGED <<order, payment, charged, gifts, linked, ready, crashes>>
      /\ ledger' = [ledger EXCEPT ![o] = @ \cup {request[a].leg}]
      /\ \/ request' = [request EXCEPT ![a] = NoRequest]
         \/ request[a].leg # NLegs /\ request' = [request EXCEPT ![a].leg = @ + 1]
  BY DEF PostLeg, Ends
<1>3. /\ ledger' \in [Orders -> SUBSET Legs]
      /\ \A p \in Orders : p # o => ledger'[p] = ledger[p]
  BY <1>1, <1>2 DEF OrderTypeOK
<1>4. PICK new \in RequestRows :
         /\ request' = [request EXCEPT ![a] = new]
         /\ new.pc # "idle" => new.pc = "post" /\ new.of = o /\ new.leg \in Legs
  <2>1. CASE request' = [request EXCEPT ![a] = NoRequest]
    BY <2>1, EndedTyped
  <2>2. CASE request[a].leg # NLegs /\ request' = [request EXCEPT ![a].leg = @ + 1]
    <3> DEFINE new == [request[a] EXCEPT !.leg = @ + 1]
    <3>1. request[a].leg + 1 \in Legs /\ request[a].leg + 1 \in 0..NLegs
      BY <1>1, <2>2, OrderPaymentAssumption DEF Legs
    <3>2. request[a].pc = "post"
      BY DEF PostLeg, Stands
    <3>3. new \in RequestRows /\ new.pc = "post" /\ new.of = o /\ new.leg = request[a].leg + 1
      BY <1>1, <3>1, <3>2 DEF RequestRows, OrderOf
    <3>4. request' = [request EXCEPT ![a] = new]
      BY <1>1, <2>2
    <3> QED
      BY <3>1, <3>3, <3>4
  <2> QED
    BY <1>2, <2>1, <2>2
<1>5. /\ request' \in [Requests -> RequestRows]
      /\ request'[a] = new
      /\ \A c \in Requests : c # a => request'[c] = request[c]
  BY <1>1, <1>4
<1>6. OrderTypeOK'
  BY <1>2, <1>3, <1>5 DEF OrderTypeOK, RequestRows, Places
<1>7. ChargedOnce' /\ StatusTellsTheMoney' /\ UnlockedIsUncharged'
  BY <1>1, <1>2, <1>3 DEF ChargedOnce, StatusTellsTheMoney, UnlockedIsUncharged
<1>8. OneBehindTheLock'
  BY <1>4, <1>5 DEF OneBehindTheLock, OrderOf, BehindTheLock
<1>9. RequestsTellTheOrder'
  <2> SUFFICES ASSUME NEW c \in Requests PROVE PlaceFits(request'[c])
    BY DEF RequestsTellTheOrder, PlaceFits, Stands, OrderOf
  <2>1. CASE c = a
    BY <1>1, <1>2, <1>4, <1>5, <2>1 DEF PlaceFits, BehindTheLock
  <2>2. CASE c # a
    BY <1>2, <1>5, <2>2 DEF RequestsTellTheOrder, PlaceFits, Stands, OrderOf
  <2> QED
    BY <2>1, <2>2
<1> QED
  BY <1>6, <1>7, <1>8, <1>9

\* A checkout, and the readiness the guards look at.
LEMMA CreateKeepsInv ==
    ASSUME OrderInv, \/ \E o \in Orders : CreateOrder(o)
                     \/ ReadinessChanges
                     \/ UNCHANGED orderVars
    PROVE  OrderInv'
<1> USE DEF OrderInv, OrderAndMoneyAgree
<1>1. ASSUME NEW o \in Orders, CreateOrder(o) PROVE OrderInv'
  <2>1. /\ order[o] = "none"
        /\ order' = [order EXCEPT ![o] = "pending"]
        /\ UNCHANGED <<payment, charged, gifts, linked, ledger, ready, request, crashes>>
    BY <1>1 DEF CreateOrder
  <2>2. /\ order' \in [Orders -> OrderStates] /\ order'[o] = "pending"
        /\ \A p \in Orders : p # o => order'[p] = order[p]
    BY <2>1 DEF OrderTypeOK, OrderStates
  <2>3. OrderTypeOK'
    BY <2>1, <2>2 DEF OrderTypeOK, OrderStates
  <2>4. ChargedOnce' /\ StatusTellsTheMoney' /\ UnlockedIsUncharged'
    BY <2>1, <2>2 DEF ChargedOnce, StatusTellsTheMoney, UnlockedIsUncharged
  <2>5. OneBehindTheLock' /\ RequestsTellTheOrder'
    BY <2>1, <2>2 DEF OneBehindTheLock, RequestsTellTheOrder, OrderOf, Stands
  <2> QED
    BY <2>3, <2>4, <2>5
<1>2. CASE ReadinessChanges \/ UNCHANGED orderVars
  <2>1. /\ UNCHANGED <<order, payment, charged, gifts, linked, ledger, request, crashes>>
        /\ ready' \in BOOLEAN
    BY <1>2 DEF ReadinessChanges, orderVars, OrderTypeOK
  <2> QED
    BY <2>1 DEF OrderTypeOK, ChargedOnce, StatusTellsTheMoney, UnlockedIsUncharged,
                OneBehindTheLock, RequestsTellTheOrder, OrderOf, Stands
<1> QED
  BY <1>1, <1>2

\* Every step of the order component keeps its invariant.
LEMMA OrderNextKeepsInv == OrderInv /\ [OrderNext]_orderVars => OrderInv'
<1> SUFFICES ASSUME OrderInv, [OrderNext]_orderVars PROVE OrderInv'
  OBVIOUS
<1>1. CASE UNCHANGED orderVars \/ ReadinessChanges \/ \E o \in Orders : CreateOrder(o)
  BY <1>1, CreateKeepsInv
<1>2. ASSUME NEW a \in Requests,
             \/ \E o \in Orders : ConfirmLoad(a, o) \/ Repair(a, o)
             \/ EnsureLedger(a) \/ CutOff(a)
      PROVE OrderInv'
  BY <1>2, ReadsKeepInv
<1>3. ASSUME NEW a \in Requests, LockOrder(a) PROVE OrderInv'
  BY <1>3, LockKeepsInv
<1>4. ASSUME NEW a \in Requests, ChargeOrder(a) \/ MakeGift(a) PROVE OrderInv'
  BY <1>4, ChargeAndGiftKeepInv
<1>5. ASSUME NEW a \in Requests, RecordFailedPayment(a) \/ SettleOrder(a) PROVE OrderInv'
  BY <1>5, OutcomeKeepsInv
<1>6. ASSUME NEW a \in Requests, PostLeg(a) PROVE OrderInv'
  BY <1>6, PostKeepsInv
<1> QED
  BY <1>1, <1>2, <1>3, <1>4, <1>5, <1>6 DEF OrderNext

\* Where a confirmation stands tells what has happened to its order, in every
\* reachable state.
THEOREM OrderInvariant == OrderSpec => []OrderInv
<1>1. OrderInit => OrderInv
  BY OrderInitInv
<1>2. OrderInv /\ [OrderNext]_orderVars => OrderInv'
  BY OrderNextKeepsInv
<1> QED
  BY <1>1, <1>2, PTL DEF OrderSpec

\* However often the buyer confirms, whatever races and wherever a request is
\* cut off: an order is charged once at most and gets one gift at most, paid
\* means charged with its gift linked and its payment recorded, failed means no
\* gift, and the ledger knows paid orders only (confirmMock and its lock).
THEOREM OrdersAndMoneyAgree == OrderSpec => []OrderAndMoneyAgree
<1>1. OrderInv => OrderAndMoneyAgree
  BY DEF OrderInv
<1> QED
  BY <1>1, OrderInvariant, PTL

-----------------------------------------------------------------------------
(***************************************************************************)
(* The address book.                                                       *)
(***************************************************************************)
\* A set of addresses that is not empty has an oldest and a most recent one.
LEMMA OldestAndNewest ==
    ASSUME NEW S \in SUBSET AddressIds, S # {}
    PROVE  Min(S) \in S /\ Max(S) \in S
<1>1. NAddresses \in Nat /\ S \subseteq Nat /\ \A x \in S : x <= NAddresses
  BY AddressBookAssumption DEF AddressIds
<1>2. ASSUME NEW T \in SUBSET Nat, T # {} PROVE \E x \in T : \A y \in T : x <= y
  <2>1. PICK x \in T : \A y \in T : ~(<<y, x>> \in OpToRel(<, Nat))
    BY <1>2, NatLessThanWellFounded, WFMin
  <2>2. \A y \in T : ~(y < x)
    BY <2>1 DEF OpToRel
  <2> QED
    BY <2>2
<1>3. Min(S) \in S
  BY <1>1, <1>2 DEF Min
<1>4. \E x \in S : \A y \in S : x >= y
  <2> DEFINE T == {n \in Nat : \E x \in S : n = NAddresses - x}
  <2>1. T # {} /\ T \in SUBSET Nat
    <3>1. PICK x \in S : TRUE
      OBVIOUS
    <3>2. x \in Nat /\ x <= NAddresses
      BY <1>1
    <3>3. NAddresses - x \in T
      BY <1>1, <3>2
    <3> QED
      BY <3>3
  <2>2. PICK n \in T : \A m \in T : n <= m
    <3> HIDE DEF T
    <3> QED
      BY <1>2, <2>1
  <2>3. PICK x \in S : n = NAddresses - x
    BY <2>2
  <2>4. ASSUME NEW y \in S PROVE x >= y
    <3>1. NAddresses - y \in T
      BY <1>1
    <3>2. n <= NAddresses - y
      BY <2>2, <3>1
    <3> QED
      BY <1>1, <2>3, <3>2
  <2> QED
    BY <2>4
<1>5. Max(S) \in S
  BY <1>4 DEF Max
<1> QED
  BY <1>3, <1>5

CallRows == [pc : {"idle", "create", "update", "setDefault", "remove", "resolve", "tell"},
             addr : 0..NAddresses, wants : BOOLEAN, was : BOOLEAN, had : BOOLEAN,
             found : SUBSET AttemptIds]

\* What the steps of the owner use of the book and of a request.
LEMMA BookTyped ==
    ASSUME BookInv
    PROVE  /\ call \in [OwnerCalls -> CallRows] /\ NoCall \in CallRows
           /\ [NoCall EXCEPT !.pc = "resolve"] \in CallRows
           /\ book \in [AddressIds -> {"unused", "plain", "default", "gone"}]
           /\ AddressIds \subseteq 0..NAddresses /\ 0 \in 0..NAddresses
<1>1. AddressIds \subseteq 0..NAddresses /\ 0 \in 0..NAddresses
  BY AddressBookAssumption DEF AddressIds
<1>2. NoCall \in CallRows
  BY <1>1 DEF CallRows, NoCall
<1>3. [NoCall EXCEPT !.pc = "resolve"] \in CallRows
  BY <1>1 DEF CallRows, NoCall
<1> QED
  BY <1>1, <1>2, <1>3 DEF BookInv, BookTypeOK, CallRows

\* A transaction that makes an address the default leaves exactly that one.
LEMMA OnlyDefaultIsOne ==
    ASSUME BookInv, NEW i \in AddressIds, book' = OnlyDefault(book, i)
    PROVE  Defaults' = {i} /\ book' \in [AddressIds -> {"unused", "plain", "default", "gone"}]
  BY DEF BookInv, BookTypeOK, OnlyDefault, Defaults

\* A step that leaves the book and the owner's requests alone.
LEMMA BookUntouched ==
    ASSUME BookInv, UNCHANGED <<book, call, overlapped>>,
           attempt' \in [AttemptIds -> {"none", "open", "resolved"}],
           told' \in [AttemptIds -> Nat]
    PROVE  BookInv'
  BY DEF BookInv, BookTypeOK, OwnerCallFits, Saved, Defaults

\* A request begins: alone, it knows the book as it is; otherwise requests have
\* overlapped.
LEMMA BeginKeepsBookInv ==
    ASSUME BookInv, NEW c \in OwnerCalls,
           NEW pc \in {"create", "update", "setDefault", "remove"},
           NEW i \in 0..NAddresses, NEW wants \in BOOLEAN,
           pc # "create" => i \in Saved,
           pc = "create" => wants \/ Saved # {},
           Begin(c, pc, i, wants)
    PROVE  BookInv'
<1> DEFINE r == [pc |-> pc, addr |-> i, wants |-> wants, was |-> i \in Defaults,
                 had |-> HasDefault, found |-> {}]
<1>0. call \in [OwnerCalls -> CallRows] /\ r \in CallRows
  BY BookTyped DEF CallRows, HasDefault
<1>1. /\ call[c].pc = "idle" /\ call' = [call EXCEPT ![c] = r]
      /\ UNCHANGED <<book, attempt, told>>
      /\ overlapped' = (overlapped \/ \E d \in OwnerCalls : call[d].pc # "idle")
  BY DEF Begin
<1>2. /\ r.pc = pc /\ r.addr = i /\ r.wants = wants
      /\ r.was <=> i \in Defaults
  OBVIOUS
<1> HIDE DEF r
<1>3. BookTypeOK'
  BY <1>0, <1>1 DEF BookInv, BookTypeOK, CallRows
<1>4. Saved' = Saved /\ Defaults' = Defaults
  BY <1>1 DEF Saved, Defaults
<1>5. ASSUME ~overlapped'
      PROVE  /\ ~overlapped /\ \A d \in OwnerCalls : d # c => call'[d].pc = "idle"
             /\ call'[c] = r
  BY <1>0, <1>1, <1>5 DEF BookInv, BookTypeOK
<1>6. ASSUME ~overlapped', NEW d \in OwnerCalls PROVE OwnerCallFits(d)'
  BY <1>2, <1>4, <1>5, <1>6 DEF OwnerCallFits
<1> QED
  BY <1>3, <1>4, <1>5, <1>6 DEF BookInv

\* A transaction of the owner.  If no requests have overlapped it is the only
\* one, and has to leave one default or an empty book.
LEMMA CommitKeepsBookInv ==
    ASSUME BookInv, NEW c \in OwnerCalls, call[c].pc # "idle",
           NEW r \in CallRows, r.pc \in {"idle", "resolve", "tell"},
           call' = [call EXCEPT ![c] = r], UNCHANGED overlapped,
           book' \in [AddressIds -> {"unused", "plain", "default", "gone"}],
           attempt' \in [AttemptIds -> {"none", "open", "resolved"}],
           told' \in [AttemptIds -> Nat],
           ~overlapped => Saved' = {} \/ \E i \in AddressIds : Defaults' = {i}
    PROVE  BookInv'
<1>0. call \in [OwnerCalls -> CallRows]
  BY BookTyped
<1>1. BookTypeOK'
  BY <1>0 DEF BookInv, BookTypeOK, CallRows
<1>2. ASSUME ~overlapped
      PROVE  \A d \in OwnerCalls : call'[d].pc \in {"idle", "resolve", "tell"}
                                   /\ (d # c => call'[d].pc = "idle")
  BY <1>0, <1>2 DEF BookInv
<1> QED
  BY <1>1, <1>2 DEF BookInv, OwnerCallFits

\* The request that follows a transaction.
LEMMA ThenResolveTyped ==
    ASSUME BookInv, NEW c \in OwnerCalls, ThenResolve(c)
    PROVE  \E r \in CallRows : r.pc \in {"idle", "resolve", "tell"} /\ call' = [call EXCEPT ![c] = r]
<1> DEFINE r == IF call[c].wants /\ ~call[c].had THEN [NoCall EXCEPT !.pc = "resolve"] ELSE NoCall
<1>1. r \in CallRows /\ call' = [call EXCEPT ![c] = r]
  BY BookTyped DEF ThenResolve
<1>2. r.pc \in {"idle", "resolve", "tell"}
  BY DEF NoCall
<1> HIDE DEF r
<1> QED
  BY <1>1, <1>2

\* createAddress, update, setDefault and remove, each with what it has read.
LEMMA EditsKeepBookInv ==
    ASSUME BookInv, NEW c \in OwnerCalls,
           CreateAddress(c) \/ UpdateAddress(c) \/ SetDefault(c) \/ RemoveAddress(c)
    PROVE  BookInv'
<1>0. /\ call \in [OwnerCalls -> CallRows] /\ NoCall \in CallRows /\ NoCall.pc = "idle"
      /\ book \in [AddressIds -> {"unused", "plain", "default", "gone"}]
      /\ call[c].pc # "idle"
      /\ UNCHANGED <<attempt, told, overlapped>>
      /\ attempt' \in [AttemptIds -> {"none", "open", "resolved"}]
      /\ told' \in [AttemptIds -> Nat]
  BY BookTyped
     DEF BookInv, BookTypeOK, NoCall, CreateAddress, UpdateAddress, SetDefault, RemoveAddress
<1>1. \E r \in CallRows : r.pc \in {"idle", "resolve", "tell"} /\ call' = [call EXCEPT ![c] = r]
  BY <1>0, ThenResolveTyped DEF CreateAddress, UpdateAddress, SetDefault, RemoveAddress
<1> DEFINE i == call[c].addr
           Typed == book' \in [AddressIds -> {"unused", "plain", "default", "gone"}]
           Kept == ~overlapped => Saved' = {} \/ \E x \in AddressIds : Defaults' = {x}
<1> SUFFICES Typed /\ Kept
  BY <1>0, <1>1, CommitKeepsBookInv
<1>2. ASSUME ~overlapped PROVE OwnerCallFits(c) /\ (Saved = {} \/ \E x \in AddressIds : Defaults = {x})
  BY <1>2 DEF BookInv
<1>3. ASSUME NEW x \in AddressIds, book' = OnlyDefault(book, x) PROVE Typed /\ Kept
  BY <1>3, OnlyDefaultIsOne
<1>4. ASSUME book' = book PROVE Typed /\ Kept
  BY <1>0, <1>2, <1>4 DEF Saved, Defaults
<1>5. CASE CreateAddress(c)
  <2> DEFINE x == Min(Unused)
  <2>1. x \in AddressIds /\ book[x] = "unused"
    BY <1>5, OldestAndNewest DEF CreateAddress, Unused
  <2>2. CASE call[c].wants
    BY <1>3, <1>5, <2>1, <2>2 DEF CreateAddress
  <2>3. CASE ~call[c].wants
    <3>1. book' = [book EXCEPT ![x] = "plain"] /\ call[c].pc = "create"
      BY <1>5, <2>3 DEF CreateAddress
    <3> HIDE DEF x
    <3>2. Typed /\ Defaults' = Defaults
      BY <1>0, <2>1, <3>1 DEF Defaults
    <3>3. ~overlapped => Saved # {}
      BY <1>2, <2>3, <3>1 DEF OwnerCallFits
    <3> QED
      BY <1>2, <3>2, <3>3
  <2> QED
    BY <2>2, <2>3
<1>6. CASE UpdateAddress(c)
  <2>1. CASE i \in Saved /\ call[c].wants /\ ~call[c].was
    BY <1>3, <1>6, <2>1 DEF UpdateAddress, Saved
  <2>2. CASE i \in Saved /\ ~(call[c].wants /\ ~call[c].was)
    <3>1. /\ book' = [book EXCEPT ![i] = IF call[c].was THEN "default" ELSE "plain"]
          /\ call[c].pc = "update" /\ i \in AddressIds /\ book[i] \in {"plain", "default"}
      BY <1>6, <2>2 DEF UpdateAddress, Saved
    <3>2. Typed
      BY <1>0, <3>1
    <3>3. ASSUME ~overlapped PROVE book' = book
      <4>1. call[c].was <=> book[i] = "default"
        BY <1>2, <3>1, <3>3 DEF OwnerCallFits, Defaults
      <4> QED
        BY <1>0, <3>1, <4>1
    <3> QED
      BY <1>4, <3>2, <3>3
  <2>3. CASE i \notin Saved
    BY <1>4, <1>6, <2>3 DEF UpdateAddress
  <2> QED
    BY <2>1, <2>2, <2>3
<1>7. CASE SetDefault(c)
  BY <1>3, <1>4, <1>7 DEF SetDefault, Saved
<1>8. CASE RemoveAddress(c)
  <2>1. CASE i \notin Saved
    BY <1>4, <1>8, <2>1 DEF RemoveAddress
  <2>2. CASE i \in Saved
    <3> DEFINE rest == Saved \ {i}
               y == Max(rest)
    <3>1. i \in AddressIds /\ call[c].pc = "remove" /\ book' = Successor(i, call[c].was)
      BY <1>8, <2>2 DEF RemoveAddress, Saved
    <3>2. rest # {} => y \in AddressIds /\ y # i /\ book[y] \in {"plain", "default"}
      BY OldestAndNewest DEF Saved
    <3>3. ~overlapped => (call[c].was <=> i \in Defaults)
      BY <1>2, <3>1 DEF OwnerCallFits
    <3>4. CASE call[c].was /\ rest # {}
      <4>1. book' = [[book EXCEPT ![i] = "gone"] EXCEPT ![y] = "default"]
        BY <3>1, <3>4 DEF Successor
      <4> HIDE DEF y, rest
      <4>2. Typed
        BY <1>0, <3>1, <3>2, <3>4, <4>1
      <4>3. ASSUME ~overlapped PROVE Defaults' = {y}
        <5>1. \A x \in AddressIds : book[x] = "default" => x = i
          BY <1>2, <2>2, <3>3, <3>4, <4>3 DEF Defaults
        <5>2. \A x \in AddressIds : book'[x] = "default" <=> x = y
          BY <1>0, <3>1, <3>2, <3>4, <4>1, <5>1
        <5> QED
          BY <3>2, <3>4, <5>2 DEF Defaults
      <4> QED
        BY <3>2, <3>4, <4>2, <4>3
    <3>5. CASE ~(call[c].was /\ rest # {})
      <4>1. book' = [book EXCEPT ![i] = "gone"]
        BY <3>1, <3>5 DEF Successor
      <4>2. Typed
        BY <1>0, <3>1, <4>1
      <4>3. ASSUME ~overlapped, call[c].was PROVE Saved' = {}
        BY <1>0, <3>1, <3>5, <4>1, <4>3 DEF Saved
      <4>4. ASSUME ~overlapped, ~call[c].was PROVE Defaults' = Defaults
        BY <1>0, <3>1, <3>3, <4>1, <4>4 DEF Defaults
      <4> QED
        BY <1>2, <2>2, <4>2, <4>3, <4>4
    <3> QED
      BY <3>4, <3>5
  <2> QED
    BY <2>1, <2>2
<1> QED
  BY <1>5, <1>6, <1>7, <1>8

\* The senders who wait are told.
LEMMA ResolveKeepsBookInv ==
    ASSUME BookInv, NEW c \in OwnerCalls, ResolveLoad(c) \/ ResolveTell(c)
    PROVE  BookInv'
<1>0. call \in [OwnerCalls -> CallRows] /\ NoCall \in CallRows /\ NoCall.pc = "idle"
  BY BookTyped DEF NoCall
<1>1. /\ call[c].pc # "idle" /\ UNCHANGED <<book, overlapped>>
      /\ attempt' \in [AttemptIds -> {"none", "open", "resolved"}]
      /\ told' \in [AttemptIds -> Nat]
  BY DEF BookInv, BookTypeOK, ResolveLoad, ResolveTell
<1>2. \E r \in CallRows : r.pc \in {"idle", "resolve", "tell"} /\ call' = [call EXCEPT ![c] = r]
  <2> DEFINE open == {t \in AttemptIds : attempt[t] = "open"}
             q == [NoCall EXCEPT !.pc = "tell", !.found = open]
  <2>1. q \in CallRows /\ q.pc = "tell"
    BY <1>0 DEF CallRows, NoCall
  <2>2. call' = [call EXCEPT ![c] = NoCall] \/ call' = [call EXCEPT ![c] = q]
    BY DEF ResolveLoad, ResolveTell
  <2> HIDE DEF q
  <2> QED
    BY <1>0, <2>1, <2>2
<1>3. /\ Saved' = Saved /\ Defaults' = Defaults
      /\ book' \in [AddressIds -> {"unused", "plain", "default", "gone"}]
      /\ ~overlapped => Saved = {} \/ \E i \in AddressIds : Defaults = {i}
  BY <1>1 DEF BookInv, BookTypeOK, Saved, Defaults
<1> QED
  BY <1>1, <1>2, <1>3, CommitKeepsBookInv

\* Every step of the owner keeps the invariant of the book.
LEMMA BookKeepsInv ==
    ASSUME BookInv, BookNext \/ (\E c \in OwnerCalls : RemoveAddress(c)) \/ RecordAttempt
    PROVE  BookInv'
<1>1. ASSUME NEW c \in OwnerCalls,
             \/ \E wants \in BOOLEAN : CreateAddressLoad(c, wants)
             \/ \E j \in AddressIds : \/ \E wants \in BOOLEAN : UpdateAddressLoad(c, j, wants)
                                      \/ SetDefaultLoad(c, j) \/ RemoveAddressLoad(c, j)
      PROVE  BookInv'
  BY <1>1, BookTyped, BeginKeepsBookInv
     DEF CreateAddressLoad, UpdateAddressLoad, SetDefaultLoad, RemoveAddressLoad
<1>2. CASE RecordAttempt
  BY <1>2, BookUntouched DEF RecordAttempt, BookInv, BookTypeOK
<1> QED
  BY <1>1, <1>2, EditsKeepBookInv, ResolveKeepsBookInv DEF BookNext

-----------------------------------------------------------------------------
(***************************************************************************)
(* The gifts.                                                              *)
(***************************************************************************)
Phases == {"confirmed", "preparing", "shipped", "delivered"}
ActRows == [pc : {"idle", "guards", "insert", "confirm", "cancel", "preparing", "shipped",
                  "delivered", "parcel", "mirror", "sweep"},
            gift : Gifts \cup {"none"}, addr : 0..NAddresses, body : Bodies \cup {"none"}]

InOrder(S) == /\ "delivered" \in S => "shipped" \in S
              /\ "shipped" \in S => "preparing" \in S
              /\ "preparing" \in S => "confirmed" \in S
MayShow(g, what, S) ==
    "message" \in what \/ (g \in Surprise /\ "name" \in what) => "delivered" \in S

\* A request row that may be held: it has nothing to write yet, or a gift that is
\* ready for its write.
HoldsReady(r) ==
    \/ r.pc \in {"idle", "guards", "insert"}
    \/ r.gift \in Rows /\ Past(r.pc) \subseteq stamps[r.gift]

\* What the steps use of the types.
LEMMA GiftTyped ==
    ASSUME GiftInv
    PROVE  /\ status \in [Gifts -> Statuses \cup {"none"}] /\ stamps \in [Gifts -> SUBSET Phases]
           /\ seen \in [Gifts -> SUBSET Facts]
           /\ act \in [Callers -> ActRows] /\ NoAct \in ActRows /\ HoldsReady(NoAct)
           /\ Sweep \in Callers /\ Parties \subseteq Callers
           /\ \A a \in Callers : act[a] \in ActRows /\ HoldsReady(act[a])
           /\ Rows \subseteq Gifts
<1>1. 0 \in 0..NAddresses
  BY AddressBookAssumption
<1>2. NoAct \in ActRows /\ NoAct.pc = "idle"
  BY <1>1 DEF NoAct, ActRows
<1>3. act \in [Callers -> ActRows] /\ Sweep \in Callers /\ Parties \subseteq Callers
  BY DEF GiftInv, GiftTypeOK, ActRows, Callers
<1>4. \A a \in Callers : HoldsReady(act[a])
  BY DEF GiftInv, ActFits, HoldsReady
<1> QED
  BY <1>2, <1>3, <1>4 DEF GiftInv, GiftTypeOK, HoldsReady, Rows, Phases

\* A step that writes no gift: it loads, registers a parcel, or lets time pass.
LEMMA LoadKeepsGiftInv ==
    ASSUME GiftInv, BookInv', NEW a \in Callers, NEW r \in ActRows, HoldsReady(r),
           act' = [act EXCEPT ![a] = r],
           UNCHANGED <<status, stamps, seen, payload, misanswered>>,
           pinned' \in [Gifts -> 0..NAddresses], overdue' \in [Gifts -> BOOLEAN],
           parcel' \in [Gifts -> {"none", "registered", "delivered"}]
    PROVE  GiftInv'
<1>1. act' \in [Callers -> ActRows]
  BY GiftTyped
<1>2. GiftTypeOK'
  BY <1>1 DEF GiftInv, GiftTypeOK, ActRows
<1>3. Rows' = Rows
  BY DEF Rows
<1>4. ASSUME NEW b \in Callers PROVE ActFits(b)'
  <2>1. HoldsReady(act'[b])
    BY GiftTyped
  <2> QED
    BY <1>3, <2>1 DEF ActFits, HoldsReady
<1> QED
  BY <1>2, <1>3, <1>4 DEF GiftInv, PhasesInOrder, SurpriseKept

\* A write on a gift that exists, whatever it finds there: it stamps what it
\* must, and shows what it may.
LEMMA WriteKeepsGiftInv ==
    ASSUME GiftInv, BookInv', NEW a \in Callers, NEW r \in ActRows, HoldsReady(r),
           act' = [act EXCEPT ![a] = r],
           NEW g \in Rows, NEW s \in Statuses, NEW st \in SUBSET Phases,
           NEW what \in SUBSET Facts,
           status' = [status EXCEPT ![g] = s],
           stamps' = [stamps EXCEPT ![g] = @ \cup st],
           seen' = [seen EXCEPT ![g] = @ \cup what],
           Behind(s) \subseteq stamps[g] \cup st, InOrder(stamps[g] \cup st),
           MayShow(g, what, stamps[g] \cup st),
           s \in Unaccepted => "preparing" \notin stamps[g] \cup st,
           UNCHANGED <<payload, overdue, parcel, misanswered>>,
           pinned' \in [Gifts -> 0..NAddresses]
    PROVE  GiftInv'
<1>0. /\ status \in [Gifts -> Statuses \cup {"none"}] /\ stamps \in [Gifts -> SUBSET Phases]
      /\ seen \in [Gifts -> SUBSET Facts] /\ g \in Gifts /\ status[g] # "none"
      /\ "none" \notin Statuses
  BY GiftTyped DEF Rows, Statuses
<1>1. act' \in [Callers -> ActRows]
  BY GiftTyped
<1>2. /\ status' \in [Gifts -> Statuses \cup {"none"}] /\ stamps' \in [Gifts -> SUBSET Phases]
      /\ seen' \in [Gifts -> SUBSET Facts]
  BY <1>0
<1>3. GiftTypeOK'
  BY <1>1, <1>2 DEF GiftInv, GiftTypeOK, ActRows, Phases
<1>4. /\ status'[g] = s /\ stamps'[g] = stamps[g] \cup st /\ seen'[g] = seen[g] \cup what
      /\ \A h \in Gifts : h # g => /\ status'[h] = status[h] /\ stamps'[h] = stamps[h]
                                   /\ seen'[h] = seen[h]
  BY <1>0
<1>5. Rows' = Rows /\ \A h \in Gifts : stamps[h] \subseteq stamps'[h]
  BY <1>0, <1>4 DEF Rows
<1>6. ASSUME NEW b \in Callers PROVE ActFits(b)'
  <2>1. HoldsReady(act'[b])
    BY GiftTyped
  <2> QED
    BY <1>5, <2>1 DEF ActFits, HoldsReady, Rows
<1>7. \A h \in Gifts : Behind(status'[h]) \subseteq stamps'[h]
  BY <1>4 DEF GiftInv
<1>8. PhasesInOrder'
  BY <1>4 DEF GiftInv, PhasesInOrder, InOrder
<1>9. SurpriseKept'
  BY <1>4 DEF GiftInv, SurpriseKept, MayShow
<1>10. \A h \in Gifts : status'[h] \in Unaccepted => "preparing" \notin stamps'[h]
  BY <1>4 DEF GiftInv
<1> QED
  BY <1>3, <1>5, <1>6, <1>7, <1>8, <1>9, <1>10 DEF GiftInv

\* A view or a notification of a gift in status s shows what the stamps behind s
\* allow.
LEMMA ShownIsAllowed ==
    ASSUME NEW g, NEW s, NEW S, Behind(s) \subseteq S
    PROVE  /\ Body(g, s) \in SUBSET Facts /\ MayShow(g, Body(g, s), S)
           /\ View(g, s) \in SUBSET Facts /\ MayShow(g, View(g, s), S)
<1>1. s = "delivered" => "delivered" \in S
  BY DEF Behind
<1>2. Body(g, s) \in SUBSET {"name"} /\ (g \in Surprise /\ s # "delivered" => Body(g, s) = {})
  BY DEF Body, Masked
<1>3. /\ View(g, s) \subseteq Body(g, s) \cup {"trace", "message"}
      /\ s # "delivered" => "message" \notin View(g, s)
  BY <1>2 DEF View
<1> QED
  BY <1>1, <1>2, <1>3 DEF MayShow, Facts

\* Steps that leave the address book alone.
LEMMA BookStays ==
    ASSUME GiftInv, UNCHANGED bookVars
    PROVE  BookInv'
  BY BookUntouched DEF GiftInv, BookInv, BookTypeOK, bookVars

\* A request row with a gift that is ready for its write.
LEMMA ReadyRow ==
    ASSUME GiftInv, NEW g \in Rows, NEW i \in 0..NAddresses,
           NEW pc \in {"confirm", "cancel", "preparing", "shipped", "delivered", "mirror", "sweep"},
           Past(pc) \subseteq stamps[g]
    PROVE  /\ [pc |-> pc, gift |-> g, addr |-> i, body |-> "none"] \in ActRows
           /\ HoldsReady([pc |-> pc, gift |-> g, addr |-> i, body |-> "none"])
  BY DEF ActRows, HoldsReady, Rows

\* What the table allows next, the stamps are ready for.
LEMMA AllowedIsReady ==
    ASSUME GiftInv, NEW g \in Gifts, NEW to \in {"preparing", "shipped", "delivered"},
           to \in Allowed(status[g])
    PROVE  g \in Rows /\ Past(to) \subseteq stamps[g] /\ (to = "delivered" => Past("mirror") \subseteq stamps[g])
<1>1. Behind(status[g]) \subseteq stamps[g]
  BY DEF GiftInv
<1>2. /\ to = "preparing" => status[g] \in {"address_confirmed", "default_address_used"}
      /\ to = "shipped" => status[g] = "preparing"
      /\ to = "delivered" => status[g] = "shipped"
  BY DEF Allowed
<1> QED
  BY <1>1, <1>2 DEF Behind, Past, Rows

\* The requests that read a gift and will write it later.
LEMMA LoadsKeepGiftInv ==
    ASSUME GiftInv, NEW a \in Parties, NEW g \in Gifts,
           \/ ConfirmAddressLoad(a, g) \/ CancelLoad(a, g)
           \/ \E to \in Statuses : StoreLoad(a, g, to)
           \/ \E s \in {"registered", "delivered"} : ShipmentEvent(a, g, s)
    PROVE  GiftInv'
<1>0. /\ a \in Callers /\ BookInv' /\ UNCHANGED <<status, stamps, seen, payload, misanswered>>
      /\ pinned' \in [Gifts -> 0..NAddresses] /\ overdue' \in [Gifts -> BOOLEAN]
      /\ 0 \in 0..NAddresses /\ act \in [Callers -> ActRows]
      /\ act[a] \in ActRows /\ HoldsReady(act[a])
  BY GiftTyped, BookStays, AddressBookAssumption
     DEF ConfirmAddressLoad, CancelLoad, StoreLoad, ShipmentEvent, giftTables, GiftInv, GiftTypeOK
<1>1. parcel' \in [Gifts -> {"none", "registered", "delivered"}]
  BY DEF ConfirmAddressLoad, CancelLoad, StoreLoad, ShipmentEvent, giftTables, GiftInv, GiftTypeOK
<1>2. ASSUME NEW h \in Rows, NEW i \in 0..NAddresses,
             NEW pc \in {"confirm", "cancel", "preparing", "shipped", "delivered", "mirror", "sweep"},
             Past(pc) \subseteq stamps[h], Start(a, pc, h, i, "none")
      PROVE  GiftInv'
  <2> DEFINE r == [pc |-> pc, gift |-> h, addr |-> i, body |-> "none"]
  <2>1. r \in ActRows /\ HoldsReady(r)
    BY <1>2, ReadyRow
  <2>2. act' = [act EXCEPT ![a] = r]
    BY <1>2 DEF Start
  <2> HIDE DEF r
  <2> QED
    BY <1>0, <1>1, <2>1, <2>2, LoadKeepsGiftInv
<1>3. ASSUME act' = act PROVE GiftInv'
  <2>1. act' = [act EXCEPT ![a] = act[a]]
    BY <1>0, <1>3
  <2> QED
    BY <1>0, <1>1, <2>1, LoadKeepsGiftInv
<1>4. CASE ConfirmAddressLoad(a, g)
  <2>1. g \in Rows /\ Past("confirm") \subseteq stamps[g]
    BY <1>4 DEF ConfirmAddressLoad, Rows, Past
  <2>2. PICK i \in Saved : Start(a, "confirm", g, i, "none")
    BY <1>4 DEF ConfirmAddressLoad
  <2>3. i \in 0..NAddresses
    BY BookTyped DEF GiftInv, Saved
  <2> QED
    BY <1>2, <2>1, <2>2, <2>3
<1>5. CASE CancelLoad(a, g)
  <2>1. g \in Rows /\ Past("cancel") \subseteq stamps[g]
    BY <1>5 DEF CancelLoad, Rows, Past, Cancellable
  <2> QED
    BY <1>0, <1>2, <1>5, <2>1 DEF CancelLoad
<1>6. ASSUME NEW to \in Statuses, StoreLoad(a, g, to) PROVE GiftInv'
  BY <1>0, <1>2, <1>6, AllowedIsReady DEF StoreLoad
<1>7. ASSUME NEW s \in {"registered", "delivered"}, ShipmentEvent(a, g, s) PROVE GiftInv'
  <2>1. CASE s = "delivered" /\ "delivered" \in Allowed(status[g])
    BY <1>0, <1>2, <1>7, <2>1, AllowedIsReady DEF ShipmentEvent
  <2>2. CASE ~(s = "delivered" /\ "delivered" \in Allowed(status[g]))
    BY <1>3, <1>7, <2>2 DEF ShipmentEvent
  <2> QED
    BY <2>1, <2>2
<1> QED
  BY <1>4, <1>5, <1>6, <1>7

\* Time, parcels and addresses that go away: no request is taken up.
LEMMA AsideKeepsGiftInv ==
    ASSUME GiftInv,
           \/ BookNext /\ UNCHANGED <<giftTables, act>>
           \/ \E c \in OwnerCalls : AddressGone(c)
           \/ \E g \in Gifts : UpsertShipment(g) \/ BecomesOverdue(g)
    PROVE  GiftInv'
<1>0. /\ Sweep \in Callers /\ act \in [Callers -> ActRows]
      /\ act[Sweep] \in ActRows /\ HoldsReady(act[Sweep])
  BY GiftTyped
<1>1. BookInv'
  BY BookKeepsInv, BookStays DEF GiftInv, AddressGone, UpsertShipment, BecomesOverdue
<1>2. /\ act' = act /\ UNCHANGED <<status, stamps, seen, payload, misanswered>>
  BY DEF AddressGone, UpsertShipment, BecomesOverdue, giftTables
<1>3. act' = [act EXCEPT ![Sweep] = act[Sweep]]
  BY <1>0, <1>2
<1>4. /\ pinned \in [Gifts -> 0..NAddresses] /\ overdue \in [Gifts -> BOOLEAN]
      /\ parcel \in [Gifts -> {"none", "registered", "delivered"}] /\ 0 \in 0..NAddresses
  BY AddressBookAssumption DEF GiftInv, GiftTypeOK
<1>5. /\ pinned' \in [Gifts -> 0..NAddresses] /\ overdue' \in [Gifts -> BOOLEAN]
      /\ parcel' \in [Gifts -> {"none", "registered", "delivered"}]
  <2>1. CASE BookNext /\ UNCHANGED <<giftTables, act>>
    BY <1>4, <2>1 DEF giftTables
  <2>2. ASSUME NEW c \in OwnerCalls, AddressGone(c)
        PROVE  /\ pinned' \in [Gifts -> 0..NAddresses] /\ overdue' \in [Gifts -> BOOLEAN]
               /\ parcel' \in [Gifts -> {"none", "registered", "delivered"}]
    BY <1>4, <2>2 DEF AddressGone
  <2>3. ASSUME NEW g \in Gifts, UpsertShipment(g) \/ BecomesOverdue(g)
        PROVE  /\ pinned' \in [Gifts -> 0..NAddresses] /\ overdue' \in [Gifts -> BOOLEAN]
               /\ parcel' \in [Gifts -> {"none", "registered", "delivered"}]
    BY <1>4, <2>3 DEF UpsertShipment, BecomesOverdue
  <2> QED
    BY <2>1, <2>2, <2>3
<1> QED
  BY <1>0, <1>1, <1>2, <1>3, <1>5, LoadKeepsGiftInv

\* A creation: one key has one row, made from the body that is stored with it;
\* a replay answers only a request with the same body.
LEMMA CreateKeepsGiftInv ==
    ASSUME GiftInv, NEW a \in Parties,
           (\E b \in Bodies : CreateLookup(a, b)) \/ CreateGuards(a) \/ CreateInsert(a)
    PROVE  GiftInv'
<1>0. /\ a \in Callers /\ act \in [Callers -> ActRows] /\ act[a] \in ActRows /\ HoldsReady(act[a])
      /\ NoAct \in ActRows /\ HoldsReady(NoAct) /\ 0 \in 0..NAddresses
      /\ pinned \in [Gifts -> 0..NAddresses] /\ overdue \in [Gifts -> BOOLEAN]
      /\ parcel \in [Gifts -> {"none", "registered", "delivered"}]
      /\ misanswered \in BOOLEAN /\ ~misanswered
      /\ status \in [Gifts -> Statuses \cup {"none"}] /\ stamps \in [Gifts -> SUBSET Phases]
      /\ seen \in [Gifts -> SUBSET Facts]
      /\ payload \in [Gifts -> Bodies \cup {"none"}]
  BY GiftTyped, AddressBookAssumption DEF GiftInv, GiftTypeOK
<1>1. ASSUME NEW b, Replay(b) PROVE misanswered' = misanswered
  BY <1>0, <1>1, Zenon DEF Replay, SameBody
<1>2. ASSUME NEW b \in Bodies, CreateLookup(a, b) PROVE GiftInv'
  <2> DEFINE r == [pc |-> "guards", gift |-> "none", addr |-> 0, body |-> b]
  <2>1. r \in ActRows /\ HoldsReady(r)
    BY <1>0 DEF ActRows, HoldsReady
  <2>2. act' = [act EXCEPT ![a] = r] \/ act' = [act EXCEPT ![a] = act[a]]
    BY <1>0, <1>2 DEF CreateLookup, Start
  <2>3. misanswered' = misanswered
    BY <1>1, <1>2 DEF CreateLookup
  <2>4. BookInv' /\ UNCHANGED <<status, stamps, seen, payload, pinned, overdue, parcel>>
    BY <1>2, BookStays DEF CreateLookup
  <2> HIDE DEF r
  <2>5. \E q \in ActRows : HoldsReady(q) /\ act' = [act EXCEPT ![a] = q]
    BY <1>0, <2>1, <2>2
  <2> QED
    BY <1>0, <2>3, <2>4, <2>5, LoadKeepsGiftInv
<1>3. CASE CreateGuards(a)
  <2> DEFINE r == [act[a] EXCEPT !.pc = "insert"]
  <2>1. r \in ActRows /\ HoldsReady(r)
    BY <1>0 DEF ActRows, HoldsReady
  <2>2. act' = [act EXCEPT ![a] = r] \/ act' = [act EXCEPT ![a] = NoAct]
    BY <1>3 DEF CreateGuards, Finish
  <2>3. BookInv'
    BY <1>3, BookStays, BookKeepsInv DEF CreateGuards, GiftInv
  <2>4. UNCHANGED <<status, stamps, seen, payload, misanswered, pinned, overdue, parcel>>
    BY <1>3 DEF CreateGuards, giftTables
  <2> HIDE DEF r
  <2>5. \E q \in ActRows : HoldsReady(q) /\ act' = [act EXCEPT ![a] = q]
    BY <1>0, <2>1, <2>2
  <2> QED
    BY <1>0, <2>3, <2>4, <2>5, LoadKeepsGiftInv
<1>4. CASE CreateInsert(a)
  <2>0. /\ act' = [act EXCEPT ![a] = NoAct] /\ UNCHANGED <<pinned, stamps, overdue, parcel>>
        /\ BookInv'
    BY <1>4, BookStays DEF CreateInsert, Finish
  <2>1. CASE ~KeyFree
    <3>1. misanswered' = misanswered /\ UNCHANGED <<status, payload, seen>>
      BY <1>1, <1>4, <2>1 DEF CreateInsert
    <3> QED
      BY <1>0, <2>0, <3>1, LoadKeepsGiftInv
  <2>2. CASE KeyFree
    <3>1. PICK g \in Gifts \ Rows :
            /\ status' = [status EXCEPT ![g] = "pending_address"]
            /\ payload' = [payload EXCEPT ![g] = act[a].body]
            /\ Show(g, Body(g, "pending_address"))
            /\ UNCHANGED misanswered
      BY <1>4, <2>2 DEF CreateInsert
    <3> DEFINE what == Body(g, "pending_address")
    <3>2. seen' = [seen EXCEPT ![g] = @ \cup what]
      BY <3>1 DEF Show
    <3>3. /\ what \in SUBSET Facts /\ MayShow(g, what, stamps[g])
          /\ Behind("pending_address") = {}
      BY ShownIsAllowed DEF Behind
    <3> HIDE DEF what
    <3>4. /\ act' \in [Callers -> ActRows] /\ act[a].body \in Bodies \cup {"none"}
          /\ "pending_address" \in Statuses
      BY <1>0, <2>0 DEF ActRows, Statuses
    <3>5. /\ status' \in [Gifts -> Statuses \cup {"none"}]
          /\ payload' \in [Gifts -> Bodies \cup {"none"}]
          /\ seen' \in [Gifts -> SUBSET Facts]
      BY <1>0, <3>1, <3>2, <3>3, <3>4
    <3>6. GiftTypeOK'
      BY <1>0, <2>0, <3>1, <3>4, <3>5 DEF GiftTypeOK, ActRows, Phases
    <3>7. /\ status'[g] = "pending_address" /\ seen'[g] = seen[g] \cup what
          /\ \A h \in Gifts : h # g => status'[h] = status[h] /\ seen'[h] = seen[h]
      BY <1>0, <3>1, <3>2
    <3>8. Rows = {} /\ Rows' = {g}
      BY <2>2, <3>7 DEF KeyFree, Rows
    <3>9. ASSUME NEW b \in Callers PROVE ActFits(b)'
      <4>1. act'[b].pc \in {"idle", "guards", "insert"}
        BY <1>0, <2>0, <3>8, GiftTyped DEF HoldsReady
      <4> QED
        BY <4>1 DEF ActFits
    <3>10. \A h \in Gifts : Behind(status'[h]) \subseteq stamps'[h]
      BY <2>0, <3>3, <3>7 DEF GiftInv
    <3>11. PhasesInOrder' /\ SurpriseKept'
      BY <2>0, <3>3, <3>7 DEF GiftInv, PhasesInOrder, SurpriseKept, MayShow
    <3>12. \A h \in Gifts : status'[h] \in Unaccepted => "preparing" \notin stamps'[h]
      <4>1. status[g] = "none" /\ "preparing" \notin stamps[g]
        BY <1>0, <3>1 DEF Rows, GiftInv, Unaccepted
      <4> QED
        BY <2>0, <3>7, <4>1 DEF GiftInv
    <3> QED
      BY <1>0, <2>0, <3>1, <3>6, <3>8, <3>9, <3>10, <3>11, <3>12 DEF GiftInv
  <2> QED
    BY <2>1, <2>2
<1> QED
  BY <1>2, <1>3, <1>4

\* The writes of receiver, sender, store, sweep and viewers, each on a gift that
\* was ready when it was read and has the stamps still.
LEMMA WritesKeepGiftInv ==
    ASSUME GiftInv,
           \/ \E a \in Parties : \/ ConfirmAddress(a) \/ Cancel(a) \/ StoreWrite(a)
                                 \/ RegisterParcel(a) \/ MirrorDelivered(a)
           \/ \E g \in Gifts : SweepVisit(g) \/ ReceiverViews(g) \/ OpenRead(g)
           \/ SweepWrite
    PROVE  GiftInv'
<1>0. /\ Sweep \in Callers /\ Parties \subseteq Callers /\ act \in [Callers -> ActRows]
      /\ NoAct \in ActRows /\ HoldsReady(NoAct) /\ 0 \in 0..NAddresses
      /\ pinned \in [Gifts -> 0..NAddresses] /\ overdue \in [Gifts -> BOOLEAN]
      /\ parcel \in [Gifts -> {"none", "registered", "delivered"}]
      /\ status \in [Gifts -> Statuses \cup {"none"}] /\ stamps \in [Gifts -> SUBSET Phases]
      /\ seen \in [Gifts -> SUBSET Facts]
      /\ \A g \in Gifts : InOrder(stamps[g]) /\ Behind(status[g]) \subseteq stamps[g]
      /\ \A g \in Gifts : stamps[g] \subseteq Phases
      /\ \A g \in Rows : g \in Gifts /\ status[g] \in Statuses
  BY GiftTyped, AddressBookAssumption DEF GiftInv, GiftTypeOK, PhasesInOrder, InOrder, Rows
<1>1. BookInv'
  BY BookStays DEF ConfirmAddress, Cancel, StoreWrite, RegisterParcel, MirrorDelivered,
                   SweepVisit, ReceiverViews, OpenRead, SweepWrite
<1>2. ASSUME NEW a \in Callers, act[a].pc \notin {"idle", "guards", "insert"}
      PROVE  /\ Subject(a) \in Rows /\ Past(act[a].pc) \subseteq stamps[Subject(a)]
             /\ act[a] \in ActRows /\ act[a].addr \in 0..NAddresses
  <2>1. act[a] \in ActRows /\ HoldsReady(act[a])
    BY GiftTyped
  <2> QED
    BY <1>2, <2>1 DEF HoldsReady, Subject, ActRows
\* A refused write, and one that leaves the gift's row alone.
<1>3. ASSUME NEW a \in Callers, NEW r \in ActRows, HoldsReady(r), act' = [act EXCEPT ![a] = r],
             UNCHANGED <<status, payload, pinned, stamps, overdue, seen, misanswered>>,
             parcel' \in [Gifts -> {"none", "registered", "delivered"}]
      PROVE  GiftInv'
  BY <1>0, <1>1, <1>3, LoadKeepsGiftInv
\* A receiver confirms, or the sweep does it.
<1>4. ASSUME NEW a \in Callers, NEW s \in {"address_confirmed", "default_address_used"},
             NEW what, what = View(Subject(a), s) \/ what = Body(Subject(a), s),
             act[a].pc \notin {"idle", "guards", "insert"}, act' = [act EXCEPT ![a] = NoAct],
             s \in Unaccepted => status[Subject(a)] = "pending_address",
             status' = [status EXCEPT ![Subject(a)] = s],
             pinned' = [pinned EXCEPT ![Subject(a)] = act[a].addr],
             stamps' = [stamps EXCEPT ![Subject(a)] = @ \cup {"confirmed"}],
             Show(Subject(a), what), UNCHANGED <<payload, overdue, parcel, misanswered>>
      PROVE  GiftInv'
  <2> DEFINE g == Subject(a)
             st == {"confirmed"}
  <2>1. g \in Rows /\ g \in Gifts /\ act[a].addr \in 0..NAddresses /\ s \in Statuses /\ st \in SUBSET Phases
    BY <1>0, <1>2, <1>4 DEF Statuses, Phases
  <2>2. Behind(s) \subseteq stamps[g] \cup st
    BY DEF Behind
  <2>3. InOrder(stamps[g] \cup st)
    BY <1>0, <2>1 DEF InOrder
  <2>4. what \in SUBSET Facts /\ MayShow(g, what, stamps[g] \cup st)
    BY <1>4, <2>2, ShownIsAllowed
  <2>5. pinned' \in [Gifts -> 0..NAddresses]
    BY <1>0, <1>4, <2>1
  <2>6. seen' = [seen EXCEPT ![g] = @ \cup what]
    BY <1>4 DEF Show
  <2>7. status' = [status EXCEPT ![g] = s] /\ stamps' = [stamps EXCEPT ![g] = @ \cup st]
    BY <1>4
  <2>8. s \in Unaccepted => "preparing" \notin stamps[g] \cup st
    BY <1>4, <2>1 DEF GiftInv, Unaccepted
  <2> HIDE DEF g, st
  <2> QED
    BY <1>0, <1>1, <1>4, <2>1, <2>2, <2>3, <2>4, <2>5, <2>6, <2>7, <2>8, WriteKeepsGiftInv
\* A gift is only shown.
<1>5. ASSUME NEW g \in Rows, NEW what \in SUBSET Facts, MayShow(g, what, stamps[g]),
             act' = act, Show(g, what),
             UNCHANGED <<status, stamps, pinned, payload, overdue, parcel, misanswered>>
      PROVE  GiftInv'
  <2> DEFINE st == {}
             now == status[g]
  <2>1. /\ g \in Gifts /\ now \in Statuses /\ st \in SUBSET Phases
        /\ status' = [status EXCEPT ![g] = now] /\ stamps' = [stamps EXCEPT ![g] = @ \cup st]
        /\ Behind(now) \subseteq stamps[g] \cup st /\ stamps[g] \cup st = stamps[g]
        /\ InOrder(stamps[g] \cup st)
    BY <1>0, <1>5
  <2>2. /\ MayShow(g, what, stamps[g] \cup st)
        /\ now \in Unaccepted => "preparing" \notin stamps[g] \cup st
    BY <1>5, <2>1 DEF GiftInv
  <2>3. seen' = [seen EXCEPT ![g] = @ \cup what] /\ act' = [act EXCEPT ![Sweep] = act[Sweep]]
    BY <1>0, <1>5 DEF Show
  <2>4. act[Sweep] \in ActRows /\ HoldsReady(act[Sweep])
    BY GiftTyped
  <2> HIDE DEF st, now
  <2> QED
    BY <1>0, <1>1, <1>5, <2>1, <2>2, <2>3, <2>4, WriteKeepsGiftInv
<1>6. ASSUME NEW a \in Parties, ConfirmAddress(a) PROVE GiftInv'
  BY <1>0, <1>3, <1>4, <1>6 DEF ConfirmAddress, In, Finish, Unaccepted
<1>7. ASSUME NEW a \in Parties, Cancel(a) PROVE GiftInv'
  <2> DEFINE g == Subject(a)
             st == {}
             what == Body(g, "cancelled")
  <2>1. /\ a \in Callers /\ act' = [act EXCEPT ![a] = NoAct] /\ act[a].pc = "cancel"
        /\ UNCHANGED <<payload, pinned, stamps, overdue, parcel, misanswered>>
    BY <1>0, <1>7 DEF Cancel, Finish, In
  <2>2. CASE ~StillCancellable(g)
    BY <1>0, <1>3, <1>7, <2>1, <2>2 DEF Cancel
  <2>3. CASE StillCancellable(g)
    <3>1. /\ g \in Rows /\ g \in Gifts /\ "cancelled" \in Statuses /\ st \in SUBSET Phases
          /\ status' = [status EXCEPT ![g] = "cancelled"] /\ seen' = [seen EXCEPT ![g] = @ \cup what]
      BY <1>0, <1>2, <1>7, <2>1, <2>3 DEF Cancel, Show, Statuses
    <3>2. Behind("cancelled") = {} /\ "cancelled" \notin Unaccepted
      BY DEF Behind, Unaccepted
    <3>3. /\ stamps' = [stamps EXCEPT ![g] = @ \cup st] /\ InOrder(stamps[g] \cup st)
          /\ Behind("cancelled") \subseteq stamps[g] \cup st
      BY <1>0, <2>1, <3>1, <3>2
    <3>4. what \in SUBSET Facts /\ MayShow(g, what, stamps[g] \cup st)
      BY <3>3, ShownIsAllowed
    <3> HIDE DEF g, st, what
    <3> QED
      BY <1>0, <1>1, <2>1, <3>1, <3>2, <3>3, <3>4, WriteKeepsGiftInv
  <2> QED
    BY <2>2, <2>3
<1>8. ASSUME NEW a \in Parties, StoreWrite(a) \/ MirrorDelivered(a) PROVE GiftInv'
  <2> DEFINE g == Subject(a)
             to == IF act[a].pc = "mirror" THEN "delivered" ELSE act[a].pc
             st == {to}
             what == IF act[a].pc = "mirror" THEN {} ELSE Body(g, to)
             after == [act[a] EXCEPT !.pc = "parcel"]
  <2>1. /\ a \in Callers /\ act[a].pc \in {"preparing", "shipped", "delivered", "mirror"}
        /\ UNCHANGED <<payload, pinned, overdue, parcel, misanswered>>
    BY <1>0, <1>8 DEF StoreWrite, MirrorDelivered, In
  <2>2. /\ g \in Rows /\ g \in Gifts /\ act[a] \in ActRows /\ Past(act[a].pc) \subseteq stamps[g]
    BY <1>0, <1>2, <2>1
  <2>3. /\ to \in Statuses /\ to \in {"preparing", "shipped", "delivered"} /\ st \in SUBSET Phases
        /\ to \notin Unaccepted
    BY <2>1 DEF Statuses, Phases, Unaccepted
  <2>4. Behind(to) \subseteq stamps[g] \cup st
    BY <2>1, <2>2 DEF Behind, Past
  <2>5. InOrder(stamps[g] \cup st)
    BY <1>0, <2>1, <2>2 DEF InOrder, Past
  <2>6. what \in SUBSET Facts /\ MayShow(g, what, stamps[g] \cup st)
    BY <2>4, ShownIsAllowed DEF MayShow
  <2>7. /\ status' = [status EXCEPT ![g] = to] /\ stamps' = [stamps EXCEPT ![g] = @ \cup st]
        /\ seen' = [seen EXCEPT ![g] = @ \cup what]
    BY <1>0, <1>8 DEF StoreWrite, MirrorDelivered, In, Show
  <2>8. after \in ActRows /\ HoldsReady(after)
    <3>1. after \in ActRows /\ after.gift = g /\ after.pc = "parcel"
      BY <2>2 DEF ActRows, Subject
    <3> QED
      BY <2>2, <3>1 DEF HoldsReady, Past
  <2>9. act' = [act EXCEPT ![a] = NoAct] \/ act' = [act EXCEPT ![a] = after]
    BY <1>8 DEF StoreWrite, MirrorDelivered, Finish
  <2>10. pinned' \in [Gifts -> 0..NAddresses]
    BY <1>0, <2>1
  <2> HIDE DEF g, to, st, what, after
  <2>11. \E q \in ActRows : HoldsReady(q) /\ act' = [act EXCEPT ![a] = q]
    BY <1>0, <2>8, <2>9
  <2> QED
    BY <1>1, <2>1, <2>2, <2>3, <2>4, <2>5, <2>6, <2>7, <2>10, <2>11, WriteKeepsGiftInv
<1>9. ASSUME NEW a \in Parties, RegisterParcel(a) PROVE GiftInv'
  BY <1>0, <1>3, <1>9 DEF RegisterParcel, Finish
<1>10. ASSUME NEW g \in Gifts, SweepVisit(g) PROVE GiftInv'
  <2>1. g \in Rows /\ Behind("pending_address") \subseteq stamps[g] /\ Past("sweep") \subseteq stamps[g]
    BY <1>10 DEF SweepVisit, Rows, Behind, Past
  <2>2. CASE Eligible(g) # {}
    <3> DEFINE i == Preferred(g)
               r == [pc |-> "sweep", gift |-> g, addr |-> i, body |-> "none"]
               S == IF Eligible(g) \cap Defaults # {} THEN Eligible(g) \cap Defaults ELSE Eligible(g)
    <3>1. S # {} /\ S \in SUBSET AddressIds
      BY <2>2 DEF Eligible, Saved
    <3>2. i \in AddressIds
      <4>1. i = Min(S)
        BY DEF Preferred
      <4> HIDE DEF S, i
      <4> QED
        BY <3>1, <4>1, OldestAndNewest
    <3>3. i \in 0..NAddresses
      BY <3>2, BookTyped DEF GiftInv
    <3>4. /\ act' = [act EXCEPT ![Sweep] = r]
          /\ UNCHANGED <<status, payload, pinned, stamps, overdue, seen, misanswered, parcel>>
      BY <1>10, <2>2 DEF SweepVisit, Start
    <3> HIDE DEF i
    <3>5. r \in ActRows /\ HoldsReady(r)
      BY <2>1, <3>3, ReadyRow
    <3> HIDE DEF r
    <3> QED
      BY <1>0, <1>3, <3>4, <3>5
  <2>3. CASE Eligible(g) = {}
    <3> DEFINE what == IF Saved = {} THEN {} ELSE Body(g, "pending_address")
    <3>1. /\ act' = act /\ Show(g, what)
          /\ UNCHANGED <<status, stamps, pinned, payload, overdue, parcel, misanswered>>
      BY <1>10, <2>3 DEF SweepVisit
    <3>2. what \in SUBSET Facts /\ MayShow(g, what, stamps[g])
      BY <2>1, ShownIsAllowed DEF MayShow
    <3> HIDE DEF what
    <3> QED
      BY <1>5, <2>1, <3>1, <3>2
  <2> QED
    BY <2>2, <2>3
<1>11. ASSUME NEW g \in Gifts, ReceiverViews(g) PROVE GiftInv'
  <2>1. /\ g \in Rows /\ Behind(status[g]) \subseteq stamps[g] /\ Show(g, View(g, status[g]))
        /\ act' = act /\ UNCHANGED <<status, stamps, pinned, payload, overdue, parcel, misanswered>>
    BY <1>0, <1>11 DEF ReceiverViews
  <2>2. View(g, status[g]) \in SUBSET Facts /\ MayShow(g, View(g, status[g]), stamps[g])
    BY <2>1, ShownIsAllowed
  <2> QED
    BY <1>5, <2>1, <2>2
\* A path without a mask tells no message.
<1>13. ASSUME NEW g \in Gifts, OpenRead(g) PROVE GiftInv'
  <2>1. /\ g \in Rows /\ act' = act
        /\ UNCHANGED <<status, stamps, pinned, payload, overdue, parcel, misanswered>>
    BY <1>13 DEF OpenRead, Rows
  <2>2. PICK what \in {{"openName"}, {"openName", "trace"}, {"trace"}} : Show(g, what)
    <3>1. \A ids \in SUBSET {"trace"} : {"openName"} \cup ids \in {{"openName"}, {"openName", "trace"}}
      <4>1. \A ids \in SUBSET {"trace"} : ids = {} \/ ids = {"trace"}
        OBVIOUS
      <4> QED
        BY <4>1
    <3> QED
      BY <1>13, <3>1, Zenon DEF OpenRead
  <2>3. what \in SUBSET Facts /\ MayShow(g, what, stamps[g])
    BY <2>2 DEF MayShow, Facts
  <2> QED
    BY <1>5, <2>1, <2>2, <2>3
<1>12. CASE SweepWrite
  BY <1>0, <1>3, <1>4, <1>12 DEF SweepWrite, In, Finish, StillPending
<1> QED
  BY <1>6, <1>7, <1>8, <1>9, <1>10, <1>11, <1>12, <1>13

\* No gift and no address yet.
LEMMA GiftInitHasInv ==
    ASSUME GiftInit
    PROVE  GiftInv
<1>1. 0 \in 0..NAddresses
  BY AddressBookAssumption
<1>2. BookInv
  <2>1. NoCall \in CallRows
    BY <1>1 DEF NoCall, CallRows
  <2>2. BookTypeOK
    BY <2>1 DEF GiftInit, BookInit, BookTypeOK, CallRows
  <2>3. Saved = {} /\ \A c \in OwnerCalls : call[c].pc = "idle"
    BY DEF GiftInit, BookInit, Saved, NoCall
  <2> QED
    BY <2>2, <2>3 DEF BookInv, OwnerCallFits
<1>3. GiftTypeOK
  <2>1. NoAct \in ActRows
    BY <1>1 DEF NoAct, ActRows
  <2> QED
    BY <1>1, <2>1 DEF GiftInit, GiftTypeOK, ActRows
<1>4. Rows = {} /\ ~misanswered /\ \A a \in Callers : ActFits(a)
  BY DEF GiftInit, Rows, ActFits, NoAct
<1>5. \A g \in Gifts : Behind(status[g]) \subseteq stamps[g]
  BY DEF GiftInit, Behind
<1>6. PhasesInOrder /\ SurpriseKept /\ \A g \in Gifts : "preparing" \notin stamps[g]
  BY DEF GiftInit, PhasesInOrder, SurpriseKept
<1> QED
  BY <1>2, <1>3, <1>4, <1>5, <1>6 DEF GiftInv

\* Every step of sender, receiver, store, sweep and owner keeps the invariant.
LEMMA GiftKeepsInv ==
    ASSUME GiftInv, [GiftNext]_giftVars
    PROVE  GiftInv'
<1>1. CASE GiftNext
  BY <1>1, AsideKeepsGiftInv, LoadsKeepGiftInv, CreateKeepsGiftInv, WritesKeepGiftInv DEF GiftNext
<1>2. CASE UNCHANGED giftVars
  <2>1. BookInv' /\ UNCHANGED <<status, stamps, seen, payload, misanswered, pinned, overdue, parcel, act>>
    BY <1>2, BookStays DEF giftVars, giftTables
  <2>2. /\ Sweep \in Callers /\ act[Sweep] \in ActRows /\ HoldsReady(act[Sweep])
        /\ act' = [act EXCEPT ![Sweep] = act[Sweep]]
    BY <2>1, GiftTyped
  <2> QED
    BY <2>1, <2>2, LoadKeepsGiftInv DEF GiftInv, GiftTypeOK
<1> QED
  BY <1>1, <1>2

\* The inductive invariant of gifts.service.ts over addresses.service.ts: what a
\* request has read as ready stays stamped, whatever was written since.
THEOREM GiftInvariant == GiftSpec => []GiftInv
<1>1. GiftInit => GiftInv
  BY GiftInitHasInv
<1>2. GiftInv /\ [GiftNext]_giftVars => GiftInv'
  BY GiftKeepsInv
<1> QED
  BY <1>1, <1>2, PTL DEF GiftSpec

\* One gift per idempotency key, phases in order and one default address for an
\* owner whose requests do not overlap: for any number of gifts, addresses and
\* parallel requests.
THEOREM GiftsOrderly == GiftSpec => []GiftsAreOrderly
<1>1. ASSUME GiftInv PROVE GiftsAreOrderly
  <2>1. Cardinality(Rows) <= 1
    <3>1. CASE Rows = {}
      BY <3>1, FS_EmptySet
    <3>2. CASE Rows # {}
      <4>1. PICK g \in Rows : TRUE
        BY <3>2
      <4>2. Rows = {g}
        BY <1>1, <4>1 DEF GiftInv
      <4>3. Cardinality({g}) = 1
        BY FS_Singleton
      <4> QED
        BY <4>2, <4>3
    <3> QED
      BY <3>1, <3>2
  <2>2. OneDefaultKept
    <3>1. overlapped \/ Saved = {} \/ \E i \in AddressIds : Defaults = {i}
      BY <1>1 DEF GiftInv, BookInv
    <3> QED
      BY <3>1, FS_Singleton DEF OneDefaultKept
  <2> QED
    BY <1>1, <2>1, <2>2 DEF GiftInv, BookInv, GiftsAreOrderly, OneGiftPerKey
<1> QED
  BY <1>1, GiftInvariant, PTL

\* Before a gift's delivery no path tells a message, and of a surprise no
\* notification and no view behind applyGiftVisibility tells the names.
THEOREM SurprisesKept == GiftSpec => []SurpriseKept
<1>1. GiftInv => SurpriseKept
  BY DEF GiftInv
<1> QED
  BY <1>1, GiftInvariant, PTL

\* The steps of a gift that leave every status as it is.
LEMMA StatusStays ==
    ASSUME \/ UNCHANGED giftVars \/ (BookNext /\ UNCHANGED <<giftTables, act>>)
           \/ \E c \in OwnerCalls : AddressGone(c)
           \/ \E a \in Parties : \/ \E b \in Bodies : CreateLookup(a, b)
                                 \/ CreateGuards(a) \/ RegisterParcel(a)
           \/ \E a \in Parties, h \in Gifts :
                 \/ ConfirmAddressLoad(a, h) \/ CancelLoad(a, h)
                 \/ \E to \in Statuses : StoreLoad(a, h, to)
                 \/ \E s \in {"registered", "delivered"} : ShipmentEvent(a, h, s)
           \/ \E h \in Gifts : \/ UpsertShipment(h) \/ BecomesOverdue(h) \/ SweepVisit(h)
                               \/ ReceiverViews(h) \/ OpenRead(h)
    PROVE  status' = status
  BY DEF giftVars, giftTables, AddressGone, CreateLookup, CreateGuards, RegisterParcel,
         ConfirmAddressLoad, CancelLoad, StoreLoad, ShipmentEvent, UpsertShipment,
         BecomesOverdue, SweepVisit, ReceiverViews, OpenRead

\* What a step may do to the status of a gift some store has accepted.
LEMMA AcceptedMoves ==
    ASSUME GiftInv, [GiftNext]_giftVars, NEW g \in Gifts, "preparing" \in stamps[g]
    PROVE  \/ status'[g] = status[g]
           \/ status'[g] \in {"preparing", "shipped", "delivered"}
           \/ status'[g] = "cancelled" /\ status[g] = "address_confirmed"
           \/ \E a \in Parties : In(a, "confirm") /\ Subject(a) = g /\ status'[g] = "address_confirmed"
<1>1. status \in [Gifts -> Statuses \cup {"none"}] /\ status[g] \notin Unaccepted
  BY GiftTyped DEF GiftInv
<1>2. ASSUME NEW h \in Gifts, NEW s, h # g, status' = [status EXCEPT ![h] = s]
      PROVE  status'[g] = status[g]
  BY <1>1, <1>2
<1>3. ASSUME NEW s, status' = [status EXCEPT ![g] = s] PROVE status'[g] = s
  BY <1>1, <1>3
<1>4. ASSUME NEW a \in Callers, act[a].pc \notin {"idle", "guards", "insert"} PROVE Subject(a) \in Gifts
  BY <1>4, GiftTyped DEF HoldsReady, Subject
<1>5. ASSUME NEW a \in Parties, Cancel(a)
      PROVE  status'[g] = status[g] \/ (status'[g] = "cancelled" /\ status[g] = "address_confirmed")
  <2>1. CASE Subject(a) = g /\ StillCancellable(g)
    <3>1. status[g] = "address_confirmed"
      BY <1>1, <2>1 DEF StillCancellable, Cancellable, Unaccepted
    <3> QED
      BY <1>3, <1>5, <2>1, <3>1 DEF Cancel
  <2>2. CASE ~StillCancellable(Subject(a))
    BY <1>5, <2>2 DEF Cancel
  <2>3. CASE Subject(a) # g /\ StillCancellable(Subject(a))
    BY <1>2, <1>4, <1>5, <2>3, GiftTyped DEF Cancel, In
  <2> QED
    BY <2>1, <2>2, <2>3
<1>6. ASSUME NEW a \in Parties, CreateInsert(a) PROVE status'[g] = status[g]
  <2>1. g \in Rows
    BY <1>1 DEF Rows, Unaccepted
  <2> QED
    BY <1>2, <1>6, <2>1 DEF CreateInsert
<1>7. ASSUME NEW a \in Parties, ConfirmAddress(a)
      PROVE  \/ status'[g] = status[g]
             \/ In(a, "confirm") /\ Subject(a) = g /\ status'[g] = "address_confirmed"
  <2>1. Subject(a) \in Gifts /\ In(a, "confirm")
    BY <1>4, <1>7, GiftTyped DEF ConfirmAddress, In
  <2> QED
    BY <1>2, <1>3, <1>7, <2>1 DEF ConfirmAddress
<1>8. ASSUME NEW a \in Parties, StoreWrite(a) \/ MirrorDelivered(a)
      PROVE  status'[g] = status[g] \/ status'[g] \in {"preparing", "shipped", "delivered"}
  <2>1. /\ Subject(a) \in Gifts
        /\ \E s \in {"preparing", "shipped", "delivered"} : status' = [status EXCEPT ![Subject(a)] = s]
    BY <1>4, <1>8, GiftTyped DEF StoreWrite, MirrorDelivered, In
  <2> QED
    BY <1>2, <1>3, <2>1
<1>9. CASE SweepWrite
  <2>1. Subject(Sweep) \in Gifts
    BY <1>4, <1>9, GiftTyped DEF SweepWrite, In
  <2>2. CASE StillPending(Subject(Sweep))
    <3>1. Subject(Sweep) # g
      BY <1>1, <2>2 DEF StillPending, Unaccepted
    <3> QED
      BY <1>2, <1>9, <2>1, <3>1 DEF SweepWrite
  <2>3. CASE ~StillPending(Subject(Sweep))
    BY <1>9, <2>3 DEF SweepWrite
  <2> QED
    BY <2>2, <2>3
<1> QED
  BY <1>5, <1>6, <1>7, <1>8, <1>9, StatusStays DEF GiftNext

\* A gift that a store has accepted is taken back among the cancellable ones by
\* nothing but a confirmation checked before the acceptance: the sweep and the
\* cancellation write under a status filter, confirmAddress does not.
THEOREM AcceptedGiftsStay == GiftSpec => AcceptedNotCancelled
<1>1. ASSUME GiftInv, [GiftNext]_giftVars, NEW g \in Gifts, "preparing" \in stamps[g]
      PROVE  /\ status'[g] = "cancelled" => status[g] \in {"cancelled", "address_confirmed"}
             /\ status'[g] \in Cancellable /\ status[g] \notin Cancellable
                   => \E a \in Parties : In(a, "confirm") /\ Subject(a) = g
  BY <1>1, AcceptedMoves DEF Cancellable
<1> QED
  <2>1. GiftInv /\ [GiftNext]_giftVars
          => [\A g \in Gifts : "preparing" \in stamps[g] =>
                /\ status'[g] = "cancelled" => status[g] \in {"cancelled", "address_confirmed"}
                /\ status'[g] \in Cancellable /\ status[g] \notin Cancellable
                      => \E a \in Parties : In(a, "confirm") /\ Subject(a) = g]_giftVars
    BY <1>1
  <2> QED
    BY <2>1, GiftInvariant, PTL DEF GiftSpec, AcceptedNotCancelled

-----------------------------------------------------------------------------
(***************************************************************************)
(* The wishlist, the gifts that fulfil it and the posts that share them:   *)
(* the counters beside their rows.                                         *)
(***************************************************************************)

\* Before the first request nothing is counted and nothing is shown.
LEMMA WallInitInv == WallInit => WallInv
<1> SUFFICES ASSUME WallInit PROVE WallInv
  OBVIOUS
<1> USE WallAssumption DEF WallInit
<1>1. NoTap \in TapRows /\ NoTap.pc = "idle" /\ NoPost \in PostRows /\ ~NoPost.published /\ ~NoPost.exists
  BY DEF NoTap, NoPost, TapRows, PostRows
<1>2. WallTypeOK
  BY DEF WallTypeOK
<1>3. WallRows
  BY <1>1 DEF WallRows, TapFits, OfAGift, GiftHooks, Sharing, Withdrawing
<1>4. \A t \in Taps : tap[t].pc = "idle"
  BY <1>1
<1>5. Counting = {} /\ Uncounting = {} /\ Giving = {} /\ Ungiving = {}
  BY <1>4 DEF Counting, Uncounting, Giving, Ungiving
<1>6. Cardinality({}) = 0
  BY FS_EmptySet
<1>7. Hearted = {} /\ LiveGifts = {} /\ \A g \in Presents : {f \in Fans : <<g, f>> \in liked} = {}
  BY DEF Hearted, LiveGifts
<1>8. HeartsBalance /\ GiftsBalance
  BY <1>5, <1>6, <1>7 DEF HeartsBalance, GiftsBalance
<1>9. AppreciationsCounted
  BY <1>6, <1>7 DEF AppreciationsCounted
<1>10. HeartsAlone
  BY <1>4 DEF HeartsAlone, Hearting
<1>11. PostsSwept
  BY <1>1 DEF PostsSwept
<1> QED
  BY <1>2, <1>3, <1>8, <1>9, <1>10, <1>11 DEF WallInv

\* The invariant gives what the run checks: with nobody between a row and its
\* count, the balances are the counts.
LEMMA WallInvImplies == WallInv => WallAgrees
<1> SUFFICES ASSUME WallInv PROVE WallAgrees
  OBVIOUS
<1>1. Cardinality({}) = 0
  BY FS_EmptySet
<1>2. HeartsCounted
  <2> SUFFICES ASSUME Quiet, crossed = {}
               PROVE  hearts = Cardinality({f \in Fans : wish[f] # "none"})
    BY DEF HeartsCounted
  <2>1. Counting = {} /\ Uncounting = {}
    BY DEF Quiet, Hearting, Counting, Uncounting
  <2> QED
    BY <1>1, <2>1 DEF WallInv, HeartsBalance, Hearted, WallTypeOK
<1>3. GiftedCounted
  <2> SUFFICES ASSUME \A t \in Taps : tap[t].pc \notin {"fulfil", "gifted", "unfulfil", "ungifted"}
               PROVE  gifted + slipped = Cardinality({g \in Presents : present[g] = "live"})
    BY DEF GiftedCounted
  <2>1. Giving = {} /\ Ungiving = {}
    BY DEF Giving, Ungiving
  <2>2. gifted \in Int /\ slipped \in Int
    BY DEF WallInv, WallTypeOK, WallRows
  <2> QED
    BY <1>1, <2>1, <2>2 DEF WallInv, GiftsBalance, LiveGifts
<1>4. CancelledNotShown
  BY DEF WallInv, PostsSwept, Withdrawing, CancelledNotShown, Visible
<1> QED
  BY <1>2, <1>3, <1>4 DEF WallInv, WallAgrees

\* Any tap may be replaced by a row that fits it.
LEMMA TapReplaced ==
    ASSUME WallRows, NEW t \in Taps, NEW r, TapFits(r), TapGoes(t, r)
    PROVE  /\ \A u \in Taps : TapFits(tap'[u]) /\ tap'[u] = IF u = t THEN r ELSE tap[u]
           /\ tap' \in [Taps -> TapRows]
  BY DEF WallRows, TapGoes, TapFits

\* The rows a request may take: a fresh one, or the old one at another place.
LEMMA FreshTapFits ==
    ASSUME WallRows
    PROVE  /\ TapFits(NoTap)
           /\ \A f \in Fans, b \in BOOLEAN : TapFits([NoTap EXCEPT !.pc = "upsert", !.fan = f, !.found = b])
           /\ \A f \in Fans : TapFits([NoTap EXCEPT !.pc = "delete", !.fan = f])
           /\ \A g \in Presents, pc \in OfAGift : TapFits([NoTap EXCEPT !.pc = pc, !.gift = g])
           /\ \A g \in Presents, f \in Fans : TapFits([NoTap EXCEPT !.pc = "like", !.fan = f, !.gift = g])
  BY WallAssumption DEF TapFits, NoTap, TapRows, OfAGift, GiftHooks, Sharing, Withdrawing, Hearting

\* A request that works on a gift may go on to any other place.
LEMMA MovedTapFits ==
    ASSUME WallRows, NEW t \in Taps
    PROVE  /\ tap[t].pc \in OfAGift => \A pc \in OfAGift : TapFits([tap[t] EXCEPT !.pc = pc])
           /\ \A pc \in Hearting : TapFits([tap[t] EXCEPT !.pc = pc])
<1>1. tap[t] \in TapRows /\ TapFits(tap[t])
  BY DEF WallRows
<1>2. \A pc \in OfAGift \cup Hearting : [tap[t] EXCEPT !.pc = pc] \in TapRows
  BY <1>1 DEF TapRows
<1>3. \A pc \in OfAGift \cup Hearting :
         [tap[t] EXCEPT !.pc = pc].pc = pc /\ [tap[t] EXCEPT !.pc = pc].gift = tap[t].gift
  BY <1>1 DEF TapRows
<1>4. \A pc \in Hearting : pc \notin OfAGift
  BY DEF Hearting, OfAGift, GiftHooks, Sharing, Withdrawing
<1> QED
  BY <1>1, <1>2, <1>3, <1>4 DEF TapFits

-----------------------------------------------------------------------------
\* The requests at some places are the same as before, and stand as they stood.
Aside(pcs) == \A t \in Taps : tap'[t] = tap[t] \/ (tap[t].pc \notin pcs /\ tap'[t].pc \notin pcs)

\* What a step does that has nothing to do with the hearts, with the gifts and
\* their count, with the posts, or with the appreciations.
LeavesHearts ==
    /\ UNCHANGED <<hearts, crossed>> /\ Aside(Hearting)
    /\ \A f \in Fans : wish'[f] = "none" <=> wish[f] = "none"
LeavesGifts == UNCHANGED <<present, gifted, slipped>> /\ Aside(GiftHooks)
LeavesPosts == UNCHANGED <<present, post, raced>> /\ Aside(Sharing \cup Withdrawing)
LeavesLikes == UNCHANGED <<liked, likes>>

\* Where everybody stands when one request has moved.
LEMMA TapCounts ==
    ASSUME WallRows, NEW t \in Taps, NEW r, TapFits(r), TapGoes(t, r)
    PROVE  /\ Cardinality(Counting') = Cardinality(Counting)
                 + (IF r.pc = "count" THEN 1 ELSE 0) - (IF tap[t].pc = "count" THEN 1 ELSE 0)
           /\ Cardinality(Uncounting') = Cardinality(Uncounting)
                 + (IF r.pc = "uncount" THEN 1 ELSE 0) - (IF tap[t].pc = "uncount" THEN 1 ELSE 0)
           /\ Cardinality(Giving') = Cardinality(Giving)
                 + (IF r.pc \in {"fulfil", "gifted"} THEN 1 ELSE 0)
                 - (IF tap[t].pc \in {"fulfil", "gifted"} THEN 1 ELSE 0)
           /\ Cardinality(Ungiving') = Cardinality(Ungiving)
                 + (IF r.pc \in {"unfulfil", "ungifted"} THEN 1 ELSE 0)
                 - (IF tap[t].pc \in {"unfulfil", "ungifted"} THEN 1 ELSE 0)
           /\ Cardinality(Counting) \in Nat /\ Cardinality(Uncounting) \in Nat
           /\ Cardinality(Giving) \in Nat /\ Cardinality(Ungiving) \in Nat
<1>1. \A u \in Taps : tap'[u] = IF u = t THEN r ELSE tap[u]
  BY TapReplaced
<1>2. IsFiniteSet(Counting) /\ IsFiniteSet(Uncounting) /\ IsFiniteSet(Giving) /\ IsFiniteSet(Ungiving)
  BY WallAssumption, FS_Subset DEF Counting, Uncounting, Giving, Ungiving
<1>3. Counting \ {t} = Counting' \ {t} /\ (t \in Counting <=> tap[t].pc = "count") /\ (t \in Counting' <=> r.pc = "count")
  BY <1>1 DEF Counting
<1>4. Uncounting \ {t} = Uncounting' \ {t} /\ (t \in Uncounting <=> tap[t].pc = "uncount") /\ (t \in Uncounting' <=> r.pc = "uncount")
  BY <1>1 DEF Uncounting
<1>5. /\ Giving \ {t} = Giving' \ {t} /\ (t \in Giving <=> tap[t].pc \in {"fulfil", "gifted"})
      /\ (t \in Giving' <=> r.pc \in {"fulfil", "gifted"})
  BY <1>1 DEF Giving
<1>6. /\ Ungiving \ {t} = Ungiving' \ {t} /\ (t \in Ungiving <=> tap[t].pc \in {"unfulfil", "ungifted"})
      /\ (t \in Ungiving' <=> r.pc \in {"unfulfil", "ungifted"})
  BY <1>1 DEF Ungiving
<1>7. /\ Cardinality(Counting) \in Nat
      /\ Cardinality(Counting') = Cardinality(Counting)
            + (IF t \in Counting' THEN 1 ELSE 0) - (IF t \in Counting THEN 1 ELSE 0)
  BY <1>2, <1>3, SizeMoves
<1>8. /\ Cardinality(Uncounting) \in Nat
      /\ Cardinality(Uncounting') = Cardinality(Uncounting)
            + (IF t \in Uncounting' THEN 1 ELSE 0) - (IF t \in Uncounting THEN 1 ELSE 0)
  BY <1>2, <1>4, SizeMoves
<1>9. /\ Cardinality(Giving) \in Nat
      /\ Cardinality(Giving') = Cardinality(Giving)
            + (IF t \in Giving' THEN 1 ELSE 0) - (IF t \in Giving THEN 1 ELSE 0)
  BY <1>2, <1>5, SizeMoves
<1>10. /\ Cardinality(Ungiving) \in Nat
       /\ Cardinality(Ungiving') = Cardinality(Ungiving)
             + (IF t \in Ungiving' THEN 1 ELSE 0) - (IF t \in Ungiving THEN 1 ELSE 0)
  BY <1>2, <1>6, SizeMoves
<1> QED
  BY <1>3, <1>4, <1>5, <1>6, <1>7, <1>8, <1>9, <1>10, Zenon

\* A step that leaves the hearts alone keeps their balance.
LEMMA HeartsLeft == WallInv /\ LeavesHearts => HeartsAlone' /\ HeartsBalance'
<1> SUFFICES ASSUME WallInv, LeavesHearts PROVE HeartsAlone' /\ HeartsBalance'
  OBVIOUS
<1>1. \A t \in Taps : tap'[t].pc \in Hearting \/ tap[t].pc \in Hearting => tap'[t] = tap[t]
  BY DEF LeavesHearts, Aside
<1>2. Counting' = Counting /\ Uncounting' = Uncounting
  BY <1>1 DEF Counting, Uncounting, Hearting
<1>3. Hearted' = Hearted
  BY DEF Hearted, LeavesHearts
<1>4. HeartsBalance'
  BY <1>2, <1>3 DEF WallInv, HeartsBalance, LeavesHearts
<1>5. ASSUME crossed' = {} PROVE HeartsAlone'
  <2>1. /\ \A t, u \in Taps : /\ tap[t].pc \in Hearting /\ tap[u].pc \in Hearting
                              /\ tap[t].fan = tap[u].fan
                              => t = u
        /\ \A t \in Taps : tap[t].pc = "upsert" => (tap[t].found <=> wish[tap[t].fan] # "none")
    BY <1>5 DEF WallInv, HeartsAlone, LeavesHearts
  <2>2. \A t \in Taps : tap[t].fan \in Fans
    BY DEF WallInv, WallRows, TapFits, TapRows
  <2>3. \A t \in Taps : tap'[t].pc = "upsert" => (tap'[t].found <=> wish'[tap'[t].fan] # "none")
    BY <1>1, <2>1, <2>2 DEF LeavesHearts, Hearting
  <2> QED
    BY <1>1, <2>1, <2>3 DEF HeartsAlone
<1> QED
  BY <1>4, <1>5 DEF HeartsAlone

\* A step that leaves the gifts alone keeps their balance.
LEMMA GiftsLeft == WallInv /\ LeavesGifts => GiftsBalance'
<1> SUFFICES ASSUME WallInv, LeavesGifts PROVE GiftsBalance'
  OBVIOUS
<1>1. Giving' = Giving /\ Ungiving' = Ungiving
  BY DEF Giving, Ungiving, LeavesGifts, Aside, GiftHooks
<1>2. LiveGifts' = LiveGifts
  BY DEF LiveGifts, LeavesGifts
<1> QED
  BY <1>1, <1>2 DEF WallInv, GiftsBalance, LeavesGifts

\* A step that leaves the posts alone keeps them swept.
LEMMA PostsLeft == WallInv /\ LeavesPosts => PostsSwept'
<1> SUFFICES ASSUME WallInv, LeavesPosts PROVE PostsSwept'
  OBVIOUS
<1>1. \A t \in Taps : tap'[t].pc \in Sharing \cup Withdrawing \/ tap[t].pc \in Sharing \cup Withdrawing => tap'[t] = tap[t]
  BY DEF LeavesPosts, Aside
<1>2. present' = present /\ post' = post /\ raced' = raced
  BY DEF LeavesPosts
<1> QED
  BY <1>1, <1>2 DEF WallInv, PostsSwept

\* The appreciations and their count move together or not at all.
LEMMA LikesLeft == WallInv /\ LeavesLikes => AppreciationsCounted'
  BY DEF WallInv, LeavesLikes, AppreciationsCounted

\* The types of the wall, for steps that move one request.
LEMMA TapTyped ==
    ASSUME WallInv, NEW t \in Taps, NEW r, TapFits(r), TapGoes(t, r),
           post' \in [Presents -> PostRows], raced' \subseteq Presents, slipped' \in Int
    PROVE  WallRows'
  BY TapReplaced DEF WallInv, WallRows

-----------------------------------------------------------------------------
\* A heart request that begins: nobody is counted yet.
LEMMA HeartBegins ==
    ASSUME WallInv, NEW t \in Taps, NEW f \in Fans, Heart(t, f) \/ Unheart(t, f)
    PROVE  WallTypeOK' /\ WallRows' /\ HeartsAlone' /\ HeartsBalance' /\ LeavesGifts /\ LeavesPosts /\ LeavesLikes
<1> DEFINE found == wish[f] # "none"
           r == IF Heart(t, f) THEN [NoTap EXCEPT !.pc = "upsert", !.fan = f, !.found = found]
                ELSE [NoTap EXCEPT !.pc = "delete", !.fan = f]
<1>1. /\ tap[t] = NoTap /\ TapGoes(t, r) /\ Crosses(f) /\ taps < MaxTaps /\ taps' = taps + 1
      /\ UNCHANGED <<productVars, postVars, raced>>
  BY DEF Heart, Unheart, NewTap
<1>2. WallRows /\ WallTypeOK /\ found \in BOOLEAN
  BY DEF WallInv
<1>3. TapFits(r)
  BY <1>2, FreshTapFits, Zenon
<1>4. r.pc \in {"upsert", "delete"} /\ r.fan = f /\ (r.pc = "upsert" => r.found = found)
  BY DEF NoTap
<1> HIDE DEF r, found
<1>5. \A u \in Taps : tap'[u] = IF u = t THEN r ELSE tap[u]
  BY <1>1, <1>2, <1>3, TapReplaced
<1>6. WallTypeOK' /\ WallRows'
  <2>1. WallRows'
    BY <1>1, <1>2, <1>3, TapTyped DEF WallRows, productVars, postVars
  <2> QED
    BY <1>1, <1>2, <2>1, WallAssumption DEF WallTypeOK, productVars, postVars
<1>7. LeavesGifts /\ LeavesPosts /\ LeavesLikes
  BY <1>1, <1>4, <1>5 DEF LeavesGifts, LeavesPosts, LeavesLikes, Aside, productVars, postVars, NoTap,
     GiftHooks, Sharing, Withdrawing
<1>8. Counting' = Counting /\ Uncounting' = Uncounting /\ Hearted' = Hearted /\ hearts' = hearts
  BY <1>1, <1>4, <1>5 DEF Counting, Uncounting, Hearted, NoTap, productVars
<1>9. ASSUME crossed' = {}
      PROVE  crossed = {} /\ \A u \in Taps : tap[u].pc \in Hearting => tap[u].fan # f
  BY <1>1, <1>9 DEF Crosses
<1>10. HeartsBalance'
  BY <1>8, <1>9 DEF WallInv, HeartsBalance
<1>11. ASSUME crossed' = {} PROVE HeartsAlone'
  <2>1. /\ \A x, u \in Taps : /\ tap[x].pc \in Hearting /\ tap[u].pc \in Hearting
                              /\ tap[x].fan = tap[u].fan
                              => x = u
        /\ \A x \in Taps : tap[x].pc = "upsert" => (tap[x].found <=> wish[tap[x].fan] # "none")
    BY <1>9, <1>11 DEF WallInv, HeartsAlone
  <2>2. wish' = wish
    BY <1>1 DEF productVars
  <2>3. \A x \in Taps : tap'[x].pc = "upsert" => (tap'[x].found <=> wish'[tap'[x].fan] # "none")
    BY <1>4, <1>5, <2>1, <2>2 DEF found
  <2>4. \A x, u \in Taps : /\ tap'[x].pc \in Hearting /\ tap'[u].pc \in Hearting
                           /\ tap'[x].fan = tap'[u].fan
                           => x = u
    BY <1>4, <1>5, <1>9, <1>11, <2>1
  <2> QED
    BY <2>3, <2>4 DEF HeartsAlone
<1> QED
  BY <1>6, <1>7, <1>10, <1>11 DEF HeartsAlone

\* Every later step of a heart request: the row, then the count.
LEMMA HeartGoesOn ==
    ASSUME WallInv, NEW t \in Taps,
           HeartUpsert(t) \/ HeartCount(t) \/ UnheartDelete(t) \/ UnheartCount(t)
    PROVE  WallTypeOK' /\ WallRows' /\ HeartsAlone' /\ HeartsBalance' /\ LeavesGifts /\ LeavesPosts /\ LeavesLikes
<1> DEFINE f == tap[t].fan
           r == IF HeartUpsert(t) /\ ~tap[t].found THEN [tap[t] EXCEPT !.pc = "count"]
                ELSE IF UnheartDelete(t) /\ wish[f] # "none" THEN [tap[t] EXCEPT !.pc = "uncount"]
                ELSE NoTap
<1>1. WallRows /\ WallTypeOK /\ tap[t] \in TapRows /\ f \in Fans
  BY DEF WallInv, WallRows, TapRows
<1>2. TapFits(r)
  BY <1>1, FreshTapFits, MovedTapFits DEF Hearting
<1>3. TapGoes(t, r) /\ tap[t].pc \in Hearting /\ crossed' = crossed
  BY DEF HeartUpsert, HeartCount, UnheartDelete, UnheartCount, CountsHeart, TapAt, TapEnds, Hearting
<1>4. r.pc \in {"idle", "count", "uncount"} /\ (r.pc # "idle" => r.fan = f)
  BY <1>1 DEF NoTap, TapRows
<1>5. UNCHANGED <<present, gifted, slipped, post, liked, likes, pinged, taps, raced>>
  BY DEF HeartUpsert, HeartCount, UnheartDelete, UnheartCount, postVars
<1>6. \/ /\ tap[t].pc = "upsert" /\ wish' = [wish EXCEPT ![f] = "live"] /\ hearts' = hearts
         /\ r.pc = IF tap[t].found THEN "idle" ELSE "count"
      \/ tap[t].pc = "count" /\ hearts' = hearts + 1 /\ r.pc = "idle" /\ wish' = wish
      \/ /\ tap[t].pc = "delete" /\ wish[f] = "none" /\ wish' = wish /\ hearts' = hearts /\ r.pc = "idle"
      \/ /\ tap[t].pc = "delete" /\ wish[f] # "none" /\ wish' = [wish EXCEPT ![f] = "none"]
         /\ hearts' = hearts /\ r.pc = "uncount"
      \/ tap[t].pc = "uncount" /\ hearts' = hearts - 1 /\ r.pc = "idle" /\ wish' = wish
  BY <1>1 DEF HeartUpsert, HeartCount, UnheartDelete, UnheartCount, NoTap, TapRows
<1> HIDE DEF r, f
<1>7. \A u \in Taps : tap'[u] = IF u = t THEN r ELSE tap[u]
  BY <1>1, <1>2, <1>3, TapReplaced
<1>8. WallTypeOK' /\ WallRows'
  <2>1. WallRows'
    BY <1>1, <1>2, <1>3, <1>5, TapTyped DEF WallRows
  <2>2. wish' \in [Fans -> {"none", "live", "fulfilled"}] /\ hearts' \in Int
    BY <1>1, <1>6 DEF WallTypeOK
  <2> QED
    BY <1>1, <1>5, <2>1, <2>2 DEF WallTypeOK
<1>9. LeavesGifts /\ LeavesPosts /\ LeavesLikes
  BY <1>3, <1>4, <1>5, <1>7 DEF LeavesGifts, LeavesPosts, LeavesLikes, Aside, GiftHooks, Sharing, Withdrawing, Hearting
<1>10. ASSUME crossed' = {} PROVE HeartsAlone'
  <2>1. /\ \A x, u \in Taps : /\ tap[x].pc \in Hearting /\ tap[u].pc \in Hearting
                              /\ tap[x].fan = tap[u].fan
                              => x = u
        /\ \A x \in Taps : tap[x].pc = "upsert" => (tap[x].found <=> wish[tap[x].fan] # "none")
    BY <1>3, <1>10 DEF WallInv, HeartsAlone
  <2>2. \A x \in Taps : tap'[x].pc \in Hearting => tap[x].pc \in Hearting /\ tap'[x].fan = tap[x].fan
    BY <1>3, <1>4, <1>7 DEF f, Hearting
  <2>3. \A x \in Taps : tap'[x].pc = "upsert" => x # t /\ tap'[x] = tap[x]
    BY <1>4, <1>7
  <2>4. \A x \in Taps : tap'[x].pc = "upsert" => wish'[tap[x].fan] = wish[tap[x].fan]
    <3>1. \A x \in Taps : tap'[x].pc = "upsert" => tap[x].fan # f /\ tap[x].fan \in Fans
      BY <1>1, <1>3, <2>1, <2>3 DEF f, Hearting, WallRows, TapRows
    <3> QED
      BY <1>1, <1>6, <3>1 DEF WallTypeOK
  <2>5. \A x \in Taps : tap'[x].pc = "upsert" => (tap'[x].found <=> wish'[tap'[x].fan] # "none")
    BY <2>1, <2>3, <2>4
  <2>6. \A x, u \in Taps : /\ tap'[x].pc \in Hearting /\ tap'[u].pc \in Hearting
                           /\ tap'[x].fan = tap'[u].fan
                           => x = u
    BY <2>1, <2>2
  <2> QED
    BY <2>5, <2>6 DEF HeartsAlone
<1>11. ASSUME crossed' = {} PROVE HeartsBalance'
  <2>1. hearts + Cardinality(Counting) - Cardinality(Uncounting) = Cardinality(Hearted)
    BY <1>3, <1>11 DEF WallInv, HeartsBalance
  <2>2. tap[t].pc = "upsert" => (tap[t].found <=> wish[f] # "none")
    BY <1>3, <1>11 DEF WallInv, HeartsAlone, f
  <2>3. /\ Cardinality(Counting') = Cardinality(Counting)
              + (IF r.pc = "count" THEN 1 ELSE 0) - (IF tap[t].pc = "count" THEN 1 ELSE 0)
        /\ Cardinality(Uncounting') = Cardinality(Uncounting)
              + (IF r.pc = "uncount" THEN 1 ELSE 0) - (IF tap[t].pc = "uncount" THEN 1 ELSE 0)
        /\ Cardinality(Counting) \in Nat /\ Cardinality(Uncounting) \in Nat
    BY <1>1, <1>2, <1>3, TapCounts
  <2>4. /\ Hearted \ {f} = Hearted' \ {f} /\ IsFiniteSet(Hearted)
        /\ f \in Hearted <=> wish[f] # "none"
        /\ f \in Hearted' <=> wish'[f] # "none"
    <3>1. Hearted \ {f} = Hearted' \ {f}
      BY <1>1, <1>6 DEF Hearted, WallTypeOK
    <3> QED
      BY <1>1, <3>1, WallAssumption, FS_Subset DEF Hearted
  <2>5. /\ Cardinality(Hearted') = Cardinality(Hearted)
              + (IF f \in Hearted' THEN 1 ELSE 0) - (IF f \in Hearted THEN 1 ELSE 0)
        /\ Cardinality(Hearted) \in Nat
    BY <2>4, SizeMoves
  <2>6. hearts \in Int
    BY <1>1 DEF WallTypeOK
  <2>7. wish'[f] = IF tap[t].pc = "upsert" THEN "live" ELSE IF tap[t].pc = "delete" THEN "none" ELSE wish[f]
    BY <1>1, <1>6 DEF WallTypeOK
  <2>8. hearts' + Cardinality(Counting') - Cardinality(Uncounting') = Cardinality(Hearted')
    BY <1>6, <2>1, <2>2, <2>3, <2>4, <2>5, <2>6, <2>7
  <2> QED
    BY <2>8 DEF HeartsBalance
<1> QED
  BY <1>8, <1>9, <1>10, <1>11 DEF HeartsAlone, HeartsBalance

-----------------------------------------------------------------------------
\* A gift is created or cancelled: its row moves, its count waits for the hook.
LEMMA GiftBegins ==
    ASSUME WallInv, NEW t \in Taps, NEW g \in Presents, GiveGift(t, g) \/ CancelGift(t, g)
    PROVE  WallTypeOK' /\ WallRows' /\ LeavesHearts /\ GiftsBalance' /\ PostsSwept' /\ LeavesLikes
<1> DEFINE pc == IF GiveGift(t, g) THEN "fulfil" ELSE "unfulfil"
           r == [NoTap EXCEPT !.pc = pc, !.gift = g]
<1>1. WallRows /\ WallTypeOK
  BY DEF WallInv
<1>2. /\ tap[t] = NoTap /\ TapGoes(t, r) /\ taps < MaxTaps /\ taps' = taps + 1
      /\ UNCHANGED <<wish, hearts, gifted, slipped, postVars, crossed>>
  BY DEF GiveGift, CancelGift, NewTap
<1>3. pc \in OfAGift /\ pc \in {"fulfil", "unfulfil"}
  BY DEF OfAGift, GiftHooks
<1>4. r.pc = pc /\ r.gift = g
  BY DEF NoTap
<1>5. \/ /\ pc = "fulfil" /\ present[g] = "none" /\ present' = [present EXCEPT ![g] = "live"] /\ raced' = raced
      \/ /\ pc = "unfulfil" /\ present[g] = "live" /\ present' = [present EXCEPT ![g] = "cancelled"]
         /\ raced' = IF \E u \in Taps : tap[u].pc \in {"find", "publish"} /\ tap[u].gift = g
                     THEN raced \cup {g} ELSE raced
  BY DEF GiveGift, CancelGift, CancelsLive
<1> HIDE DEF pc
<1>6. TapFits(r)
  BY <1>1, <1>3, FreshTapFits
<1> HIDE DEF r
<1>7. \A u \in Taps : tap'[u] = IF u = t THEN r ELSE tap[u]
  BY <1>1, <1>2, <1>6, TapReplaced
<1>8. WallTypeOK' /\ WallRows'
  <2>1. raced' \subseteq Presents
    BY <1>1, <1>5 DEF WallRows
  <2>2. WallRows'
    BY <1>1, <1>2, <1>6, <2>1, TapTyped DEF WallRows, postVars
  <2>3. present' \in [Presents -> {"none", "live", "cancelled"}]
    BY <1>1, <1>5 DEF WallTypeOK
  <2> QED
    BY <1>1, <1>2, <2>2, <2>3, WallAssumption DEF WallTypeOK, postVars
<1>9. LeavesHearts /\ LeavesLikes
  BY <1>2, <1>3, <1>4, <1>7 DEF LeavesHearts, LeavesLikes, Aside, postVars, NoTap, Hearting
<1>10. GiftsBalance'
  <2>1. gifted + slipped + Cardinality(Giving) - Cardinality(Ungiving) = Cardinality(LiveGifts)
    BY DEF WallInv, GiftsBalance
  <2>2. tap[t].pc = "idle"
    BY <1>2 DEF NoTap
  <2>3. /\ Cardinality(Giving') = Cardinality(Giving)
              + (IF r.pc \in {"fulfil", "gifted"} THEN 1 ELSE 0)
              - (IF tap[t].pc \in {"fulfil", "gifted"} THEN 1 ELSE 0)
        /\ Cardinality(Ungiving') = Cardinality(Ungiving)
              + (IF r.pc \in {"unfulfil", "ungifted"} THEN 1 ELSE 0)
              - (IF tap[t].pc \in {"unfulfil", "ungifted"} THEN 1 ELSE 0)
        /\ Cardinality(Giving) \in Nat /\ Cardinality(Ungiving) \in Nat
    BY <1>1, <1>2, <1>6, TapCounts
  <2>4. /\ LiveGifts \ {g} = LiveGifts' \ {g} /\ IsFiniteSet(LiveGifts)
        /\ g \in LiveGifts <=> present[g] = "live"
        /\ g \in LiveGifts' <=> present'[g] = "live"
    <3>1. LiveGifts \ {g} = LiveGifts' \ {g}
      BY <1>1, <1>5 DEF LiveGifts, WallTypeOK
    <3> QED
      BY <3>1, WallAssumption, FS_Subset DEF LiveGifts
  <2>5. /\ Cardinality(LiveGifts') = Cardinality(LiveGifts)
              + (IF g \in LiveGifts' THEN 1 ELSE 0) - (IF g \in LiveGifts THEN 1 ELSE 0)
        /\ Cardinality(LiveGifts) \in Nat
    BY <2>4, SizeMoves
  <2>6. gifted \in Int /\ slipped \in Int /\ gifted' = gifted /\ slipped' = slipped
    BY <1>1, <1>2 DEF WallTypeOK, WallRows
  <2>7. present'[g] = IF pc = "fulfil" THEN "live" ELSE "cancelled"
    BY <1>1, <1>5 DEF WallTypeOK
  <2>8. gifted' + slipped' + Cardinality(Giving') - Cardinality(Ungiving') = Cardinality(LiveGifts')
    BY <1>3, <1>4, <1>5, <2>1, <2>2, <2>3, <2>4, <2>5, <2>6, <2>7
  <2> QED
    BY <2>8 DEF GiftsBalance
<1>11. PostsSwept'
  <2>1. post' = post
    BY <1>2 DEF postVars
  <2>2. \A h \in Presents : h # g => present'[h] = present[h] /\ (h \in raced' <=> h \in raced)
    BY <1>1, <1>5 DEF WallTypeOK
  <2>3. \A h \in Presents : h # g => \A u \in Taps :
           /\ (tap'[u].gift = h /\ tap'[u].pc \in Sharing) <=> (tap[u].gift = h /\ tap[u].pc \in Sharing)
           /\ (tap'[u].gift = h /\ tap'[u].pc \in Withdrawing) <=> (tap[u].gift = h /\ tap[u].pc \in Withdrawing)
    BY <1>2, <1>4, <1>7 DEF NoTap, Sharing, Withdrawing
  <2>4. CASE pc = "fulfil"
    BY <1>1, <1>5, <2>1, <2>2, <2>3, <2>4 DEF WallInv, PostsSwept, WallTypeOK
  <2>5. CASE pc = "unfulfil"
    <3>1. tap'[t].gift = g /\ tap'[t].pc \in Withdrawing
      BY <1>4, <1>7, <2>5 DEF Withdrawing
    <3>2. g \notin raced' => \A u \in Taps : tap'[u].gift # g \/ tap'[u].pc \notin Sharing
      BY <1>4, <1>5, <1>7, <2>5 DEF Sharing
    <3> QED
      BY <2>1, <2>2, <2>3, <3>1, <3>2 DEF WallInv, PostsSwept
  <2> QED
    BY <1>3, <2>4, <2>5
<1> QED
  BY <1>8, <1>9, <1>10, <1>11

\* What leaves one side of a balance joins the other.
LEMMA BalanceMoves ==
    ASSUME NEW s \in Int, NEW s2 \in Int, NEW p \in Int, NEW p2, NEW q \in Int, NEW q2, NEW n,
           NEW x \in Int, NEW y \in Int,
           s + p - q = n, s2 = s + x - y, p2 = p - x, q2 = q - y
    PROVE  s2 + p2 - q2 = n
  OBVIOUS

\* The hooks of a create and of a cancel, done or swallowed.
LEMMA GiftGoesOn ==
    ASSUME WallInv, NEW t \in Taps,
           \/ FulfilWish(t) \/ CountGift(t) \/ HookFails(t)
           \/ UnfulfilWish(t) \/ UncountGift(t) \/ CascadeToPost(t)
    PROVE  WallTypeOK' /\ WallRows' /\ LeavesHearts /\ GiftsBalance' /\ PostsSwept' /\ LeavesLikes
<1> DEFINE from == tap[t].pc
           to == CASE from = "fulfil" -> "gifted" [] from = "unfulfil" -> "ungifted"
                   [] from = "ungifted" -> "cascade" [] OTHER -> "idle"
           r == IF to = "idle" THEN NoTap ELSE [tap[t] EXCEPT !.pc = to]
<1>1. WallRows /\ WallTypeOK /\ tap[t] \in TapRows
  BY DEF WallInv, WallRows
<1>2. from \in {"fulfil", "gifted", "unfulfil", "ungifted", "cascade"}
  BY DEF FulfilWish, CountGift, HookFails, UnfulfilWish, UncountGift, CascadeToPost
<1>3. TapGoes(t, r)
  BY <1>2 DEF FulfilWish, CountGift, HookFails, UnfulfilWish, UncountGift, CascadeToPost, TapAt, TapEnds
<1>4. from \in OfAGift /\ (to \in OfAGift \/ to = "idle")
  BY <1>2 DEF OfAGift, GiftHooks, Withdrawing
<1>5. TapFits(r)
  <2>1. CASE to = "idle"
    BY <1>1, <2>1, FreshTapFits
  <2>2. CASE to \in OfAGift
    <3> HIDE DEF to
    <3> QED
      BY <1>1, <1>4, <2>1, <2>2, MovedTapFits
  <2> QED
    BY <1>4, <2>1, <2>2
<1>6. r.pc = to /\ (to # "idle" => r.gift = tap[t].gift)
  BY <1>1 DEF NoTap, TapRows
<1>7. UNCHANGED <<present, hearts, liked, likes, pinged, taps, crossed, raced>>
  BY DEF FulfilWish, CountGift, HookFails, UnfulfilWish, UncountGift, CascadeToPost, postVars, productVars
<1>8. \/ /\ from \in {"fulfil", "unfulfil"} /\ gifted' + slipped' = gifted + slipped
      \/ /\ from = "gifted" /\ gifted' + slipped' = gifted + slipped + 1
      \/ /\ from = "ungifted" /\ gifted' + slipped' = gifted + slipped - 1
      \/ /\ from = "cascade" /\ gifted' + slipped' = gifted + slipped
  BY <1>1 DEF FulfilWish, CountGift, HookFails, UnfulfilWish, UncountGift, CascadeToPost, productVars, WallTypeOK, WallRows
<1>9. gifted' \in Int /\ slipped' \in Int /\ wish' \in [Fans -> {"none", "live", "fulfilled"}]
  BY <1>1 DEF FulfilWish, CountGift, HookFails, UnfulfilWish, UncountGift, CascadeToPost, productVars, WallTypeOK, WallRows
<1>10. \A f \in Fans : wish'[f] = "none" <=> wish[f] = "none"
  BY <1>1 DEF FulfilWish, CountGift, HookFails, UnfulfilWish, UncountGift, CascadeToPost, productVars, WallTypeOK
<1>11. IF from = "cascade" THEN post' = [post EXCEPT ![tap[t].gift].dead = @ \/ post[tap[t].gift].exists] ELSE post' = post
  BY DEF FulfilWish, CountGift, HookFails, UnfulfilWish, UncountGift, CascadeToPost, postVars
<1>12. /\ from = "fulfil" => to = "gifted"
       /\ from = "unfulfil" => to = "ungifted"
       /\ from = "ungifted" => to = "cascade"
       /\ from \in {"gifted", "cascade"} => to = "idle"
  OBVIOUS
<1> HIDE DEF r, to
<1>13. \A u \in Taps : tap'[u] = IF u = t THEN r ELSE tap[u]
  BY <1>1, <1>3, <1>5, TapReplaced
<1>14. tap[t].gift \in Presents
  BY <1>1, <1>4 DEF WallRows, TapFits
<1>15. /\ post' \in [Presents -> PostRows]
       /\ \A h \in Presents : /\ post'[h].exists = post[h].exists /\ post'[h].published = post[h].published
                              /\ post[h].dead => post'[h].dead
       /\ from = "cascade" => (post'[tap[t].gift].exists => post'[tap[t].gift].dead)
  <2>1. CASE from # "cascade"
    BY <1>1, <1>11, <2>1 DEF WallRows
  <2>2. CASE from = "cascade"
    BY <1>1, <1>11, <1>14, <2>2 DEF WallRows, PostRows
  <2> QED
    BY <2>1, <2>2
<1>16. WallTypeOK' /\ WallRows'
  <2>1. WallRows'
    BY <1>1, <1>3, <1>5, <1>7, <1>9, <1>15, TapTyped DEF WallRows
  <2> QED
    BY <1>1, <1>7, <1>9, <2>1 DEF WallTypeOK
<1>17. LeavesHearts /\ LeavesLikes
  BY <1>2, <1>6, <1>7, <1>10, <1>12, <1>13 DEF LeavesHearts, LeavesLikes, Aside, Hearting
<1>18. GiftsBalance'
  <2>1. gifted + slipped + Cardinality(Giving) - Cardinality(Ungiving) = Cardinality(LiveGifts)
    BY DEF WallInv, GiftsBalance
  <2>2. /\ Cardinality(Giving') = Cardinality(Giving)
              + (IF r.pc \in {"fulfil", "gifted"} THEN 1 ELSE 0)
              - (IF tap[t].pc \in {"fulfil", "gifted"} THEN 1 ELSE 0)
        /\ Cardinality(Ungiving') = Cardinality(Ungiving)
              + (IF r.pc \in {"unfulfil", "ungifted"} THEN 1 ELSE 0)
              - (IF tap[t].pc \in {"unfulfil", "ungifted"} THEN 1 ELSE 0)
        /\ Cardinality(Giving) \in Nat /\ Cardinality(Ungiving) \in Nat
    BY <1>1, <1>3, <1>5, TapCounts
  <2>3. LiveGifts' = LiveGifts
    BY <1>7 DEF LiveGifts
  <2>4. gifted \in Int /\ slipped \in Int
    BY <1>1 DEF WallTypeOK, WallRows
  <2>5. /\ Cardinality(Giving') = Cardinality(Giving) - (IF from = "gifted" THEN 1 ELSE 0)
        /\ Cardinality(Ungiving') = Cardinality(Ungiving) - (IF from = "ungifted" THEN 1 ELSE 0)
    BY <1>2, <1>6, <1>12, <2>2
  <2>6. gifted' + slipped' = gifted + slipped + (IF from = "gifted" THEN 1 ELSE 0) - (IF from = "ungifted" THEN 1 ELSE 0)
    BY <1>8, <1>9, <2>4
  <2>7. gifted' + slipped' + Cardinality(Giving') - Cardinality(Ungiving') = Cardinality(LiveGifts')
    <3> DEFINE s == gifted + slipped
               s2 == gifted' + slipped'
               x == IF from = "gifted" THEN 1 ELSE 0
               y == IF from = "ungifted" THEN 1 ELSE 0
               p == Cardinality(Giving)
               p2 == Cardinality(Giving')
               q == Cardinality(Ungiving)
               q2 == Cardinality(Ungiving')
               n == Cardinality(LiveGifts)
    <3>1. s \in Int /\ s2 \in Int /\ p \in Int /\ q \in Int /\ x \in Int /\ y \in Int
      BY <1>9, <2>2, <2>4
    <3>2. s + p - q = n /\ s2 = s + x - y /\ p2 = p - x /\ q2 = q - y
      BY <2>1, <2>5, <2>6
    <3>3. Cardinality(LiveGifts') = n
      BY <2>3
    <3> HIDE DEF s, s2, p, q, x, y, p2, q2, n
    <3>4. s2 + p2 - q2 = n
      BY <3>1, <3>2, BalanceMoves
    <3> QED
      BY <3>3, <3>4 DEF s2, p2, q2, n
  <2> QED
    BY <2>7 DEF GiftsBalance
<1>19. PostsSwept'
  <2>1. \A u \in Taps, h \in Presents : tap'[u].gift = h /\ tap'[u].pc \in Sharing => tap[u].gift = h /\ tap[u].pc \in Sharing
    BY <1>2, <1>6, <1>12, <1>13 DEF Sharing
  <2>2. \A u \in Taps, h \in Presents : tap[u].gift = h /\ tap[u].pc \in Withdrawing =>
           \/ tap'[u].gift = h /\ tap'[u].pc \in Withdrawing
           \/ from = "cascade" /\ h = tap[t].gift
    BY <1>2, <1>6, <1>12, <1>13 DEF Withdrawing
  <2>3. ASSUME NEW h \in Presents, present'[h] = "cancelled", h \notin raced'
        PROVE  /\ \A u \in Taps : tap'[u].gift # h \/ tap'[u].pc \notin Sharing
               /\ (\A u \in Taps : tap'[u].gift # h \/ tap'[u].pc \notin Withdrawing)
                  => (post'[h].exists => post'[h].dead)
    <3>1. /\ \A u \in Taps : tap[u].gift # h \/ tap[u].pc \notin Sharing
          /\ (\A u \in Taps : tap[u].gift # h \/ tap[u].pc \notin Withdrawing) => (post[h].exists => post[h].dead)
      BY <1>7, <2>3 DEF WallInv, PostsSwept
    <3>2. CASE from = "cascade" /\ h = tap[t].gift
      BY <1>15, <2>1, <3>1, <3>2
    <3>3. CASE ~(from = "cascade" /\ h = tap[t].gift)
      <4> HIDE DEF from
      <4> QED
        BY <1>15, <2>1, <2>2, <3>1, <3>3
    <3> QED
      BY <3>2, <3>3
  <2>4. \A h \in Presents : post'[h].published => post'[h].exists
    BY <1>15 DEF WallInv, PostsSwept
  <2> QED
    BY <2>3, <2>4 DEF PostsSwept
<1> QED
  BY <1>16, <1>17, <1>18, <1>19

-----------------------------------------------------------------------------
\* Publishing, unpublishing and changing who sees a post.
LEMMA PostSteps ==
    ASSUME WallInv,
           \/ \E t \in Taps, g \in Presents : Publish(t, g)
           \/ \E t \in Taps : PublishFinds(t) \/ \E public \in BOOLEAN : PublishWrites(t, public)
           \/ \E g \in Presents : EditPost(g)
    PROVE  WallTypeOK' /\ WallRows' /\ LeavesHearts /\ LeavesGifts /\ PostsSwept' /\ LeavesLikes
<1> DEFINE Good == WallTypeOK' /\ WallRows' /\ LeavesHearts /\ LeavesGifts /\ PostsSwept' /\ LeavesLikes
<1>1. WallRows /\ WallTypeOK /\ PostsSwept
  BY DEF WallInv
<1>2. ASSUME NEW t \in Taps, NEW g \in Presents, Publish(t, g) PROVE Good
  <2> DEFINE r == [NoTap EXCEPT !.pc = "find", !.gift = g]
  <2>1. /\ tap[t] = NoTap /\ TapGoes(t, r) /\ taps < MaxTaps /\ taps' = taps + 1 /\ present[g] = "live"
        /\ UNCHANGED <<productVars, postVars, crossed, raced>>
    BY <1>2 DEF Publish, NewTap, Publishable
  <2>2. TapFits(r)
    BY <1>1, FreshTapFits DEF OfAGift, Sharing
  <2>3. r.pc = "find" /\ r.gift = g
    BY DEF NoTap
  <2> HIDE DEF r
  <2>4. \A u \in Taps : tap'[u] = IF u = t THEN r ELSE tap[u]
    BY <1>1, <2>1, <2>2, TapReplaced
  <2>5. WallRows'
    BY <1>1, <2>1, <2>2, TapTyped DEF WallRows, productVars, postVars
  <2>6. WallTypeOK'
    BY <1>1, <2>1, WallAssumption DEF WallTypeOK, productVars, postVars
  <2>7. LeavesHearts /\ LeavesGifts /\ LeavesLikes
    BY <2>1, <2>3, <2>4 DEF LeavesHearts, LeavesGifts, LeavesLikes, Aside, NoTap, Hearting, GiftHooks, productVars, postVars
  <2>8. PostsSwept'
    <3>1. present' = present /\ post' = post /\ raced' = raced
      BY <2>1 DEF productVars, postVars
    <3>2. \A u \in Taps : tap'[u].pc \in Withdrawing <=> tap[u].pc \in Withdrawing
      BY <2>1, <2>3, <2>4 DEF NoTap, Withdrawing
    <3>3. \A u \in Taps : tap[u].pc \in Withdrawing => tap'[u] = tap[u]
      BY <2>1, <2>4 DEF NoTap, Withdrawing
    <3>4. \A u \in Taps : tap'[u].pc \in Sharing => tap'[u] = tap[u] \/ tap'[u].gift = g
      BY <2>3, <2>4
    <3> QED
      BY <1>1, <2>1, <3>1, <3>2, <3>3, <3>4 DEF PostsSwept
  <2> QED
    BY <2>5, <2>6, <2>7, <2>8
<1>3. ASSUME NEW t \in Taps, PublishFinds(t) PROVE Good
  <2> DEFINE r == IF post[tap[t].gift].published THEN NoTap ELSE [tap[t] EXCEPT !.pc = "publish"]
  <2>1. /\ tap[t].pc = "find" /\ TapGoes(t, r) /\ UNCHANGED <<productVars, postVars, taps, crossed, raced>>
    BY <1>3 DEF PublishFinds, TapAt, TapEnds
  <2>2. TapFits(r)
    BY <1>1, <2>1, FreshTapFits, MovedTapFits DEF OfAGift, Sharing
  <2>3. r.pc = "idle" \/ (r.pc = "publish" /\ r.gift = tap[t].gift)
    BY <1>1 DEF NoTap, WallRows, TapRows
  <2> HIDE DEF r
  <2>4. \A u \in Taps : tap'[u] = IF u = t THEN r ELSE tap[u]
    BY <1>1, <2>1, <2>2, TapReplaced
  <2>5. WallRows'
    BY <1>1, <2>1, <2>2, TapTyped DEF WallRows, productVars, postVars
  <2>6. WallTypeOK'
    BY <1>1, <2>1 DEF WallTypeOK, productVars, postVars
  <2>7. LeavesHearts /\ LeavesGifts /\ LeavesLikes
    BY <2>1, <2>3, <2>4 DEF LeavesHearts, LeavesGifts, LeavesLikes, Aside, Hearting, GiftHooks, productVars, postVars
  <2>8. PostsSwept'
    <3>1. present' = present /\ post' = post /\ raced' = raced
      BY <2>1 DEF productVars, postVars
    <3>2. \A u \in Taps : tap'[u].pc \in Withdrawing \/ tap[u].pc \in Withdrawing => tap'[u] = tap[u]
      BY <2>1, <2>3, <2>4 DEF Withdrawing
    <3>3. \A u \in Taps : tap'[u].pc \in Sharing => tap[u].pc \in Sharing /\ tap'[u].gift = tap[u].gift
      BY <2>1, <2>3, <2>4 DEF Sharing
    <3> QED
      BY <1>1, <3>1, <3>2, <3>3 DEF PostsSwept
  <2> QED
    BY <2>5, <2>6, <2>7, <2>8
<1>4. ASSUME NEW t \in Taps, NEW public \in BOOLEAN, PublishWrites(t, public) PROVE Good
  <2> DEFINE g == tap[t].gift
             row == [exists |-> TRUE, published |-> TRUE, public |-> public, dead |-> FALSE]
  <2>1. /\ tap[t].pc = "publish" /\ TapGoes(t, NoTap) /\ post' = [post EXCEPT ![g] = row]
        /\ UNCHANGED <<productVars, liked, likes, pinged, taps, crossed, raced>>
    BY <1>4 DEF PublishWrites, TapEnds
  <2>2. TapFits(NoTap) /\ g \in Presents /\ row \in PostRows /\ row.published /\ row.exists /\ NoTap.pc = "idle"
    BY <1>1, <2>1, FreshTapFits DEF OfAGift, Sharing, WallRows, TapFits, PostRows, NoTap
  <2> HIDE DEF row
  <2>3. post' \in [Presents -> PostRows] /\ \A h \in Presents : post'[h] = IF h = g THEN row ELSE post[h]
    BY <1>1, <2>1, <2>2 DEF WallRows
  <2>4. \A u \in Taps : tap'[u] = IF u = t THEN NoTap ELSE tap[u]
    BY <1>1, <2>1, <2>2, TapReplaced
  <2>5. WallRows'
    BY <1>1, <2>1, <2>2, <2>3, TapTyped DEF WallRows, productVars
  <2>6. WallTypeOK'
    BY <1>1, <2>1 DEF WallTypeOK, productVars
  <2>7. LeavesHearts /\ LeavesGifts /\ LeavesLikes
    BY <2>1, <2>2, <2>4 DEF LeavesHearts, LeavesGifts, LeavesLikes, Aside, Hearting, GiftHooks, productVars
  <2>8. PostsSwept'
    <3>1. present' = present /\ raced' = raced
      BY <2>1 DEF productVars
    <3>2. ~(present[g] = "cancelled" /\ g \notin raced)
      BY <1>1, <2>1, <2>2 DEF PostsSwept, Sharing
    <3>3. \A u \in Taps : tap'[u].pc \in Withdrawing \/ tap[u].pc \in Withdrawing => tap'[u] = tap[u]
      BY <2>1, <2>2, <2>4 DEF Withdrawing
    <3>4. \A u \in Taps : tap'[u].pc \in Sharing => tap'[u] = tap[u]
      BY <2>2, <2>4 DEF Sharing
    <3> QED
      BY <1>1, <2>2, <2>3, <3>1, <3>2, <3>3, <3>4 DEF PostsSwept
  <2> QED
    BY <2>5, <2>6, <2>7, <2>8
<1>5. ASSUME NEW g \in Presents, EditPost(g) PROVE Good
  <2>1. /\ post[g].exists /\ taps < MaxTaps /\ taps' = taps + 1
        /\ \/ post' = [post EXCEPT ![g].published = FALSE]
           \/ post' = [post EXCEPT ![g].public = ~@]
        /\ UNCHANGED <<productVars, liked, likes, pinged, tap, crossed, raced>>
    BY <1>5 DEF EditPost
  <2>2. /\ post' \in [Presents -> PostRows]
        /\ \A h \in Presents : /\ post'[h].exists = post[h].exists /\ post'[h].dead = post[h].dead
                               /\ post'[h].published => post[h].published
    <3>1. CASE post' = [post EXCEPT ![g].published = FALSE]
      BY <1>1, <3>1 DEF WallRows, PostRows
    <3>2. CASE post' = [post EXCEPT ![g].public = ~@]
      <4> DEFINE b == ~post[g].public
      <4>1. b \in BOOLEAN /\ post' = [post EXCEPT ![g].public = b]
        BY <3>2
      <4> HIDE DEF b
      <4> QED
        BY <1>1, <4>1 DEF WallRows, PostRows
    <3> QED
      BY <2>1, <3>1, <3>2
  <2>3. WallRows'
    BY <1>1, <2>1, <2>2 DEF WallRows, productVars
  <2>4. WallTypeOK'
    BY <1>1, <2>1, WallAssumption DEF WallTypeOK, productVars
  <2>5. LeavesHearts /\ LeavesGifts /\ LeavesLikes
    BY <2>1 DEF LeavesHearts, LeavesGifts, LeavesLikes, Aside, productVars
  <2>6. PostsSwept'
    BY <1>1, <2>1, <2>2 DEF PostsSwept, productVars
  <2> QED
    BY <2>3, <2>4, <2>5, <2>6
<1> QED
  BY <1>2, <1>3, <1>4, <1>5

\* Appreciating a post, and the ping that may follow.
LEMMA LikeSteps ==
    ASSUME WallInv, NEW t \in Taps,
           \/ \E f \in Fans, g \in Presents : Appreciate(t, f, g)
           \/ LikeCreates(t) \/ LikeDeletes(t) \/ ProbesPing(t) \/ Pings(t)
    PROVE  WallTypeOK' /\ WallRows' /\ LeavesHearts /\ LeavesGifts /\ LeavesPosts /\ AppreciationsCounted'
<1> DEFINE Liking == {"like", "unlike", "throttle", "ping"}
<1>1. WallRows /\ WallTypeOK /\ tap[t] \in TapRows /\ AppreciationsCounted
  BY DEF WallInv, WallRows
<1>2. PICK r : /\ TapFits(r) /\ TapGoes(t, r) /\ tap[t].pc \in Liking \cup {"idle"} /\ r.pc \in Liking \cup {"idle"}
               /\ UNCHANGED <<productVars, post, crossed, raced>> /\ taps' \in 0..MaxTaps
  <2>1. \A f \in Fans, g \in Presents : [NoTap EXCEPT !.pc = "like", !.fan = f, !.gift = g].pc = "like"
    BY DEF NoTap
  <2>2. ASSUME NEW f \in Fans, NEW g \in Presents, Appreciate(t, f, g)
        PROVE  /\ TapFits([NoTap EXCEPT !.pc = "like", !.fan = f, !.gift = g])
               /\ TapGoes(t, [NoTap EXCEPT !.pc = "like", !.fan = f, !.gift = g])
               /\ tap[t].pc = "idle"
               /\ UNCHANGED <<productVars, post, crossed, raced>> /\ taps' \in 0..MaxTaps
    <3>1. /\ NewTap(t) /\ TapGoes(t, [NoTap EXCEPT !.pc = "like", !.fan = f, !.gift = g])
          /\ UNCHANGED <<productVars, post, crossed, raced>>
      BY <2>2 DEF Appreciate, postVars
    <3>2. taps' \in 0..MaxTaps /\ tap[t] = NoTap
      BY <1>1, <3>1, WallAssumption DEF NewTap, WallTypeOK
    <3>3. NoTap.pc = "idle"
      BY DEF NoTap
    <3>4. TapFits([NoTap EXCEPT !.pc = "like", !.fan = f, !.gift = g])
      BY <1>1, FreshTapFits
    <3> QED
      BY <3>1, <3>2, <3>3, <3>4
  <2>3. ASSUME LikeCreates(t) \/ LikeDeletes(t) \/ ProbesPing(t) \/ Pings(t)
        PROVE  /\ tap[t].pc \in Liking /\ UNCHANGED <<productVars, post, crossed, raced>> /\ taps' \in 0..MaxTaps
               /\ TapEnds(t) \/ \E pc \in Liking : TapAt(t, pc)
    BY <1>1, <2>3 DEF LikeCreates, LikeDeletes, ProbesPing, Pings, postVars, WallTypeOK
  <2>4. TapFits(NoTap) /\ NoTap.pc = "idle"
    BY <1>1, FreshTapFits DEF NoTap
  <2>5. Liking \subseteq OfAGift
    BY DEF OfAGift
  <2>6. ASSUME tap[t].pc \in Liking, NEW pc \in Liking
        PROVE  TapFits([tap[t] EXCEPT !.pc = pc]) /\ [tap[t] EXCEPT !.pc = pc].pc = pc
    <3>1. TapFits([tap[t] EXCEPT !.pc = pc])
      BY <1>1, <2>5, <2>6, MovedTapFits
    <3> QED
      BY <1>1, <3>1 DEF TapRows
  <2>7. CASE \E f \in Fans, g \in Presents : Appreciate(t, f, g)
    <3> HIDE DEF Liking
    <3>1. "like" \in Liking
      BY DEF Liking
    <3>2. PICK f \in Fans, g \in Presents : Appreciate(t, f, g)
      BY <2>7
    <3> DEFINE r == [NoTap EXCEPT !.pc = "like", !.fan = f, !.gift = g]
    <3>3. /\ TapFits(r) /\ TapGoes(t, r) /\ tap[t].pc = "idle" /\ r.pc = "like"
          /\ UNCHANGED <<productVars, post, crossed, raced>> /\ taps' \in 0..MaxTaps
      BY <2>1, <2>2, <3>2
    <3> HIDE DEF r
    <3> QED
      BY <3>1, <3>3
  <2>8. CASE LikeCreates(t) \/ LikeDeletes(t) \/ ProbesPing(t) \/ Pings(t)
    <3> HIDE DEF Liking
    <3>1. CASE TapEnds(t)
      BY <2>3, <2>4, <2>8, <3>1 DEF TapEnds
    <3>2. CASE \E pc \in Liking : TapAt(t, pc)
      <4>1. PICK pc \in Liking : TapAt(t, pc)
        BY <3>2
      <4> DEFINE r == [tap[t] EXCEPT !.pc = pc]
      <4>2. TapFits(r) /\ r.pc = pc /\ TapGoes(t, r)
        BY <2>3, <2>6, <2>8, <4>1 DEF TapAt
      <4> HIDE DEF r
      <4> QED
        BY <2>3, <2>8, <4>2
    <3> QED
      BY <2>3, <2>8, <3>1, <3>2
  <2> QED
    BY <2>7, <2>8
<1>3. \A u \in Taps : tap'[u] = IF u = t THEN r ELSE tap[u]
  BY <1>1, <1>2, TapReplaced
<1>4. WallRows' /\ LeavesHearts /\ LeavesGifts /\ LeavesPosts
  <2>1. WallRows'
    BY <1>1, <1>2, TapTyped DEF WallRows, productVars
  <2> QED
    BY <1>2, <1>3, <2>1 DEF LeavesHearts, LeavesGifts, LeavesPosts, Aside, Hearting, GiftHooks, Sharing, Withdrawing, productVars
<1> DEFINE g == tap[t].gift
           f == tap[t].fan
<1>5. tap[t].pc \in Liking => g \in Presents /\ f \in Fans
  BY <1>1 DEF WallRows, TapFits, OfAGift, TapRows
<1>6. \/ UNCHANGED <<liked, likes>>
      \/ /\ tap[t].pc \in Liking /\ <<g, f>> \notin liked
         /\ liked' = liked \cup {<<g, f>>} /\ likes' = [likes EXCEPT ![g] = @ + 1]
      \/ /\ tap[t].pc \in Liking /\ <<g, f>> \in liked
         /\ liked' = liked \ {<<g, f>>} /\ likes' = [likes EXCEPT ![g] = @ - 1]
  BY DEF Appreciate, LikeCreates, LikeDeletes, LikeToDelete, ProbesPing, Pings, postVars
<1>7. pinged' \in [Presents -> Nat]
  <2>1. pinged' = pinged \/ (tap[t].pc \in Liking /\ pinged' = [pinged EXCEPT ![g] = @ + 1])
    BY DEF Appreciate, LikeCreates, LikeDeletes, ProbesPing, Pings, postVars
  <2> QED
    BY <1>1, <1>5, <2>1 DEF WallTypeOK
<1>8. likes' \in [Presents -> Nat] /\ liked' \subseteq Presents \X Fans /\ AppreciationsCounted'
  <2> DEFINE Of(h) == {x \in Fans : <<h, x>> \in liked}
             OfNow(h) == {x \in Fans : <<h, x>> \in liked'}
  <2>1. \A h \in Presents : IsFiniteSet(Of(h)) /\ likes[h] = Cardinality(Of(h)) /\ likes[h] \in Nat
    BY <1>1, WallAssumption, FS_Subset DEF AppreciationsCounted, WallTypeOK
  <2>2. CASE UNCHANGED <<liked, likes>>
    BY <1>1, <2>2 DEF WallTypeOK, AppreciationsCounted
  <2>3. CASE ~UNCHANGED <<liked, likes>>
    <3>1. g \in Presents /\ f \in Fans
      BY <1>5, <1>6, <2>3
    <3>2. \A h \in Presents : h # g => OfNow(h) = Of(h) /\ likes'[h] = likes[h]
      BY <1>1, <1>6, <3>1 DEF WallTypeOK
    <3>3. Of(g) \ {f} = OfNow(g) \ {f}
      BY <1>6, <2>3
    <3>4. (f \in OfNow(g) <=> <<g, f>> \in liked') /\ (f \in Of(g) <=> <<g, f>> \in liked)
      BY <3>1
    <3>5. likes'[g] = likes[g] + (IF <<g, f>> \in liked' THEN 1 ELSE 0) - (IF <<g, f>> \in liked THEN 1 ELSE 0)
      BY <1>1, <1>6, <2>1, <2>3, <3>1 DEF WallTypeOK
    <3>6. DOMAIN likes' = Presents /\ liked' \subseteq Presents \X Fans
      BY <1>1, <1>6, <3>1 DEF WallTypeOK
    <3>7. likes' = [h \in Presents |-> likes'[h]]
      BY <1>1, <1>6, <3>1 DEF WallTypeOK
    <3> HIDE DEF Of, OfNow
    <3>8. /\ Cardinality(OfNow(g)) \in Nat
          /\ Cardinality(OfNow(g)) = Cardinality(Of(g)) + (IF f \in OfNow(g) THEN 1 ELSE 0) - (IF f \in Of(g) THEN 1 ELSE 0)
      <4> DEFINE A == Of(g)
                 B == OfNow(g)
      <4>1. IsFiniteSet(A) /\ A \ {f} = B \ {f}
        BY <2>1, <3>1, <3>3
      <4> HIDE DEF A, B
      <4>2. /\ IsFiniteSet(B) /\ Cardinality(B) \in Nat /\ Cardinality(A) \in Nat
            /\ Cardinality(B) = Cardinality(A) + (IF f \in B THEN 1 ELSE 0) - (IF f \in A THEN 1 ELSE 0)
        BY <4>1, SizeMoves
      <4> QED
        BY <4>2 DEF A, B
    <3>9. likes'[g] = Cardinality(OfNow(g)) /\ likes'[g] \in Nat
      BY <2>1, <3>1, <3>4, <3>5, <3>8
    <3>10. \A h \in Presents : likes'[h] = Cardinality(OfNow(h)) /\ likes'[h] \in Nat
      BY <2>1, <3>2, <3>9
    <3>11. AppreciationsCounted'
      BY <3>10 DEF AppreciationsCounted, OfNow
    <3> QED
      BY <3>6, <3>7, <3>10, <3>11
  <2> QED
    BY <2>2, <2>3
<1>9. WallTypeOK'
  BY <1>1, <1>2, <1>7, <1>8 DEF WallTypeOK, productVars
<1> QED
  BY <1>4, <1>8, <1>9

\* Every step keeps the invariant.
LEMMA WallStepInv == WallInv /\ [WallNext]_wallVars => WallInv'
<1> SUFFICES ASSUME WallInv, [WallNext]_wallVars PROVE WallInv'
  OBVIOUS
<1> USE HeartsLeft, GiftsLeft, PostsLeft, LikesLeft
<1>1. ASSUME NEW t \in Taps, NEW f \in Fans, Heart(t, f) \/ Unheart(t, f) PROVE WallInv'
  BY <1>1, HeartBegins DEF WallInv
<1>2. ASSUME NEW t \in Taps, NEW g \in Presents, GiveGift(t, g) \/ CancelGift(t, g) PROVE WallInv'
  BY <1>2, GiftBegins DEF WallInv
<1>3. ASSUME NEW t \in Taps, HeartUpsert(t) \/ HeartCount(t) \/ UnheartDelete(t) \/ UnheartCount(t) PROVE WallInv'
  BY <1>3, HeartGoesOn DEF WallInv
<1>4. ASSUME NEW t \in Taps,
             \/ FulfilWish(t) \/ CountGift(t) \/ HookFails(t)
             \/ UnfulfilWish(t) \/ UncountGift(t) \/ CascadeToPost(t)
      PROVE  WallInv'
  BY <1>4, GiftGoesOn DEF WallInv
<1>5. ASSUME \/ \E t \in Taps, g \in Presents : Publish(t, g)
             \/ \E t \in Taps : PublishFinds(t) \/ \E public \in BOOLEAN : PublishWrites(t, public)
             \/ \E g \in Presents : EditPost(g)
      PROVE  WallInv'
  BY <1>5, PostSteps DEF WallInv
<1>6. ASSUME NEW t \in Taps,
             \/ \E f \in Fans, g \in Presents : Appreciate(t, f, g)
             \/ LikeCreates(t) \/ LikeDeletes(t) \/ ProbesPing(t) \/ Pings(t)
      PROVE  WallInv'
  BY <1>6, LikeSteps DEF WallInv
<1>7. CASE UNCHANGED wallVars
  <2>1. LeavesHearts /\ LeavesGifts /\ LeavesPosts /\ LeavesLikes
    BY <1>7 DEF LeavesHearts, LeavesGifts, LeavesPosts, LeavesLikes, Aside, wallVars, productVars, postVars
  <2>2. WallTypeOK' /\ WallRows'
    BY <1>7 DEF WallInv, WallTypeOK, WallRows, wallVars, productVars, postVars
  <2> QED
    BY <2>1, <2>2 DEF WallInv
<1> QED
  BY <1>1, <1>2, <1>3, <1>4, <1>5, <1>6, <1>7, Zenon DEF WallNext

\* For any fans, gifts and requests: the counters of the wishlist and of the
\* gifts agree with their rows whenever nobody is between the two and no two
\* hearts of one fan have crossed, the appreciations at every moment; and a wall
\* shows the post of a cancelled gift only if its publication was under way when
\* the gift was cancelled (CancelledNeverShown and HeartsNeverDoubleCounted, without
\* these exceptions, do not hold).
THEOREM WallAgreesAlways == WallSpec => []WallAgrees
<1>1. WallInit => WallInv
  BY WallInitInv
<1>2. WallInv /\ [WallNext]_wallVars => WallInv'
  BY WallStepInv
<1>3. WallInv => WallAgrees
  BY WallInvImplies
<1> QED
  BY <1>1, <1>2, <1>3, PTL DEF WallSpec

-----------------------------------------------------------------------------
(***************************************************************************)
(* What a user is told: the reminder and digest workers, the caps and the  *)
(* cleanup of stale claims.                                                *)
(***************************************************************************)

\* The inbox as a function on its positions.
LEMMA InboxIsFunction ==
    ASSUME RunsFit
    PROVE  /\ Len(inbox) \in Nat /\ DOMAIN inbox = Positions
           /\ \A i \in Positions : inbox[i] \in InboxRows /\ inbox[i].on \in Nat /\ inbox[i].stamps \in Nat
           /\ IsFiniteSet(Positions)
<1>1. Len(inbox) \in Nat /\ DOMAIN inbox = Positions /\ \A i \in Positions : inbox[i] \in InboxRows
  BY DEF RunsFit, Positions
<1>2. IsFiniteSet(Positions)
  BY <1>1, FS_Interval DEF Positions
<1>3. \A i \in Positions : inbox[i].on \in Nat /\ inbox[i].stamps \in Nat
  BY <1>1, NotificationsAssumption DEF InboxRows
<1> QED
  BY <1>1, <1>2, <1>3

\* A row that is written is the last one.
LEMMA InboxAppends ==
    ASSUME RunsFit, NEW row \in InboxRows, inbox' = Append(inbox, row), row.on <= today, today' = today
    PROVE  LET n == Len(inbox) + 1
           IN /\ n \notin Positions /\ Positions' = Positions \cup {n} /\ inbox'[n] = row
              /\ \A i \in Positions : inbox'[i] = inbox[i]
              /\ inbox' \in Seq(InboxRows) /\ \A i \in Positions' : inbox'[i].on <= today'
<1>1. inbox \in Seq(InboxRows) /\ Len(inbox) \in Nat
  BY InboxIsFunction DEF RunsFit
<1>2. inbox' \in Seq(InboxRows) /\ Len(inbox') = Len(inbox) + 1
  BY <1>1
<1>3. \A i \in Positions : inbox'[i] = inbox[i]
  BY <1>1 DEF Positions
<1>4. inbox'[Len(inbox) + 1] = row
  BY <1>1
<1>5. Positions' = Positions \cup {Len(inbox) + 1} /\ Len(inbox) + 1 \notin Positions
  BY <1>1, <1>2 DEF Positions
<1> QED
  BY <1>2, <1>3, <1>4, <1>5 DEF RunsFit

\* A stamp marks rows as delivered and changes nothing else of them.
LEMMA InboxStamps ==
    ASSUME RunsFit, StampsTell, NEW rows, inbox' = Stamped(Consumed(rows))
    PROVE  /\ Positions' = Positions /\ inbox' \in Seq(InboxRows)
           /\ \A i \in Positions :
                 /\ inbox'[i].cat = inbox[i].cat /\ inbox'[i].key = inbox[i].key /\ inbox'[i].on = inbox[i].on
                 /\ \/ inbox'[i].delivered = inbox[i].delivered /\ inbox'[i].stamps = inbox[i].stamps
                    \/ ~inbox[i].delivered /\ inbox'[i].delivered /\ inbox'[i].stamps = 1
<1> DEFINE hit == Consumed(rows)
           New(i) == IF i \in hit THEN [inbox[i] EXCEPT !.delivered = TRUE, !.stamps = @ + 1] ELSE inbox[i]
<1>1. \A i \in hit : ~inbox[i].delivered
  BY DEF Consumed
<1>2. inbox' = [i \in Positions |-> New(i)]
  BY DEF Stamped
<1>3. Len(inbox) \in Nat /\ Positions = 1..Len(inbox) /\ \A i \in Positions : inbox[i] \in InboxRows /\ inbox[i].stamps \in Nat
  BY InboxIsFunction DEF Positions
<1> HIDE DEF hit
<1>4. \A i \in Positions : New(i) \in InboxRows
  <2> SUFFICES ASSUME NEW i \in Positions PROVE New(i) \in InboxRows
    OBVIOUS
  <2> DEFINE row == inbox[i]
             n == row.stamps + 1
  <2>1. row \in InboxRows /\ n \in Nat
    BY <1>3
  <2>2. CASE i \in hit
    <3>1. New(i) = [row EXCEPT !.delivered = TRUE, !.stamps = n]
      BY <2>1, <2>2 DEF InboxRows
    <3> HIDE DEF New, row, n
    <3> QED
      BY <2>1, <3>1 DEF InboxRows
  <2>3. CASE i \notin hit
    BY <2>1, <2>3
  <2> QED
    BY <2>2, <2>3
<1>5. \A i \in Positions :
         /\ New(i).cat = inbox[i].cat /\ New(i).key = inbox[i].key /\ New(i).on = inbox[i].on
         /\ IF i \in hit THEN New(i).delivered /\ New(i).stamps = inbox[i].stamps + 1
            ELSE New(i).delivered = inbox[i].delivered /\ New(i).stamps = inbox[i].stamps
  <2> SUFFICES ASSUME NEW i \in Positions
               PROVE  /\ New(i).cat = inbox[i].cat /\ New(i).key = inbox[i].key /\ New(i).on = inbox[i].on
                      /\ IF i \in hit THEN New(i).delivered /\ New(i).stamps = inbox[i].stamps + 1
                         ELSE New(i).delivered = inbox[i].delivered /\ New(i).stamps = inbox[i].stamps
    OBVIOUS
  <2> DEFINE row == inbox[i]
  <2>1. row \in InboxRows
    BY <1>3
  <2>2. CASE i \in hit
    <3>1. New(i) = [row EXCEPT !.delivered = TRUE, !.stamps = row.stamps + 1]
      BY <2>1, <2>2 DEF InboxRows
    <3> HIDE DEF New, row
    <3>2. /\ New(i).cat = row.cat /\ New(i).key = row.key /\ New(i).on = row.on
          /\ New(i).delivered = TRUE /\ New(i).stamps = row.stamps + 1
      BY <2>1, <3>1 DEF InboxRows
    <3> QED
      BY <2>2, <3>2 DEF row
  <2>3. CASE i \notin hit
    BY <2>3
  <2> QED
    BY <2>2, <2>3
<1>6. \A i \in hit : i \in Positions => inbox[i].stamps = 0
  BY <1>1 DEF StampsTell
<1> HIDE DEF New
<1>7. inbox' \in [1..Len(inbox) -> InboxRows]
  BY <1>2, <1>3, <1>4
<1>8. inbox' \in Seq(InboxRows) /\ Len(inbox') = Len(inbox)
  BY <1>3, <1>7
<1>9. Positions' = Positions
  BY <1>8 DEF Positions
<1>10. \A i \in Positions :
          /\ inbox'[i].cat = inbox[i].cat /\ inbox'[i].key = inbox[i].key /\ inbox'[i].on = inbox[i].on
          /\ IF i \in hit THEN inbox'[i].delivered /\ inbox'[i].stamps = inbox[i].stamps + 1
             ELSE inbox'[i].delivered = inbox[i].delivered /\ inbox'[i].stamps = inbox[i].stamps
  BY <1>2, <1>5
<1>11. \A i \in Positions :
          \/ inbox'[i].delivered = inbox[i].delivered /\ inbox'[i].stamps = inbox[i].stamps
          \/ ~inbox[i].delivered /\ inbox'[i].delivered /\ inbox'[i].stamps = 1
  BY <1>1, <1>3, <1>6, <1>10
<1> QED
  BY <1>8, <1>9, <1>10, <1>11

\* One run moves on to a row that fits.
LEMMA RunReplaced ==
    ASSUME RunsFit, NEW w \in Runners, NEW r, RunFits(r), Step(w, r)
    PROVE  /\ \A u \in Runners : runner'[u] = IF u = w THEN r ELSE runner[u]
           /\ runner' \in [Runners -> RunRows] /\ \A u \in Runners : RunFits(runner'[u])
  BY DEF RunsFit, RunFits, Step

\* The counted sets are finite.
LEMMA CountedFinite ==
    ASSUME RunsFit
    PROVE  /\ \A k : /\ IsFiniteSet(ToldOf(k)) /\ IsFiniteSet(Owes(k))
                     /\ Cardinality(ToldOf(k)) \in Nat /\ Cardinality(Owes(k)) \in Nat
           /\ \A cat, d : IsFiniteSet(Alerts(cat, d)) /\ Cardinality(Alerts(cat, d)) \in Nat
           /\ \A cat : /\ IsFiniteSet(Sending(cat)) /\ Cardinality(Sending(cat)) \in Nat
                       /\ Cardinality(Sending(cat)) <= Cardinality(Runners)
           /\ Cardinality(Runners) \in Nat
<1>1. IsFiniteSet(Positions) /\ IsFiniteSet(Runners)
  BY InboxIsFunction, NotificationsAssumption
<1>2. \A k : ToldOf(k) \subseteq Positions /\ Owes(k) \subseteq Runners
  BY DEF ToldOf, Owes
<1>3. \A cat, d : Alerts(cat, d) \subseteq Positions /\ Sending(cat) \subseteq Runners
  BY DEF Alerts, Sending
<1> QED
  BY <1>1, <1>2, <1>3, FS_Subset, FS_CardinalityType

-----------------------------------------------------------------------------
\* What a step does that leaves the firings, the caps or the inbox alone.
LeavesClaims ==
    /\ UNCHANGED <<firing, releases>>
    /\ \A k \in FiringKeys : ToldOf(k)' = ToldOf(k) /\ Owes(k)' \subseteq Owes(k)
    /\ \A w \in Runners : runner'[w].pc = "mark" /\ runner'[w].decision # "suppress" => runner'[w] = runner[w]
LeavesCaps ==
    /\ today' = today
    /\ \A cat \in Capped : /\ \A d \in 0..LastDay : Alerts(cat, d)' = Alerts(cat, d)
                           /\ Sending(cat)' \subseteq Sending(cat)

\* A step that leaves the claims alone keeps them told as they were.
LEMMA ClaimsLeft == NotificationsInv /\ LeavesClaims => OwedOrTold' /\ MarkedAsTold'
<1> SUFFICES ASSUME NotificationsInv, LeavesClaims PROVE OwedOrTold' /\ MarkedAsTold'
  OBVIOUS
<1>1. RunsFit /\ OwedOrTold /\ MarkedAsTold /\ firing' = firing /\ releases' = releases
  BY DEF NotificationsInv, LeavesClaims
<1>2. ASSUME NEW k \in FiringKeys
      PROVE  /\ Cardinality(ToldOf(k)') = Cardinality(ToldOf(k)) /\ Cardinality(Owes(k)') <= Cardinality(Owes(k))
             /\ Cardinality(ToldOf(k)) \in Nat /\ Cardinality(Owes(k)) \in Nat /\ Cardinality(Owes(k)') \in Nat
  <2>1. ToldOf(k)' = ToldOf(k) /\ Owes(k)' \subseteq Owes(k)
    BY DEF LeavesClaims
  <2> QED
    BY <1>1, <2>1, CountedFinite, FS_Subset, FS_CardinalityType
<1>3. \A k \in FiringKeys : releases[k] \in Nat
  BY DEF NotificationsInv, NotificationsTypeOK
<1>4. OwedOrTold'
  <2> SUFFICES ASSUME NEW k \in FiringKeys
               PROVE  Cardinality(ToldOf(k)') + Cardinality(Owes(k)') <= releases[k] + (IF firing[k] = "none" THEN 0 ELSE 1)
    BY <1>1 DEF OwedOrTold
  <2>1. Cardinality(ToldOf(k)) + Cardinality(Owes(k)) <= releases[k] + (IF firing[k] = "none" THEN 0 ELSE 1)
    BY <1>1 DEF OwedOrTold
  <2> QED
    BY <1>2, <1>3, <2>1
<1>5. MarkedAsTold'
  <2>1. \A k \in FiringKeys : ToldOf(k)' = ToldOf(k) /\ Owes(k)' \subseteq Owes(k)
    BY DEF LeavesClaims
  <2>2. \A w \in Runners : runner'[w].pc = "mark" /\ runner'[w].decision # "suppress" => runner'[w] = runner[w]
    BY DEF LeavesClaims
  <2>3. \A w \in Runners, k \in FiringKeys :
           runner'[w].pc = "mark" /\ runner'[w].decision # "suppress" /\ runner'[w].key = k => ToldOf(k)' # {}
    BY <1>1, <2>1, <2>2 DEF MarkedAsTold
  <2>4. \A k \in FiringKeys :
           /\ firing[k] = "sent" => ToldOf(k)' # {}
           /\ firing[k] = "suppressed" /\ releases[k] = 0 => ToldOf(k)' = {} /\ Owes(k)' = {}
    BY <1>1, <2>1 DEF MarkedAsTold
  <2> QED
    BY <1>1, <2>3, <2>4 DEF MarkedAsTold
<1> QED
  BY <1>4, <1>5

\* A step that leaves the alerts alone keeps the caps.
LEMMA CapsLeft == NotificationsInv /\ LeavesCaps => CapsAhead'
<1> SUFFICES ASSUME NotificationsInv, LeavesCaps PROVE CapsAhead'
  OBVIOUS
<1>1. RunsFit /\ CapsAhead /\ today' = today /\ today \in 0..LastDay
  BY DEF NotificationsInv, LeavesCaps, NotificationsTypeOK
<1>2. ASSUME NEW cat \in Capped
      PROVE  Cardinality(Alerts(cat, today)') + Cardinality(Sending(cat)') <= Cap + Cardinality(Runners) - 1
  <2>1. Alerts(cat, today)' = Alerts(cat, today)
    BY <1>1 DEF LeavesCaps, Alerts
  <2>2. Sending(cat)' \subseteq Sending(cat)
    BY DEF LeavesCaps
  <2>3. Cardinality(Sending(cat)') <= Cardinality(Sending(cat)) /\ Cardinality(Sending(cat)') \in Nat
    BY <1>1, <2>2, CountedFinite, FS_Subset, FS_CardinalityType
  <2>4. Cardinality(Alerts(cat, today)) + Cardinality(Sending(cat)) <= Cap + Cardinality(Runners) - 1
    BY <1>1 DEF CapsAhead
  <2>5. Cardinality(Alerts(cat, today)) \in Nat /\ Cardinality(Sending(cat)) \in Nat /\ Cardinality(Runners) \in Nat
    BY <1>1, CountedFinite
  <2> QED
    BY <2>1, <2>3, <2>4, <2>5, NotificationsAssumption
<1>3. CapHolds'
  <2>1. \A cat \in Capped, d \in 0..LastDay : Alerts(cat, d)' = Alerts(cat, d)
    BY DEF LeavesCaps
  <2> QED
    BY <1>1, <2>1 DEF CapsAhead, CapHolds, Alerts, Capped
<1> QED
  BY <1>2, <1>3 DEF CapsAhead

\* A step that leaves the inbox alone keeps its stamps.
LEMMA StampsLeft == NotificationsInv /\ inbox' = inbox => StampsTell'
  BY DEF NotificationsInv, StampsTell, Positions

-----------------------------------------------------------------------------
\* Before the first day nothing is claimed and the inbox is empty.
LEMMA NotificationsInitInv == NotificationsInit => NotificationsInv
<1> SUFFICES ASSUME NotificationsInit PROVE NotificationsInv
  OBVIOUS
<1> USE NotificationsAssumption DEF NotificationsInit
<1>1. inbox = <<>> /\ Len(inbox) = 0 /\ Positions = {}
  BY DEF Positions
<1>2. RunFits(NoRun) /\ NoRun.pc = "idle" /\ NoRun \in RunRows
  BY DEF RunFits, RunRows, NoRun
<1>3. NotificationsTypeOK
  <2>1. cleaner.ids = {}
    BY DEF NoCleanup
  <2>2. \A w \in Runners : runner[w].pc = "idle"
    BY <1>2
  <2>3. occasion \in [live : BOOLEAN, on : 0..LastDay, yearly : BOOLEAN]
    OBVIOUS
  <2> QED
    BY <1>1, <2>1, <2>2, <2>3 DEF NotificationsTypeOK
<1>4. RunsFit
  BY <1>1, <1>2 DEF RunsFit
<1>5. StampsTell
  BY <1>1 DEF StampsTell
<1>6. Cardinality({}) = 0 /\ Cardinality(Runners) \in Nat
  BY FS_EmptySet, FS_CardinalityType
<1>7. \A k : ToldOf(k) = {} /\ Owes(k) = {}
  BY <1>1, <1>2 DEF ToldOf, Owes, Owing
<1>8. \A cat, d : Alerts(cat, d) = {} /\ Sending(cat) = {}
  BY <1>1, <1>2 DEF Alerts, Sending, ToSend
<1>9. OwedOrTold /\ MarkedAsTold
  <2>1. \A k \in FiringKeys : firing[k] = "none" /\ releases[k] = 0
    OBVIOUS
  <2>2. OwedOrTold
    <3> SUFFICES ASSUME NEW k \in FiringKeys
                 PROVE  Cardinality(ToldOf(k)) + Cardinality(Owes(k)) <= releases[k] + (IF firing[k] = "none" THEN 0 ELSE 1)
      BY DEF OwedOrTold
    <3>1. Cardinality(ToldOf(k)) = 0 /\ Cardinality(Owes(k)) = 0
      BY <1>6, <1>7
    <3> QED
      BY <2>1, <3>1
  <2>3. \A w \in Runners : runner[w].pc = "idle"
    BY <1>2
  <2> QED
    BY <2>1, <2>2, <2>3 DEF MarkedAsTold
<1>10. CapsAhead
  <2>1. \A cat \in Capped : Cardinality(Alerts(cat, today)) = 0 /\ Cardinality(Sending(cat)) = 0
    BY <1>6, <1>8
  <2>2. CapHolds
    <3>1. \A cat, d : Cardinality({i \in Positions : /\ inbox[i].cat = cat /\ inbox[i].on = d
                                                     /\ inbox[i].delivered /\ inbox[i].stamps = 0}) = 0
      BY <1>6, <1>8 DEF Alerts
    <3>2. 0 <= Cap + Cardinality(Runners) - 1
      BY <1>6
    <3>3. \A n : n = 0 => n <= Cap + Cardinality(Runners) - 1
      BY <3>2
    <3> HIDE DEF NotificationsInit
    <3> QED
      BY <3>1, <3>3, Zenon DEF CapHolds
  <2> QED
    BY <1>6, <2>1, <2>2 DEF CapsAhead
<1> QED
  BY <1>3, <1>4, <1>5, <1>9, <1>10 DEF NotificationsInv

\* The invariant gives what the run checks.
LEMMA NotificationsInvImplies == NotificationsInv => ToldAsDecided
<1> SUFFICES ASSUME NotificationsInv PROVE ToldAsDecided
  OBVIOUS
<1>1. FiresOnce
  <2> SUFFICES ASSUME NEW k \in FiringKeys PROVE Cardinality(ToldOf(k)) <= 1 + releases[k]
    BY DEF FiresOnce
  <2>1. Cardinality(ToldOf(k)) + Cardinality(Owes(k)) <= releases[k] + (IF firing[k] = "none" THEN 0 ELSE 1)
    BY DEF NotificationsInv, OwedOrTold
  <2>2. Cardinality(ToldOf(k)) \in Nat /\ Cardinality(Owes(k)) \in Nat
    BY CountedFinite DEF NotificationsInv
  <2>3. releases[k] \in Nat
    BY DEF NotificationsInv, NotificationsTypeOK
  <2> QED
    BY <2>1, <2>2, <2>3
<1>2. AuditTellsTheTruth
  BY DEF NotificationsInv, MarkedAsTold, AuditTellsTheTruth
<1>3. StampedOnce
  BY DEF NotificationsInv, StampsTell, StampedOnce
<1> QED
  BY <1>1, <1>2, <1>3 DEF NotificationsInv, CapsAhead, ToldAsDecided

\* A run that moves on while the tables stay as they are: it owes no more than
\* before, does not come to mark, and does not decide to send.
LEMMA RunMovesQuietly ==
    ASSUME NotificationsInv, NEW w \in Runners, NEW r, RunFits(r), Step(w, r),
           UNCHANGED <<today, firing, releases, inbox>>,
           \A k \in FiringKeys : Owing(r, k) => Owing(runner[w], k),
           r.pc \notin {"mark", "write"}
    PROVE  RunsFit' /\ LeavesClaims /\ LeavesCaps
<1>1. \A u \in Runners : runner'[u] = IF u = w THEN r ELSE runner[u]
  BY RunReplaced DEF NotificationsInv
<1>2. RunsFit'
  BY RunReplaced DEF NotificationsInv, RunsFit, Positions
<1>3. \A k \in FiringKeys : ToldOf(k)' = ToldOf(k) /\ Owes(k)' \subseteq Owes(k)
  BY <1>1 DEF ToldOf, Owes, Positions
<1>4. \A cat \in Capped : /\ \A d \in 0..LastDay : Alerts(cat, d)' = Alerts(cat, d)
                          /\ Sending(cat)' \subseteq Sending(cat)
  BY <1>1 DEF Alerts, Sending, ToSend, Positions
<1> QED
  BY <1>1, <1>2, <1>3, <1>4 DEF LeavesClaims, LeavesCaps

\* A step of nobody's run that leaves the firings and the inbox as they are.
LEMMA RunsStandStill ==
    ASSUME NotificationsInv, UNCHANGED <<today, firing, releases, inbox, runner>>
    PROVE  RunsFit' /\ LeavesClaims /\ LeavesCaps
<1>1. RunsFit'
  BY DEF NotificationsInv, RunsFit, Positions
<1>2. \A k \in FiringKeys : ToldOf(k)' = ToldOf(k) /\ Owes(k)' \subseteq Owes(k)
  BY DEF ToldOf, Owes, Positions
<1>3. \A cat \in Capped : /\ \A d \in 0..LastDay : Alerts(cat, d)' = Alerts(cat, d)
                          /\ Sending(cat)' \subseteq Sending(cat)
  BY DEF Alerts, Sending, Positions
<1> QED
  BY <1>1, <1>2, <1>3 DEF LeavesClaims, LeavesCaps

\* The runs and rows every step leaves are of their types again.
LEMMA RunsTyped ==
    ASSUME NotificationsInv, RunsFit', today' \in 0..LastDay, ownerVars' = ownerVars, down' \in 0..MaxDown,
           firing' \in [FiringKeys -> {"none", "claimed", "sent", "suppressed", "failed"}],
           releases' \in [FiringKeys -> Nat],
           cleaner'.ids \subseteq FiringKeys
    PROVE  NotificationsTypeOK'
<1>1. \A i \in Positions' : inbox'[i].cat \in {"reminder", "system", "security"}
  <2>1. inbox' \in Seq(InboxRows) /\ Positions' = 1..Len(inbox')
    BY DEF RunsFit, Positions
  <2>2. \A i \in Positions' : inbox'[i] \in InboxRows
    BY <2>1
  <2> QED
    BY <2>2 DEF InboxRows, Categories
<1>2. \A w \in Runners : runner'[w].pc \in {"idle", "scan", "decide", "write", "mark", "digest"}
  BY DEF RunsFit, RunFits, RunRows
<1> QED
  BY <1>1, <1>2 DEF NotificationsInv, NotificationsTypeOK, ownerVars

-----------------------------------------------------------------------------
\* The claims of the day are keys of the table.
LEMMA WindowIsKeys == ASSUME NotificationsTypeOK PROVE InWindow \subseteq FiringKeys
<1>1. ASSUME NEW d \in 0..LastDay, NextOccurrence(d) # -1 PROVE NextOccurrence(d) \in Occurrences
  BY <1>1, NotificationsAssumption DEF NotificationsTypeOK, NextOccurrence, Occurrences
<1> QED
  BY <1>1 DEF NotificationsTypeOK, InWindow, FiringKeys

\* The rows of a run: a fresh one, and the old one at another place.
LEMMA RunRowsFit ==
    ASSUME NotificationsInv
    PROVE  /\ RunFits(NoRun)
           /\ RunFits([NoRun EXCEPT !.pc = "scan", !.todo = InWindow])
           /\ \A cat \in Categories : RunFits([NoRun EXCEPT !.pc = "decide", !.cat = cat])
           /\ RunFits([NoRun EXCEPT !.pc = "digest", !.rows = Waiting])
<1>1. InWindow \subseteq FiringKeys
  BY WindowIsKeys DEF NotificationsInv
<1>2. Waiting \subseteq Nat
  BY DEF Waiting, Positions
<1> DEFINE a == InWindow
           b == Waiting
<1>3. a \in SUBSET FiringKeys /\ b \in SUBSET Nat
  BY <1>1, <1>2
<1> HIDE DEF a, b
<1>4. RunFits([NoRun EXCEPT !.pc = "scan", !.todo = a]) /\ RunFits([NoRun EXCEPT !.pc = "digest", !.rows = b])
  BY <1>3 DEF RunFits, RunRows, NoRun, Categories
<1>5. RunFits(NoRun) /\ \A cat \in Categories : RunFits([NoRun EXCEPT !.pc = "decide", !.cat = cat])
  BY DEF RunFits, RunRows, NoRun, Categories
<1> QED
  BY <1>4, <1>5 DEF a, b

\* A fresh run owes nothing.
LEMMA FreshRunsOweNothing ==
    ASSUME NEW k \in FiringKeys
    PROVE  /\ ~Owing(NoRun, k)
           /\ \A todo : ~Owing([NoRun EXCEPT !.pc = "scan", !.todo = todo], k)
           /\ \A cat : ~Owing([NoRun EXCEPT !.pc = "decide", !.cat = cat], k)
           /\ \A rows : ~Owing([NoRun EXCEPT !.pc = "digest", !.rows = rows], k)
<1>1. k # NoKey
  BY NotificationsAssumption DEF FiringKeys, NoKey
<1> QED
  BY <1>1 DEF Owing, NoRun

\* Runs that begin, end, die or are passed over.
LEMMA QuietSteps ==
    ASSUME NotificationsInv, NEW w \in Runners,
           \/ ReminderRun(w) \/ ReminderRunEnds(w) \/ RunnerDies(w) \/ DigestRun(w)
           \/ \E cat \in {"system", "security"} : Trigger(w, cat)
    PROVE  NotificationsTypeOK' /\ RunsFit' /\ LeavesClaims /\ LeavesCaps /\ inbox' = inbox
<1>1. PICK r : /\ RunFits(r) /\ Step(w, r) /\ r.pc \notin {"mark", "write"} /\ \A k \in FiringKeys : ~Owing(r, k)
  <2>1. CASE ReminderRun(w)
    <3> DEFINE r == [NoRun EXCEPT !.pc = "scan", !.todo = InWindow]
    <3>1. r.pc = "scan"
      BY DEF NoRun
    <3>2. RunFits(r) /\ Step(w, r) /\ \A k \in FiringKeys : ~Owing(r, k)
      BY <2>1, RunRowsFit, FreshRunsOweNothing DEF ReminderRun
    <3> HIDE DEF r
    <3> QED
      BY <3>1, <3>2
  <2>2. CASE DigestRun(w)
    <3> DEFINE r == [NoRun EXCEPT !.pc = "digest", !.rows = Waiting]
    <3>1. r.pc = "digest"
      BY DEF NoRun
    <3>2. RunFits(r) /\ Step(w, r) /\ \A k \in FiringKeys : ~Owing(r, k)
      BY <2>2, RunRowsFit, FreshRunsOweNothing DEF DigestRun
    <3> HIDE DEF r
    <3> QED
      BY <3>1, <3>2
  <2>3. CASE ReminderRunEnds(w) \/ RunnerDies(w)
    <3>1. NoRun.pc = "idle"
      BY DEF NoRun
    <3>2. RunFits(NoRun) /\ Step(w, NoRun) /\ \A k \in FiringKeys : ~Owing(NoRun, k)
      BY <2>3, RunRowsFit, FreshRunsOweNothing DEF ReminderRunEnds, RunnerDies
    <3> QED
      BY <3>1, <3>2
  <2>4. CASE \E cat \in {"system", "security"} : Trigger(w, cat)
    <3>1. PICK cat \in {"system", "security"} : Trigger(w, cat)
      BY <2>4
    <3> DEFINE r == [NoRun EXCEPT !.pc = "decide", !.cat = cat]
    <3>2. r.pc = "decide" /\ cat \in Categories
      BY DEF NoRun, Categories
    <3>3. RunFits(r) /\ Step(w, r) /\ \A k \in FiringKeys : ~Owing(r, k)
      BY <3>1, <3>2, RunRowsFit, FreshRunsOweNothing DEF Trigger
    <3> HIDE DEF r
    <3> QED
      BY <3>2, <3>3
  <2> QED
    BY <2>1, <2>2, <2>3, <2>4
<1>2. UNCHANGED <<today, ownerVars, firingVars, inbox, cleaner>> /\ down' \in 0..MaxDown
  BY NotificationsAssumption
  DEF NotificationsInv, NotificationsTypeOK, ReminderRun, ReminderRunEnds, RunnerDies, DigestRun, Trigger
<1>3. RunsFit' /\ LeavesClaims /\ LeavesCaps
  BY <1>1, <1>2, RunMovesQuietly DEF firingVars
<1>4. NotificationsTypeOK'
  BY <1>2, <1>3, RunsTyped DEF NotificationsInv, NotificationsTypeOK, firingVars, ownerVars
<1> QED
  BY <1>2, <1>3, <1>4

\* The owner's edits and the cleanup's scan touch neither rows nor firings.
LEMMA OwnerSteps ==
    ASSUME NotificationsInv, OwnerEdits \/ \E force \in BOOLEAN : CleanupScan(force)
    PROVE  NotificationsTypeOK' /\ RunsFit' /\ LeavesClaims /\ LeavesCaps /\ inbox' = inbox
<1>1. UNCHANGED <<today, firingVars, inbox, runner, down>>
  BY DEF OwnerEdits, CleanupScan
<1>2. RunsFit' /\ LeavesClaims /\ LeavesCaps
  BY <1>1, RunsStandStill DEF firingVars
<1>3. NotificationsTypeOK'
  <2>1. CASE OwnerEdits
    <3>1. enabled' \subseteq Reminders /\ optOuts' \subseteq {"reminder", "system"} /\ digestOn' \in BOOLEAN
      BY <2>1 DEF NotificationsInv, NotificationsTypeOK, OwnerEdits
    <3>2. occasion' \in [live : BOOLEAN, on : 0..LastDay, yearly : BOOLEAN]
      BY <2>1 DEF NotificationsInv, NotificationsTypeOK, OwnerEdits
    <3>3. cleaner' = cleaner
      BY <2>1 DEF OwnerEdits
    <3> QED
      BY <1>1, <3>1, <3>2, <3>3 DEF NotificationsInv, NotificationsTypeOK, firingVars, Positions
  <2>2. CASE \E force \in BOOLEAN : CleanupScan(force)
    <3>1. ownerVars' = ownerVars /\ cleaner'.ids \subseteq FiringKeys
      BY <2>2 DEF CleanupScan
    <3> QED
      BY <1>1, <1>2, <3>1, RunsTyped DEF NotificationsInv, NotificationsTypeOK, firingVars
  <2> QED
    BY <2>1, <2>2
<1> QED
  BY <1>1, <1>2, <1>3

\* On a new day nothing has been sent yet, and the runs that will send are at
\* most all of them.
LEMMA DaySteps ==
    ASSUME NotificationsInv, NextDay
    PROVE  NotificationsTypeOK' /\ RunsFit' /\ LeavesClaims /\ CapsAhead' /\ inbox' = inbox
<1>1. UNCHANGED <<ownerVars, firingVars, inbox, runner, cleaner, down>> /\ today' = today + 1 /\ today' \in 0..LastDay
  BY NotificationsAssumption DEF NextDay, NotificationsInv, NotificationsTypeOK
<1>2. today \in Nat /\ RunsFit
  BY NotificationsAssumption DEF NotificationsInv, NotificationsTypeOK
<1>3. \A i \in Positions : inbox[i].on <= today /\ inbox[i].on \in Nat
  BY <1>2, InboxIsFunction DEF RunsFit
<1>4. RunsFit'
  <2>1. \A i \in Positions : inbox[i].on <= today + 1
    BY <1>2, <1>3
  <2> QED
    BY <1>1, <1>2, <2>1 DEF RunsFit, Positions
<1>5. LeavesClaims
  BY <1>1 DEF LeavesClaims, firingVars, ToldOf, Owes, Positions
<1>6. CapsAhead'
  <2>1. ASSUME NEW cat \in Capped
        PROVE  Cardinality(Alerts(cat, today)') + Cardinality(Sending(cat)') <= Cap + Cardinality(Runners) - 1
    <3>1. Alerts(cat, today)' = {}
      BY <1>1, <1>2, <1>3 DEF Alerts, Positions
    <3>2. Sending(cat)' = Sending(cat)
      BY <1>1 DEF Sending
    <3>3. Cardinality(Sending(cat)) \in Nat /\ Cardinality(Sending(cat)) <= Cardinality(Runners) /\ Cardinality(Runners) \in Nat
      BY <1>2, CountedFinite
    <3>4. Cardinality(Alerts(cat, today)') = 0
      BY <3>1, FS_EmptySet
    <3> QED
      BY <3>2, <3>3, <3>4, NotificationsAssumption
  <2>2. CapHolds'
    BY <1>1 DEF NotificationsInv, CapsAhead, CapHolds, Positions
  <2> QED
    BY <2>1, <2>2 DEF CapsAhead
<1>7. NotificationsTypeOK'
  BY <1>1, <1>4, RunsTyped DEF NotificationsInv, NotificationsTypeOK, firingVars
<1> QED
  BY <1>1, <1>4, <1>5, <1>6, <1>7

-----------------------------------------------------------------------------
\* A run decides within the cap: the rows of the day are fewer than the cap, the
\* others that are about to write fewer than the runs.
LEMMA DecideSteps ==
    ASSUME NotificationsInv, NEW w \in Runners, Decide(w)
    PROVE  NotificationsTypeOK' /\ RunsFit' /\ LeavesClaims /\ CapsAhead' /\ inbox' = inbox
<1>1. RunsFit /\ NotificationsTypeOK /\ CapsAhead
  BY DEF NotificationsInv
<1>2. PICK d \in Decisions(runner[w].cat) : Step(w, [runner[w] EXCEPT !.pc = "write", !.decision = d])
  BY DEF Decide
<1> DEFINE r == [runner[w] EXCEPT !.pc = "write", !.decision = d]
           c == runner[w].cat
<1>3. runner[w] \in RunRows /\ runner[w].pc = "decide" /\ c \in Categories
  BY <1>1 DEF Decide, RunsFit, RunFits
<1>4. d \in {"send", "queue", "suppress"}
  BY <1>2 DEF Decisions
<1>5. r \in RunRows /\ r.pc = "write" /\ r.decision = d /\ r.cat = c /\ r.key = runner[w].key
  BY <1>3, <1>4 DEF RunRows
<1>6. UNCHANGED <<today, ownerVars, firingVars, inbox, cleaner, down>> /\ Step(w, r)
  BY <1>2 DEF Decide
<1> HIDE DEF r
<1>7. RunFits(r)
  BY <1>3, <1>4, <1>5 DEF RunFits
<1>8. /\ \A u \in Runners : runner'[u] = IF u = w THEN r ELSE runner[u]
      /\ runner' \in [Runners -> RunRows] /\ \A u \in Runners : RunFits(runner'[u])
  BY <1>1, <1>6, <1>7, RunReplaced
<1>9. RunsFit'
  BY <1>1, <1>6, <1>8 DEF RunsFit, Positions
<1>10. LeavesClaims
  <2>1. \A k \in FiringKeys : Owing(r, k) => Owing(runner[w], k)
    BY <1>3, <1>5 DEF Owing
  <2>2. \A k \in FiringKeys : ToldOf(k)' = ToldOf(k) /\ Owes(k)' \subseteq Owes(k)
    BY <1>6, <1>8, <2>1 DEF ToldOf, Owes, Positions
  <2> QED
    BY <1>5, <1>6, <1>8, <2>2 DEF LeavesClaims, firingVars
<1>11. CapsAhead'
  <2>1. ASSUME NEW cat \in Capped
        PROVE  Cardinality(Alerts(cat, today)') + Cardinality(Sending(cat)') <= Cap + Cardinality(Runners) - 1
    <3>1. Alerts(cat, today)' = Alerts(cat, today)
      BY <1>6 DEF Alerts, Positions
    <3>2. Cardinality(Alerts(cat, today)) \in Nat /\ Cardinality(Sending(cat)) \in Nat /\ Cardinality(Runners) \in Nat
      BY <1>1, CountedFinite
    <3>3. CASE d = "send" /\ c = cat
      <4>1. cat # "security" /\ ~AtCap(DailyCount(cat))
        <5>1. cat # "security"
          BY DEF Capped
        <5> QED
          BY <1>2, <3>3, <5>1 DEF Decisions
      <4>2. Alerts(cat, today) \subseteq {i \in Positions : inbox[i].cat = cat /\ inbox[i].on = today}
        BY DEF Alerts
      <4>3. IsFiniteSet({i \in Positions : inbox[i].cat = cat /\ inbox[i].on = today})
        BY <1>1, InboxIsFunction, FS_Subset
      <4>4. Cardinality(Alerts(cat, today)) <= DailyCount(cat) /\ DailyCount(cat) \in Nat
        BY <4>2, <4>3, FS_Subset, FS_CardinalityType DEF DailyCount
      <4>5. DailyCount(cat) < Cap
        BY <4>1, <4>4, NotificationsAssumption DEF AtCap
      <4>6. Sending(cat)' \subseteq Runners
        BY DEF Sending
      <4>7. Cardinality(Sending(cat)') <= Cardinality(Runners) /\ Cardinality(Sending(cat)') \in Nat
        BY <4>6, NotificationsAssumption, FS_Subset, FS_CardinalityType
      <4> QED
        BY <3>1, <3>2, <4>4, <4>5, <4>7, NotificationsAssumption
    <3>4. CASE ~(d = "send" /\ c = cat)
      <4>1. Sending(cat)' \subseteq Sending(cat)
        BY <1>5, <1>8, <3>4 DEF Sending, ToSend
      <4>2. Cardinality(Sending(cat)') <= Cardinality(Sending(cat)) /\ Cardinality(Sending(cat)') \in Nat
        BY <1>1, <4>1, CountedFinite, FS_Subset, FS_CardinalityType
      <4>3. Cardinality(Alerts(cat, today)) + Cardinality(Sending(cat)) <= Cap + Cardinality(Runners) - 1
        BY <1>1 DEF CapsAhead
      <4> QED
        BY <3>1, <3>2, <4>2, <4>3, NotificationsAssumption
    <3> QED
      BY <3>3, <3>4
  <2>2. CapHolds'
    BY <1>1, <1>6 DEF CapsAhead, CapHolds, Positions
  <2> QED
    BY <1>6, <2>1, <2>2 DEF CapsAhead
<1>12. NotificationsTypeOK'
  BY <1>1, <1>6, <1>9, RunsTyped DEF NotificationsTypeOK, firingVars
<1> QED
  BY <1>6, <1>9, <1>10, <1>11, <1>12

\* What a claim, a mark or a release must keep of one firing, when the rows
\* stay as they are.
FiringKept(k) ==
    /\ Cardinality(ToldOf(k)) + Cardinality(Owes(k)') <= releases'[k] + (IF firing'[k] = "none" THEN 0 ELSE 1)
    /\ firing'[k] = "sent" => ToldOf(k) # {}
    /\ firing'[k] = "suppressed" /\ releases'[k] = 0 => ToldOf(k) = {} /\ Owes(k)' = {}
    /\ \A u \in Runners : runner'[u].pc = "mark" /\ runner'[u].decision # "suppress" /\ runner'[u].key = k => ToldOf(k) # {}

\* A firing nobody touches is kept.
LEMMA OtherFiringsKept ==
    ASSUME NotificationsInv, NEW k \in FiringKeys, firing'[k] = firing[k], releases'[k] = releases[k],
           Owes(k)' \subseteq Owes(k),
           \A u \in Runners : runner'[u].pc = "mark" /\ runner'[u].decision # "suppress" /\ runner'[u].key = k
                             => runner'[u] = runner[u]
    PROVE  FiringKept(k)
<1>1. /\ Cardinality(Owes(k)') <= Cardinality(Owes(k)) /\ Cardinality(Owes(k)) \in Nat /\ Cardinality(Owes(k)') \in Nat
      /\ Cardinality(ToldOf(k)) \in Nat
  BY CountedFinite, FS_Subset, FS_CardinalityType DEF NotificationsInv
<1>2. Cardinality(ToldOf(k)) + Cardinality(Owes(k)) <= releases[k] + (IF firing[k] = "none" THEN 0 ELSE 1)
  BY DEF NotificationsInv, OwedOrTold
<1>3. releases[k] \in Nat
  BY DEF NotificationsInv, NotificationsTypeOK
<1>4. Cardinality(ToldOf(k)) + Cardinality(Owes(k)') <= releases'[k] + (IF firing'[k] = "none" THEN 0 ELSE 1)
  BY <1>1, <1>2, <1>3
<1> QED
  BY <1>4 DEF NotificationsInv, MarkedAsTold, FiringKept

\* Firings that are kept make the claims hold.
LEMMA KeptFiringsHold ==
    ASSUME inbox' = inbox, \A k \in FiringKeys : FiringKept(k)
    PROVE  OwedOrTold' /\ MarkedAsTold'
<1>1. \A k \in FiringKeys : ToldOf(k)' = ToldOf(k)
  BY DEF ToldOf, Positions
<1>2. OwedOrTold'
  BY <1>1 DEF OwedOrTold, FiringKept
<1>3. MarkedAsTold'
  BY <1>1 DEF MarkedAsTold, FiringKept
<1> QED
  BY <1>2, <1>3

\* A free key is claimed, or passed over.
LEMMA ClaimSteps ==
    ASSUME NotificationsInv, NEW w \in Runners, NEW k \in FiringKeys, ClaimReminder(w, k)
    PROVE  NotificationsTypeOK' /\ RunsFit' /\ OwedOrTold' /\ MarkedAsTold' /\ LeavesCaps /\ inbox' = inbox
<1>1. RunsFit /\ NotificationsTypeOK
  BY DEF NotificationsInv
<1>2. runner[w] \in RunRows /\ RunFits(runner[w]) /\ runner[w].pc = "scan" /\ runner[w].key = NoKey
  BY <1>1 DEF ClaimReminder, RunsFit, RunFits
<1>3. UNCHANGED <<today, ownerVars, releases, inbox, cleaner, down>>
  BY DEF ClaimReminder
<1> DEFINE left == runner[w].todo \ {k}
           r == [runner[w] EXCEPT !.pc = "decide", !.todo = left, !.key = k, !.cat = "reminder"]
           s == [runner[w] EXCEPT !.todo = left]
<1>4. left \in SUBSET FiringKeys
  BY <1>2 DEF RunRows
<1>5. \/ /\ firing[k] = "none" /\ firing' = [firing EXCEPT ![k] = "claimed"] /\ Step(w, r)
      \/ firing' = firing /\ Step(w, s)
  BY DEF ClaimReminder, ClaimFree
<1>6. k # NoKey
  BY NotificationsAssumption DEF FiringKeys, NoKey
<1> HIDE DEF left
<1>7. r \in RunRows /\ r.pc = "decide" /\ r.key = k /\ r.cat = "reminder"
  BY <1>2, <1>4 DEF RunRows, Categories
<1>8. s \in RunRows /\ s.pc = "scan" /\ s.key = NoKey
  BY <1>2, <1>4 DEF RunRows
<1> HIDE DEF r, s
<1>9. RunFits(r) /\ RunFits(s)
  BY <1>6, <1>7, <1>8 DEF RunFits, Categories
<1>10. CASE firing' = firing /\ Step(w, s)
  <2>1. \A x \in FiringKeys : ~Owing(s, x)
    BY <1>8 DEF Owing
  <2>2. RunsFit' /\ LeavesClaims /\ LeavesCaps
    BY <1>3, <1>8, <1>9, <1>10, <2>1, RunMovesQuietly
  <2> QED
    BY <1>1, <1>3, <1>10, <2>2, ClaimsLeft, RunsTyped DEF NotificationsTypeOK
<1>11. CASE /\ firing[k] = "none" /\ firing' = [firing EXCEPT ![k] = "claimed"] /\ Step(w, r)
  <2>1. /\ \A u \in Runners : runner'[u] = IF u = w THEN r ELSE runner[u]
        /\ runner' \in [Runners -> RunRows] /\ \A u \in Runners : RunFits(runner'[u])
    BY <1>1, <1>9, <1>11, RunReplaced
  <2>2. RunsFit'
    BY <1>1, <1>3, <2>1 DEF RunsFit, Positions
  <2>3. LeavesCaps
    BY <1>3, <1>7, <2>1 DEF LeavesCaps, Alerts, Sending, ToSend, Positions
  <2>4. firing'[k] = "claimed" /\ \A x \in FiringKeys : x # k => firing'[x] = firing[x]
    BY <1>1, <1>11 DEF NotificationsTypeOK
  <2>5. FiringKept(k)
    <3>1. Owes(k) \ {w} = Owes(k)' \ {w} /\ IsFiniteSet(Owes(k)) /\ w \notin Owes(k)
      BY <1>1, <1>2, <2>1, CountedFinite DEF Owes, Owing
    <3>2. Cardinality(Owes(k)') <= Cardinality(Owes(k)) + 1
      BY <3>1, SizeMoves
    <3>3. Cardinality(ToldOf(k)) + Cardinality(Owes(k)) <= releases[k] + (IF firing[k] = "none" THEN 0 ELSE 1)
      BY DEF NotificationsInv, OwedOrTold
    <3>4. /\ Cardinality(ToldOf(k)) \in Nat /\ Cardinality(Owes(k)) \in Nat /\ releases[k] \in Nat
          /\ Cardinality(Owes(k)') \in Nat
      <4>1. IsFiniteSet(Owes(k)')
        BY NotificationsAssumption, FS_Subset DEF Owes
      <4> QED
        BY <1>1, <4>1, CountedFinite, FS_CardinalityType DEF NotificationsTypeOK
    <3>5. Cardinality(ToldOf(k)) + Cardinality(Owes(k)') <= releases'[k] + (IF firing'[k] = "none" THEN 0 ELSE 1)
      BY <1>3, <1>11, <2>4, <3>2, <3>3, <3>4
    <3>6. \A u \in Runners : runner'[u].pc = "mark" => runner'[u] = runner[u]
      BY <1>7, <2>1
    <3> QED
      BY <2>4, <3>5, <3>6 DEF FiringKept, NotificationsInv, MarkedAsTold
  <2>6. ASSUME NEW x \in FiringKeys, x # k PROVE FiringKept(x)
    <3>1. Owes(x)' \subseteq Owes(x)
      BY <1>7, <2>1, <2>6 DEF Owes, Owing
    <3>2. \A u \in Runners : runner'[u].pc = "mark" => runner'[u] = runner[u]
      BY <1>7, <2>1
    <3> QED
      BY <1>3, <2>4, <2>6, <3>1, <3>2, OtherFiringsKept
  <2>7. OwedOrTold' /\ MarkedAsTold'
    BY <1>3, <2>5, <2>6, KeptFiringsHold
  <2>8. firing' \in [FiringKeys -> {"none", "claimed", "sent", "suppressed", "failed"}]
    BY <1>1, <1>11 DEF NotificationsTypeOK
  <2>9. NotificationsTypeOK'
    BY <1>1, <1>3, <2>2, <2>8, RunsTyped DEF NotificationsTypeOK
  <2> QED
    BY <1>3, <2>2, <2>3, <2>7, <2>9
<1> QED
  BY <1>5, <1>10, <1>11

-----------------------------------------------------------------------------
\* A row is written, or the run goes on as suppressed.
LEMMA WriteSteps ==
    ASSUME NotificationsInv, NEW w \in Runners, WriteRow(w)
    PROVE  NotificationsTypeOK' /\ RunsFit' /\ StampsTell' /\ OwedOrTold' /\ MarkedAsTold' /\ CapsAhead'
<1>1. RunsFit /\ NotificationsTypeOK /\ StampsTell /\ MarkedAsTold /\ CapsAhead
  BY DEF NotificationsInv
<1>2. /\ runner[w] \in RunRows /\ runner[w].pc = "write" /\ runner[w].cat \in Categories
      /\ today \in 0..LastDay /\ UNCHANGED <<today, ownerVars, firingVars, cleaner>> /\ down' \in 0..MaxDown
  BY <1>1, NotificationsAssumption DEF WriteRow, RunsFit, RunFits, NotificationsTypeOK
<1> DEFINE own == runner[w].key
           c == runner[w].cat
           row == [cat |-> c, key |-> own, on |-> today, summary |-> runner[w].rows, stamps |-> 0,
                   delivered |-> runner[w].decision = "send"]
           wrote(d) == d # "suppress" /\ inbox' = Append(inbox, row) /\ Step(w, AfterWrite(w, d))
<1>3. \/ runner[w].decision # "suppress" /\ wrote(runner[w].decision)
      \/ inbox' = inbox /\ Step(w, AfterWrite(w, "suppress"))
  BY DEF WriteRow
<1>4. own \in FiringKeys \cup {NoKey} /\ row \in InboxRows
  BY <1>2 DEF RunRows, InboxRows
<1>5. ASSUME NEW d \in {"none", "send", "queue", "suppress"}, d = "none" => own = NoKey
      PROVE  /\ RunFits(AfterWrite(w, d)) /\ AfterWrite(w, d).pc \in {"idle", "mark"}
             /\ AfterWrite(w, d).pc = "mark" => AfterWrite(w, d).key = own /\ AfterWrite(w, d).decision = d /\ own # NoKey
             /\ AfterWrite(w, d).pc = "idle" => AfterWrite(w, d).key = NoKey /\ own = NoKey
  <2>1. CASE own = NoKey
    <3>1. AfterWrite(w, d) = NoRun
      BY <2>1 DEF AfterWrite
    <3>2. NoRun.pc = "idle" /\ NoRun.key = NoKey
      BY DEF NoRun
    <3> QED
      BY <2>1, <3>1, <3>2, RunRowsFit
  <2>2. CASE own # NoKey
    <3> DEFINE a == [runner[w] EXCEPT !.pc = "mark", !.decision = d]
    <3>1. AfterWrite(w, d) = a
      BY <2>2 DEF AfterWrite
    <3>2. a \in RunRows /\ a.pc = "mark" /\ a.decision = d /\ a.key = own
      BY <1>2 DEF RunRows
    <3> HIDE DEF a, own
    <3> QED
      BY <1>5, <2>2, <3>1, <3>2 DEF RunFits
  <2> QED
    BY <2>1, <2>2
<1>6. CASE inbox' = inbox /\ Step(w, AfterWrite(w, "suppress"))
  <2> DEFINE r == AfterWrite(w, "suppress")
  <2>1. /\ RunFits(r) /\ Step(w, r) /\ r.pc \in {"idle", "mark"}
        /\ r.pc = "mark" => r.key = own /\ r.decision = "suppress"
    BY <1>5, <1>6
  <2> HIDE DEF r
  <2>2. /\ \A u \in Runners : runner'[u] = IF u = w THEN r ELSE runner[u]
        /\ runner' \in [Runners -> RunRows] /\ \A u \in Runners : RunFits(runner'[u])
    BY <1>1, <2>1, RunReplaced
  <2>3. RunsFit'
    BY <1>1, <1>2, <1>6, <2>2 DEF RunsFit, Positions
  <2>4. \A k \in FiringKeys : ToldOf(k)' = ToldOf(k) /\ Owes(k)' \subseteq Owes(k)
    BY <1>2, <1>6, <2>1, <2>2 DEF ToldOf, Owes, Owing, Positions
  <2>5. LeavesClaims
    BY <1>2, <2>1, <2>2, <2>4 DEF LeavesClaims, firingVars
  <2>6. LeavesCaps
    BY <1>2, <1>6, <2>1, <2>2 DEF LeavesCaps, Alerts, Sending, ToSend, Positions
  <2>7. NotificationsTypeOK'
    BY <1>1, <1>2, <2>3, RunsTyped DEF NotificationsTypeOK, firingVars
  <2> QED
    BY <1>6, <2>3, <2>5, <2>6, <2>7, ClaimsLeft, CapsLeft, StampsLeft
<1>7. CASE runner[w].decision # "suppress" /\ wrote(runner[w].decision)
  <2> DEFINE d == runner[w].decision
             r == AfterWrite(w, d)
             n == Len(inbox) + 1
  <2>1. d \in {"send", "queue"} \/ (d = "none")
    BY <1>2, <1>7 DEF RunRows
  <2>2. /\ RunFits(r) /\ Step(w, r) /\ r.pc \in {"idle", "mark"}
        /\ r.pc = "mark" => r.key = own /\ r.decision # "suppress"
        /\ r.pc = "idle" => r.key = NoKey
    <3>1. d = "none" => own = NoKey
      BY <1>1, <1>2 DEF RunsFit, RunFits
    <3> QED
      BY <1>5, <1>7, <2>1, <3>1
  <2>3. inbox' = Append(inbox, row) /\ row.on = today /\ today' = today /\ row.on <= today
    <3>1. today \in Nat
      BY <1>2, NotificationsAssumption
    <3> QED
      BY <1>2, <1>7, <3>1
  <2>4. /\ row.cat = c /\ row.key = own /\ row.stamps = 0 /\ (row.delivered <=> d = "send")
    OBVIOUS
  <2> HIDE DEF r, row, n
  <2>5. /\ \A u \in Runners : runner'[u] = IF u = w THEN r ELSE runner[u]
        /\ runner' \in [Runners -> RunRows] /\ \A u \in Runners : RunFits(runner'[u])
    BY <1>1, <2>2, RunReplaced
  <2>6. /\ n \notin Positions /\ Positions' = Positions \cup {n} /\ inbox'[n] = row
        /\ \A i \in Positions : inbox'[i] = inbox[i]
        /\ inbox' \in Seq(InboxRows) /\ \A i \in Positions' : inbox'[i].on <= today'
    BY <1>1, <1>4, <2>3, InboxAppends DEF n
  <2>7. RunsFit'
    BY <2>5, <2>6 DEF RunsFit
  <2>8. StampsTell'
    BY <1>1, <2>4, <2>6 DEF StampsTell
  <2>9. ASSUME NEW k \in FiringKeys
        PROVE  ToldOf(k)' = (IF k = own THEN ToldOf(k) \cup {n} ELSE ToldOf(k)) /\ n \notin ToldOf(k)
    BY <2>4, <2>6 DEF ToldOf
  <2>10. ASSUME NEW k \in FiringKeys
         PROVE  Owes(k)' = Owes(k) \ {w} /\ (w \in Owes(k) <=> k = own)
    <3>1. k # NoKey
      BY NotificationsAssumption DEF FiringKeys, NoKey
    <3> QED
      BY <1>2, <2>2, <2>5, <3>1 DEF Owes, Owing
  <2>11. OwedOrTold'
    <3> SUFFICES ASSUME NEW k \in FiringKeys
                 PROVE  Cardinality(ToldOf(k)') + Cardinality(Owes(k)') <= releases[k] + (IF firing[k] = "none" THEN 0 ELSE 1)
      BY <1>2 DEF OwedOrTold, firingVars
    <3>1. /\ IsFiniteSet(ToldOf(k)) /\ IsFiniteSet(Owes(k))
          /\ Cardinality(ToldOf(k)) \in Nat /\ Cardinality(Owes(k)) \in Nat
      BY <1>1, CountedFinite
    <3>2. Cardinality(ToldOf(k)') = Cardinality(ToldOf(k)) + (IF k = own THEN 1 ELSE 0)
      BY <2>9, <3>1, FS_AddElement
    <3>3. Cardinality(Owes(k)') = Cardinality(Owes(k)) - (IF k = own THEN 1 ELSE 0)
      BY <2>10, <3>1, FS_RemoveElement
    <3>4. Cardinality(ToldOf(k)) + Cardinality(Owes(k)) <= releases[k] + (IF firing[k] = "none" THEN 0 ELSE 1)
      BY DEF NotificationsInv, OwedOrTold
    <3>5. Cardinality(ToldOf(k)') + Cardinality(Owes(k)') = Cardinality(ToldOf(k)) + Cardinality(Owes(k))
      BY <3>1, <3>2, <3>3
    <3> QED
      BY <3>4, <3>5
  <2>12. MarkedAsTold'
    <3>1. \A k \in FiringKeys : ToldOf(k) \subseteq ToldOf(k)' /\ (k = own => ToldOf(k)' # {})
      BY <2>9
    <3>2. \A u \in Runners, k \in FiringKeys :
             runner'[u].pc = "mark" /\ runner'[u].decision # "suppress" /\ runner'[u].key = k => ToldOf(k)' # {}
      BY <1>1, <2>2, <2>5, <3>1 DEF MarkedAsTold
    <3>3. \A k \in FiringKeys :
             /\ firing[k] = "sent" => ToldOf(k)' # {}
             /\ firing[k] = "suppressed" /\ releases[k] = 0 => ToldOf(k)' = {} /\ Owes(k)' = {}
      BY <1>1, <2>9, <2>10, <3>1 DEF MarkedAsTold
    <3> QED
      BY <1>2, <3>2, <3>3 DEF MarkedAsTold, firingVars
  <2>13. ASSUME NEW cat \in Capped, NEW e \in 0..LastDay
         PROVE  /\ Alerts(cat, e)' = IF e = today /\ cat = c /\ d = "send" THEN Alerts(cat, e) \cup {n} ELSE Alerts(cat, e)
                /\ n \notin Alerts(cat, e)
    <3>1. n \notin Alerts(cat, e)
      BY <2>6 DEF Alerts
    <3>2. \A i \in Positions : i \in Alerts(cat, e)' <=> i \in Alerts(cat, e)
      BY <2>6 DEF Alerts
    <3>3. n \in Alerts(cat, e)' <=> e = today /\ cat = c /\ d = "send"
      BY <2>3, <2>4, <2>6 DEF Alerts
    <3>4. Alerts(cat, e) \subseteq Positions /\ Alerts(cat, e)' \subseteq Positions \cup {n}
      BY <2>6 DEF Alerts
    <3> QED
      BY <3>1, <3>2, <3>3, <3>4
  <2>14. ASSUME NEW cat \in Capped
         PROVE  Sending(cat)' = Sending(cat) \ {w} /\ (w \in Sending(cat) <=> cat = c /\ d = "send")
    BY <1>2, <2>2, <2>5 DEF Sending, ToSend
  <2>15. ASSUME NEW cat \in Capped
         PROVE  /\ Cardinality(Alerts(cat, today)') + Cardinality(Sending(cat)') <= Cap + Cardinality(Runners) - 1
                /\ \A e \in 0..LastDay : Cardinality(Alerts(cat, e)') <= Cap + Cardinality(Runners) - 1
    <3>1. /\ \A e : IsFiniteSet(Alerts(cat, e)) /\ Cardinality(Alerts(cat, e)) \in Nat
          /\ IsFiniteSet(Sending(cat)) /\ Cardinality(Sending(cat)) \in Nat /\ Cardinality(Runners) \in Nat
      BY <1>1, CountedFinite
    <3>2. Alerts(cat, today)' = IF cat = c /\ d = "send" THEN Alerts(cat, today) \cup {n} ELSE Alerts(cat, today)
      <4>1. Alerts(cat, today)' = {i \in Positions' : /\ inbox'[i].cat = cat /\ inbox'[i].on = today
                                                     /\ inbox'[i].delivered /\ inbox'[i].stamps = 0}
        BY <2>3 DEF Alerts
      <4>2. \A x \in 0..LastDay : Alerts(cat, x)' = {i \in Positions' : /\ inbox'[i].cat = cat /\ inbox'[i].on = x
                                                     /\ inbox'[i].delivered /\ inbox'[i].stamps = 0}
        BY DEF Alerts
      <4>3. \A x \in 0..LastDay : Alerts(cat, x)' = IF x = today /\ cat = c /\ d = "send" THEN Alerts(cat, x) \cup {n} ELSE Alerts(cat, x)
        BY <2>13
      <4> QED
        BY <1>2, <4>1, <4>2, <4>3
    <3>3. Cardinality(Alerts(cat, today)') = Cardinality(Alerts(cat, today)) + (IF cat = c /\ d = "send" THEN 1 ELSE 0)
      <4>1. n \notin Alerts(cat, today)
        BY <1>2, <2>13
      <4>2. Cardinality(Alerts(cat, today) \cup {n}) = Cardinality(Alerts(cat, today)) + 1
        BY <3>1, <4>1, FS_AddElement
      <4>3. CASE cat = c /\ d = "send"
        BY <3>2, <4>2, <4>3
      <4>4. CASE ~(cat = c /\ d = "send")
        BY <3>1, <3>2, <4>4
      <4> QED
        BY <4>3, <4>4
    <3>4. Cardinality(Sending(cat)') = Cardinality(Sending(cat)) - (IF cat = c /\ d = "send" THEN 1 ELSE 0)
      BY <2>14, <3>1, FS_RemoveElement
    <3>5. Cardinality(Alerts(cat, today)) + Cardinality(Sending(cat)) <= Cap + Cardinality(Runners) - 1
      BY <1>1 DEF CapsAhead
    <3>6. Cardinality(Alerts(cat, today)') + Cardinality(Sending(cat)') = Cardinality(Alerts(cat, today)) + Cardinality(Sending(cat))
      BY <3>1, <3>3, <3>4
    <3>7. Cardinality(Sending(cat)') \in Nat /\ Cardinality(Alerts(cat, today)') \in Nat
      <4>1. IsFiniteSet(Sending(cat)')
        BY <2>14, <3>1, FS_RemoveElement
      <4> QED
        BY <3>1, <3>3, <4>1, FS_CardinalityType
    <3>8. \A e \in 0..LastDay : Cardinality(Alerts(cat, e)) <= Cap + Cardinality(Runners) - 1
      BY <1>1 DEF CapsAhead, CapHolds, Capped, Alerts
    <3>9. ASSUME NEW e \in 0..LastDay PROVE Cardinality(Alerts(cat, e)') <= Cap + Cardinality(Runners) - 1
      <4>1. CASE e = today
        <5>1. Alerts(cat, e)' = IF cat = c /\ d = "send" THEN Alerts(cat, today) \cup {n} ELSE Alerts(cat, today)
          BY <2>13, <4>1
        <5>2. Alerts(cat, e)' = Alerts(cat, today)'
          BY <3>2, <5>1
        <5> QED
          BY <3>1, <3>5, <3>6, <3>7, <5>2, NotificationsAssumption
      <4>2. CASE e # today
        BY <2>13, <3>8, <4>2
      <4> QED
        BY <4>1, <4>2
    <3> QED
      BY <3>1, <3>5, <3>6, <3>9
  <2>16. CapsAhead'
    BY <1>2, <2>15 DEF CapsAhead, CapHolds, Alerts, Capped
  <2>17. NotificationsTypeOK'
    BY <1>1, <1>2, <2>7, RunsTyped DEF NotificationsTypeOK, firingVars
  <2> QED
    BY <2>7, <2>8, <2>11, <2>12, <2>16, <2>17
<1> QED
  BY <1>3, <1>6, <1>7

-----------------------------------------------------------------------------
\* A claim gets its outcome.
LEMMA MarkSteps ==
    ASSUME NotificationsInv, NEW w \in Runners, MarkFiring(w)
    PROVE  NotificationsTypeOK' /\ RunsFit' /\ OwedOrTold' /\ MarkedAsTold' /\ LeavesCaps /\ inbox' = inbox
<1>1. RunsFit /\ NotificationsTypeOK /\ MarkedAsTold
  BY DEF NotificationsInv
<1> DEFINE own == runner[w].key
           d == runner[w].decision
           r == [runner[w] EXCEPT !.pc = "scan", !.key = NoKey, !.cat = "none", !.decision = "none"]
<1>2. /\ runner[w] \in RunRows /\ runner[w].pc = "mark" /\ own \in FiringKeys /\ own # NoKey
      /\ d \in {"send", "queue", "suppress"}
  BY <1>1 DEF MarkFiring, RunsFit, RunFits, RunRows
<1>3. UNCHANGED <<today, ownerVars, releases, inbox, cleaner, down>> /\ Step(w, r)
  BY DEF MarkFiring
<1>4. firing' = IF firing[own] = "none" THEN firing ELSE [firing EXCEPT ![own] = FiringStatus(d)]
  BY DEF MarkFiring
<1>5. r \in RunRows /\ r.pc = "scan" /\ r.key = NoKey
  BY <1>2 DEF RunRows
<1> HIDE DEF r
<1>6. RunFits(r)
  BY <1>5 DEF RunFits
<1>7. /\ \A u \in Runners : runner'[u] = IF u = w THEN r ELSE runner[u]
      /\ runner' \in [Runners -> RunRows] /\ \A u \in Runners : RunFits(runner'[u])
  BY <1>1, <1>3, <1>6, RunReplaced
<1>8. RunsFit'
  BY <1>1, <1>3, <1>7 DEF RunsFit, Positions
<1>9. LeavesCaps
  BY <1>3, <1>5, <1>7 DEF LeavesCaps, Alerts, Sending, ToSend, Positions
<1>10. /\ firing' \in [FiringKeys -> {"none", "claimed", "sent", "suppressed", "failed"}]
       /\ \A k \in FiringKeys : k # own => firing'[k] = firing[k]
       /\ firing'[own] = IF firing[own] = "none" THEN "none" ELSE IF d = "suppress" THEN "suppressed" ELSE "sent"
  BY <1>1, <1>2, <1>4 DEF NotificationsTypeOK, FiringStatus
<1>11. NotificationsTypeOK'
  BY <1>1, <1>3, <1>8, <1>10, RunsTyped DEF NotificationsTypeOK
<1>12. \A k \in FiringKeys : Owes(k)' = Owes(k) \ {w} /\ (w \in Owes(k) <=> k = own /\ d = "suppress")
  <2>1. \A k \in FiringKeys : k # NoKey
    BY NotificationsAssumption DEF FiringKeys, NoKey
  <2> QED
    BY <1>2, <1>5, <1>7, <2>1 DEF Owes, Owing
<1>13. \A u \in Runners : runner'[u].pc = "mark" => runner'[u] = runner[u]
  BY <1>5, <1>7
<1>14. ASSUME NEW k \in FiringKeys, k # own PROVE FiringKept(k)
  BY <1>3, <1>10, <1>12, <1>13, <1>14, OtherFiringsKept
<1>15. FiringKept(own)
  <2>1. /\ IsFiniteSet(Owes(own)) /\ IsFiniteSet(ToldOf(own))
        /\ Cardinality(ToldOf(own)) \in Nat /\ Cardinality(Owes(own)) \in Nat /\ releases[own] \in Nat
    BY <1>1, <1>2, CountedFinite DEF NotificationsTypeOK
  <2>2. Cardinality(ToldOf(own)) + Cardinality(Owes(own)) <= releases[own] + (IF firing[own] = "none" THEN 0 ELSE 1)
    BY <1>2 DEF NotificationsInv, OwedOrTold
  <2> DEFINE left == Owes(own) \ {w}
  <2>3. IsFiniteSet(left) /\ Cardinality(left) = Cardinality(Owes(own)) - (IF d = "suppress" THEN 1 ELSE 0)
    BY <1>2, <1>12, <2>1, FS_RemoveElement
  <2>4. Cardinality(left) \in Nat
    BY <2>3, FS_CardinalityType
  <2> HIDE DEF left, own, d
  <2>5. Cardinality(ToldOf(own)) + Cardinality(left) <= releases[own] + (IF firing'[own] = "none" THEN 0 ELSE 1)
    <3>1. Cardinality(left) <= Cardinality(Owes(own))
      BY <2>1, <2>3
    <3>2. firing'[own] = "none" <=> firing[own] = "none"
      BY <1>10
    <3> QED
      BY <2>1, <2>2, <2>4, <3>1, <3>2
  <2>6. firing'[own] = "sent" => ToldOf(own) # {}
    BY <1>1, <1>2, <1>10 DEF MarkedAsTold, d, own
  <2>7. ASSUME firing'[own] = "suppressed", releases[own] = 0 PROVE ToldOf(own) = {} /\ left = {}
    <3>1. d = "suppress" /\ firing[own] # "none"
      BY <1>10, <2>7
    <3>2. Cardinality(ToldOf(own)) + Cardinality(left) <= 0
      BY <2>1, <2>2, <2>3, <2>7, <3>1
    <3>3. Cardinality(ToldOf(own)) = 0 /\ Cardinality(left) = 0
      BY <2>1, <2>4, <3>2
    <3> QED
      BY <2>1, <2>3, <3>3, FS_EmptySet
  <2>8. \A u \in Runners : runner'[u].pc = "mark" /\ runner'[u].decision # "suppress" /\ runner'[u].key = own => ToldOf(own) # {}
    BY <1>1, <1>2, <1>13 DEF MarkedAsTold
  <2>9. left = {u \in Runners : Owing(runner'[u], own)}
    <3> DEFINE New(k) == {u \in Runners : Owing(runner'[u], k)}
    <3>1. \A k \in FiringKeys : New(k) = Owes(k) \ {w}
      BY <1>12 DEF Owes
    <3> QED
      BY <1>2, <3>1 DEF left
  <2>10. PICK x \in FiringKeys : x = own
    BY <1>2
  <2>11. FiringKept(x)
    <3>1. Owes(x)' = left
      BY <2>9, <2>10 DEF Owes
    <3> QED
      BY <1>3, <2>5, <2>6, <2>7, <2>8, <2>10, <3>1 DEF FiringKept
  <2> QED
    BY <2>10, <2>11
<1>16. OwedOrTold' /\ MarkedAsTold'
  BY <1>3, <1>14, <1>15, KeptFiringsHold
<1> QED
  BY <1>3, <1>8, <1>9, <1>11, <1>16

\* A cleanup gives up the stale claims it has found, or releases them.
LEMMA CleanupSteps ==
    ASSUME NotificationsInv, CleanupWrite
    PROVE  NotificationsTypeOK' /\ RunsFit' /\ OwedOrTold' /\ MarkedAsTold' /\ LeavesCaps /\ inbox' = inbox
<1> DEFINE hit == {k \in cleaner.ids : firing[k] = "claimed"}
<1>1. /\ firing' = [k \in FiringKeys |-> IF k \notin hit THEN firing[k] ELSE IF cleaner.force THEN "none" ELSE "failed"]
      /\ releases' = [k \in FiringKeys |-> IF k \in hit /\ cleaner.force THEN releases[k] + 1 ELSE releases[k]]
      /\ cleaner' = NoCleanup /\ UNCHANGED <<today, ownerVars, inbox, runner, down>>
  BY DEF CleanupWrite
<1>2. RunsFit /\ NotificationsTypeOK
  BY DEF NotificationsInv
<1>3. \A k \in hit : firing[k] = "claimed"
  OBVIOUS
<1> HIDE DEF hit
<1>4. RunsFit'
  BY <1>1, <1>2 DEF RunsFit, Positions
<1>5. LeavesCaps
  BY <1>1 DEF LeavesCaps, Alerts, Sending, Positions
<1>6. /\ firing' \in [FiringKeys -> {"none", "claimed", "sent", "suppressed", "failed"}]
      /\ releases' \in [FiringKeys -> Nat]
  BY <1>1, <1>2 DEF NotificationsTypeOK
<1>7. NotificationsTypeOK'
  <2>1. cleaner'.ids = {}
    BY <1>1 DEF NoCleanup
  <2> QED
    BY <1>1, <1>2, <1>4, <1>6, <2>1, RunsTyped DEF NotificationsTypeOK
<1>8. ASSUME NEW k \in FiringKeys PROVE FiringKept(k)
  <2>1. Owes(k)' = Owes(k) /\ \A u \in Runners : runner'[u] = runner[u]
    BY <1>1 DEF Owes
  <2>2. CASE k \notin hit
    <3>1. firing'[k] = firing[k] /\ releases'[k] = releases[k]
      BY <1>1, <2>2
    <3> QED
      BY <2>1, <3>1, OtherFiringsKept
  <2>3. CASE k \in hit
    <3>1. firing[k] = "claimed" /\ firing'[k] \in {"none", "failed"}
      BY <1>1, <1>3, <2>3
    <3>2. releases'[k] + (IF firing'[k] = "none" THEN 0 ELSE 1) = releases[k] + 1
      BY <1>1, <1>2, <2>3 DEF NotificationsTypeOK
    <3>3. Cardinality(ToldOf(k)) + Cardinality(Owes(k)) <= releases[k] + (IF firing[k] = "none" THEN 0 ELSE 1)
      BY DEF NotificationsInv, OwedOrTold
    <3>4. Cardinality(ToldOf(k)) + Cardinality(Owes(k)') <= releases'[k] + (IF firing'[k] = "none" THEN 0 ELSE 1)
      BY <2>1, <3>1, <3>2, <3>3
    <3> QED
      BY <2>1, <3>1, <3>4 DEF NotificationsInv, MarkedAsTold, FiringKept
  <2> QED
    BY <2>2, <2>3
<1>9. OwedOrTold' /\ MarkedAsTold'
  BY <1>1, <1>8, KeptFiringsHold
<1> QED
  BY <1>1, <1>4, <1>5, <1>7, <1>9

\* A digest stamps what it has found waiting, and goes on to its summary.
LEMMA DigestSteps ==
    ASSUME NotificationsInv, NEW w \in Runners, DigestStamp(w)
    PROVE  NotificationsTypeOK' /\ RunsFit' /\ StampsTell' /\ LeavesClaims /\ LeavesCaps
<1>1. RunsFit /\ NotificationsTypeOK /\ StampsTell
  BY DEF NotificationsInv
<1>2. runner[w] \in RunRows /\ runner[w].pc = "digest" /\ runner[w].key = NoKey
  BY <1>1 DEF DigestStamp, RunsFit, RunFits
<1> DEFINE s == [runner[w] EXCEPT !.pc = "decide", !.cat = "system"]
<1>3. s \in RunRows /\ s.pc = "decide" /\ s.cat = "system" /\ s.key = NoKey
  BY <1>2 DEF RunRows, Categories
<1>4. RunFits(s) /\ RunFits(NoRun) /\ NoRun.pc = "idle"
  BY <1>3, RunRowsFit DEF RunFits, Categories, NoRun
<1>5. /\ UNCHANGED <<today, ownerVars, firingVars, cleaner, down>>
      /\ inbox' = inbox \/ inbox' = Stamped(Consumed(runner[w].rows))
      /\ Step(w, NoRun) \/ Step(w, s)
  BY DEF DigestStamp
<1> HIDE DEF s
<1>6. PICK r : RunFits(r) /\ Step(w, r) /\ r.pc \in {"idle", "decide"} /\ r.key = NoKey
  <2>1. NoRun.key = NoKey
    BY DEF NoRun
  <2> QED
    BY <1>3, <1>4, <1>5, <2>1
<1>7. /\ \A u \in Runners : runner'[u] = IF u = w THEN r ELSE runner[u]
      /\ runner' \in [Runners -> RunRows] /\ \A u \in Runners : RunFits(runner'[u])
  BY <1>1, <1>6, RunReplaced
<1>8. /\ Positions' = Positions /\ inbox' \in Seq(InboxRows)
      /\ \A i \in Positions :
            /\ inbox'[i].cat = inbox[i].cat /\ inbox'[i].key = inbox[i].key /\ inbox'[i].on = inbox[i].on
            /\ \/ inbox'[i].delivered = inbox[i].delivered /\ inbox'[i].stamps = inbox[i].stamps
               \/ ~inbox[i].delivered /\ inbox'[i].delivered /\ inbox'[i].stamps = 1
  <2>1. CASE inbox' = inbox
    BY <1>1, <2>1 DEF RunsFit, Positions
  <2>2. CASE inbox' = Stamped(Consumed(runner[w].rows))
    BY <1>1, <2>2, InboxStamps
  <2> QED
    BY <1>5, <2>1, <2>2
<1>9. RunsFit'
  BY <1>1, <1>5, <1>7, <1>8 DEF RunsFit
<1>10. StampsTell'
  BY <1>1, <1>8 DEF StampsTell
<1>11. NotificationsTypeOK'
  BY <1>1, <1>5, <1>9, RunsTyped DEF NotificationsTypeOK, firingVars
<1>12. LeavesClaims
  <2>1. \A k \in FiringKeys : k # NoKey
    BY NotificationsAssumption DEF FiringKeys, NoKey
  <2>2. \A k \in FiringKeys : ToldOf(k)' = ToldOf(k)
    BY <1>8 DEF ToldOf
  <2>3. \A k \in FiringKeys : Owes(k)' \subseteq Owes(k)
    BY <1>6, <1>7, <2>1 DEF Owes, Owing
  <2> QED
    BY <1>5, <1>6, <1>7, <2>2, <2>3 DEF LeavesClaims, firingVars
<1>13. LeavesCaps
  <2>1. ASSUME NEW cat \in Capped, NEW d \in 0..LastDay PROVE Alerts(cat, d)' = Alerts(cat, d)
    <3>1. \A i \in Positions : (inbox'[i].delivered /\ inbox'[i].stamps = 0) <=> (inbox[i].delivered /\ inbox[i].stamps = 0)
      BY <1>8
    <3> QED
      BY <1>8, <3>1 DEF Alerts
  <2>2. \A cat \in Capped : Sending(cat)' \subseteq Sending(cat)
    BY <1>6, <1>7 DEF Sending, ToSend
  <2> QED
    BY <1>5, <2>1, <2>2 DEF LeavesCaps
<1> QED
  BY <1>9, <1>10, <1>11, <1>12, <1>13

\* Every step keeps the invariant.
LEMMA NotificationsStepInv == NotificationsInv /\ [NotificationsNext]_notificationVars => NotificationsInv'
<1> SUFFICES ASSUME NotificationsInv, [NotificationsNext]_notificationVars PROVE NotificationsInv'
  OBVIOUS
<1> USE ClaimsLeft, CapsLeft, StampsLeft
<1>1. CASE OwnerEdits \/ \E force \in BOOLEAN : CleanupScan(force)
  BY <1>1, OwnerSteps DEF NotificationsInv
<1>2. CASE NextDay
  BY <1>2, DaySteps DEF NotificationsInv
<1>3. CASE CleanupWrite
  BY <1>3, CleanupSteps DEF NotificationsInv
<1>4. ASSUME NEW w \in Runners,
             \/ ReminderRun(w) \/ ReminderRunEnds(w) \/ RunnerDies(w) \/ DigestRun(w)
             \/ \E cat \in {"system", "security"} : Trigger(w, cat)
      PROVE  NotificationsInv'
  BY <1>4, QuietSteps DEF NotificationsInv
<1>5. ASSUME NEW w \in Runners, NEW k \in runner[w].todo, ClaimReminder(w, k) PROVE NotificationsInv'
  <2>1. k \in FiringKeys
    BY DEF NotificationsInv, RunsFit, RunRows
  <2> QED
    BY <1>5, <2>1, ClaimSteps DEF NotificationsInv
<1>6. ASSUME NEW w \in Runners, Decide(w) PROVE NotificationsInv'
  BY <1>6, DecideSteps DEF NotificationsInv
<1>7. ASSUME NEW w \in Runners, WriteRow(w) PROVE NotificationsInv'
  BY <1>7, WriteSteps DEF NotificationsInv
<1>8. ASSUME NEW w \in Runners, MarkFiring(w) PROVE NotificationsInv'
  BY <1>8, MarkSteps DEF NotificationsInv
<1>9. ASSUME NEW w \in Runners, DigestStamp(w) PROVE NotificationsInv'
  BY <1>9, DigestSteps DEF NotificationsInv
<1>10. CASE UNCHANGED notificationVars
  <2>1. UNCHANGED <<today, firing, releases, inbox, runner>>
    BY <1>10 DEF notificationVars, firingVars
  <2>2. RunsFit' /\ LeavesClaims /\ LeavesCaps
    BY <2>1, RunsStandStill
  <2>3. NotificationsTypeOK'
    BY <1>10, <2>2, RunsTyped DEF NotificationsInv, NotificationsTypeOK, notificationVars, firingVars
  <2> QED
    BY <2>1, <2>2, <2>3 DEF NotificationsInv
<1> QED
  BY <1>1, <1>2, <1>3, <1>4, <1>5, <1>6, <1>7, <1>8, <1>9, <1>10, Zenon DEF NotificationsNext

\* A reminder fires once per occurrence and release, the audit says what
\* happened, the caps are exceeded by the other runs at most and no row is
\* stamped twice, for any reminders, runs, days and caps.
THEOREM ToldAsDecidedAlways == NotificationsSpec => []ToldAsDecided
<1>1. NotificationsInit => NotificationsInv
  BY NotificationsInitInv
<1>2. NotificationsInv /\ [NotificationsNext]_notificationVars => NotificationsInv'
  BY NotificationsStepInv
<1>3. NotificationsInv => ToldAsDecided
  BY NotificationsInvImplies
<1> QED
  BY <1>1, <1>2, <1>3, PTL DEF NotificationsSpec

-----------------------------------------------------------------------------
(***************************************************************************)
(* The entries of a wall.  A walk over the rows is the recursion of a fold *)
(* that takes the last row of a set first.                                 *)
(***************************************************************************)
NoEntries == <<>>
Grows(g, p, S) ==
    g = [s \in SUBSET S |-> IF s = {} THEN NoEntries ELSE AddToGroups(g[s \ {Max(s)}], p[Max(s)])]

\* A set of rows that is not empty has a latest one.
LEMMA LatestRow ==
    ASSUME NEW S, NEW n \in Nat, S \subseteq 1..n, S # {}
    PROVE  Max(S) \in S
  BY LastExists DEF Max

\* Every subset that is not empty has a last element, as sets of positions do.
HasLast(S) == IsFiniteSet(S) /\ \A s \in SUBSET S : s # {} => Max(s) \in s

\* One step of the walk.
LEMMA WalkStep ==
    ASSUME NEW S, NEW p, NEW g, Grows(g, p, S), NEW s \in SUBSET S
    PROVE  /\ s = {} => g[s] = NoEntries
           /\ s # {} => g[s] = AddToGroups(g[s \ {Max(s)}], p[Max(s)])
<1> DEFINE Unfolding(t) == IF t = {} THEN NoEntries ELSE AddToGroups(g[t \ {Max(t)}], p[Max(t)])
<1>1. g = [t \in SUBSET S |-> Unfolding(t)]
  BY DEF Grows
<1> HIDE DEF Unfolding
<1>2. g[s] = Unfolding(s)
  BY <1>1
<1> QED
  BY <1>2 DEF Unfolding

\* Two walks agree on every set of rows both reach.
LEMMA WalksAgree ==
    ASSUME NEW p, NEW S, HasLast(S), NEW R \in SUBSET S,
           NEW g, NEW h, Grows(g, p, S), Grows(h, p, R)
    PROVE  \A s \in SUBSET R : g[s] = h[s]
<1> DEFINE T == {s \in SUBSET R : g[s] # h[s]}
<1> SUFFICES ASSUME T # {} PROVE FALSE
  OBVIOUS
<1>1. PICK s \in T : \A t \in T : t \subseteq s => t = s
  <2>1. IsFiniteSet(R)
    BY FS_Subset DEF HasLast
  <2>2. T \in SUBSET (SUBSET R)
    OBVIOUS
  <2> HIDE DEF T
  <2> QED
    BY <2>1, <2>2, MinimalSubset
<1>2. s \in SUBSET R /\ s \in SUBSET S /\ g[s] # h[s]
  OBVIOUS
<1>3. s # {}
  <2>1. g[{}] = NoEntries /\ h[{}] = NoEntries
    <3> HIDE DEF T
    <3>1. {} \in SUBSET S /\ {} \in SUBSET R
      OBVIOUS
    <3>2. g[{}] = NoEntries
      BY <3>1, WalkStep
    <3>3. h[{}] = NoEntries
      BY <3>1, WalkStep
    <3> QED
      BY <3>2, <3>3
  <2> QED
    BY <1>2, <2>1
<1> DEFINE x == Max(s)
<1>4. x \in s
  BY <1>2, <1>3 DEF HasLast
<1>5. g[s \ {x}] = h[s \ {x}]
  BY <1>1, <1>2, <1>4
<1> HIDE DEF T
<1>6. g[s] = AddToGroups(g[s \ {x}], p[x])
  <2>1. s \in SUBSET S
    BY <1>2
  <2> QED
    BY <1>3, <2>1, WalkStep
<1>7. h[s] = AddToGroups(h[s \ {x}], p[x])
  BY <1>2, <1>3, WalkStep
<1> QED
  BY <1>2, <1>5, <1>6, <1>7

\* A walk exists over the rows of every sequence.
LEMMA WalksExist ==
    ASSUME NEW p, NEW S, HasLast(S)
    PROVE  \E g : Grows(g, p, S)
<1> DEFINE T == {R \in SUBSET S : ~\E g : Grows(g, p, R)}
<1> SUFFICES ASSUME T # {} PROVE FALSE
  OBVIOUS
<1>1. PICK R \in T : \A t \in T : t \subseteq R => t = R
  <2>1. T \in SUBSET (SUBSET S) /\ IsFiniteSet(S)
    BY DEF HasLast
  <2> HIDE DEF T
  <2> QED
    BY <2>1, MinimalSubset
<1>2. R \in SUBSET S /\ ~\E g : Grows(g, p, R)
  OBVIOUS
<1>3. \A s \in SUBSET R : s # R => \E g : Grows(g, p, s)
  BY <1>1, <1>2
<1> DEFINE G(s) == CHOOSE g : Grows(g, p, s)
           Below(s) == G(s)[s]
           Top(s) == IF s = {} THEN NoEntries ELSE AddToGroups(Below(s \ {Max(s)}), p[Max(s)])
           g == [s \in SUBSET R |-> IF s = R THEN Top(R) ELSE Below(s)]
           Unfolding(s) == IF s = {} THEN NoEntries ELSE AddToGroups(g[s \ {Max(s)}], p[Max(s)])
<1>4. \A s \in SUBSET R : s # R => Grows(G(s), p, s)
  BY <1>3, Zenon
<1>5. \A s \in SUBSET R : s # {} => /\ Max(s) \in s
                                    /\ s \ {Max(s)} \in SUBSET R
                                    /\ s \ {Max(s)} # R
  BY <1>2 DEF HasLast
<1>6. \A s \in SUBSET R : s # R => g[s] = Below(s)
  <2> HIDE DEF Below, Top
  <2> QED
    OBVIOUS
<1>7. g[R] = Top(R)
  <2> HIDE DEF Below, Top
  <2> QED
    OBVIOUS
<1>8. ASSUME NEW s \in SUBSET R, s # R PROVE Below(s) = Top(s)
  <2> HIDE DEF G
  <2>1. Grows(G(s), p, s)
    BY <1>4, <1>8
  <2>2. CASE s = {}
    BY <2>1, <2>2, WalkStep
  <2>3. CASE s # {}
    <3> DEFINE r == s \ {Max(s)}
    <3>1. r \in SUBSET s /\ r \in SUBSET R /\ r # R
      BY <1>5, <1>8, <2>3
    <3>2. Grows(G(r), p, r)
      BY <1>4, <3>1
    <3>3. HasLast(s)
      BY <1>2, FS_Subset DEF HasLast
    <3> HIDE DEF r
    <3>4. G(s)[r] = G(r)[r]
      <4>1. \A t \in SUBSET r : G(s)[t] = G(r)[t]
        BY <2>1, <3>1, <3>2, <3>3, WalksAgree
      <4> QED
        BY <4>1
    <3>5. G(s)[s] = AddToGroups(G(s)[s \ {Max(s)}], p[Max(s)])
      <4>1. s \in SUBSET s
        OBVIOUS
      <4> QED
        BY <2>1, <2>3, <4>1, WalkStep
    <3> QED
      BY <2>3, <3>4, <3>5 DEF r
  <2> QED
    BY <2>2, <2>3
<1>9. \A s \in SUBSET R : g[s] = Unfolding(s)
  <2> SUFFICES ASSUME NEW s \in SUBSET R PROVE g[s] = Unfolding(s)
    OBVIOUS
  <2>1. g[s] = Top(s)
    <3> HIDE DEF g, Below, Top
    <3> QED
      BY <1>6, <1>7, <1>8
  <2>2. CASE s = {}
    BY <2>1, <2>2
  <2>3. CASE s # {}
    <3>1. g[s \ {Max(s)}] = Below(s \ {Max(s)})
      BY <1>5, <1>6, <2>3
    <3> HIDE DEF g, Below
    <3> QED
      BY <2>1, <2>3, <3>1
  <2> QED
    BY <2>2, <2>3
<1>10. g = [s \in SUBSET R |-> g[s]]
  <2> HIDE DEF Below, Top
  <2> QED
    OBVIOUS
<1>11. g = [s \in SUBSET R |-> Unfolding(s)]
  <2> HIDE DEF g, Unfolding
  <2> QED
    BY <1>9, <1>10
<1>12. Grows(g, p, R)
  <2> HIDE DEF g
  <2> QED
    BY <1>11 DEF Grows
<1> QED
  <2> HIDE DEF g
  <2> QED
    BY <1>2, <1>12

\* A walk over the first rows of a sequence takes them in their order.
LEMMA WalkInOrder ==
    ASSUME NEW p, NEW n \in Nat, NEW h, Grows(h, p, 1..n)
    PROVE  /\ h[1..0] = NoEntries
           /\ \A k \in 1..n : h[1..k] = AddToGroups(h[1..(k - 1)], p[k])
<1> DEFINE S == 1..n
<1>1. Grows(h, p, S)
  OBVIOUS
<1>2. h[1..0] = NoEntries
  <2>1. 1..0 = {} /\ {} \in SUBSET S
    OBVIOUS
  <2> HIDE DEF S
  <2>2. h[{}] = NoEntries
    BY <1>1, <2>1, WalkStep
  <2> QED
    BY <2>1, <2>2
<1>3. ASSUME NEW k \in 1..n PROVE h[1..k] = AddToGroups(h[1..(k - 1)], p[k])
  <2> DEFINE s == 1..k
             m == Max(s)
  <2>1. s \in SUBSET S
    OBVIOUS
  <2>2. s # {}
    OBVIOUS
  <2>3. m = k
    <3>1. k \in s /\ \A y \in s : k >= y
      OBVIOUS
    <3>2. m \in s /\ \A y \in s : m >= y
      BY <3>1 DEF Max
    <3> QED
      BY <3>1, <3>2
  <2>4. s \ {k} = 1..(k - 1)
    OBVIOUS
  <2> HIDE DEF s, S
  <2>5. h[s] = AddToGroups(h[s \ {m}], p[m])
    BY <1>1, <2>1, <2>2, WalkStep
  <2> HIDE DEF m
  <2> QED
    BY <2>3, <2>4, <2>5 DEF s
<1> QED
  BY <1>2, <1>3

\* The entries after the first k rows.
LEMMA EntriesGrow ==
    ASSUME NEW p, NEW n \in Nat, DOMAIN p = 1..n
    PROVE  \E W : /\ W[0] = <<>>
                  /\ \A k \in 1..n : W[k] = AddToGroups(W[k - 1], p[k])
                  /\ CollapseGiftPostGroups(p) = W[n]
<1> DEFINE S == 1..n
           Unfolding(g) == [s \in SUBSET S |-> IF s = {} THEN NoEntries ELSE AddToGroups(g[s \ {Max(s)}], p[Max(s)])]
           h == CHOOSE x : x = Unfolding(x)
           W == [k \in 0..n |-> h[1..k]]
<1>1. CollapseGiftPostGroups(p) = h[S]
  BY DEF CollapseGiftPostGroups, FoldLeft, MapThenFoldSet, NoEntries
<1>2. HasLast(S)
  <2>1. IsFiniteSet(S)
    BY FS_Interval
  <2>2. ASSUME NEW s \in SUBSET S, s # {} PROVE Max(s) \in s
    BY <2>2, LatestRow
  <2> QED
    BY <2>1, <2>2 DEF HasLast
<1>3. Grows(h, p, S)
  <2>1. PICK g : g = Unfolding(g)
    <3> HIDE DEF S
    <3> QED
      BY <1>2, WalksExist DEF Grows
  <2> HIDE DEF Unfolding
  <2>2. h = Unfolding(h)
    BY <2>1
  <2> HIDE DEF h
  <2> QED
    BY <2>2 DEF Unfolding, Grows
<1> HIDE DEF h
<1>4. h[1..0] = NoEntries /\ \A k \in 1..n : h[1..k] = AddToGroups(h[1..(k - 1)], p[k])
  BY <1>3, WalkInOrder
<1>5. W[0] = <<>> /\ W[n] = h[S]
  BY <1>4 DEF NoEntries
<1>6. ASSUME NEW k \in 1..n PROVE W[k] = AddToGroups(W[k - 1], p[k])
  <2>1. W[k] = h[1..k] /\ W[k - 1] = h[1..(k - 1)]
    OBVIOUS
  <2> QED
    BY <1>4, <2>1
<1> QED
  <2> HIDE DEF W
  <2> QED
    BY <1>1, <1>5, <1>6

-----------------------------------------------------------------------------
\* What a wall owes to the first k rows of p: where an entry stands.
Earlier(p, k, b) == {i \in 1..k : p[i].bucket = b}
Posts(p, n) == /\ p \in [1..n -> FeedRows]
               /\ \A i, j \in 1..n : p[i] = p[j] => i = j
Entry == [row : FeedRows, eventCount : Nat]
Counts(g) == [m \in DOMAIN g |-> g[m].eventCount]

EntryFits(p, k, e) ==
    \E i \in 1..k :
        /\ e.row = p[i]
        /\ p[i].bucket = NoProduct => e.eventCount = 1
        /\ p[i].bucket # NoProduct =>
              /\ e.eventCount = Cardinality(Earlier(p, k, p[i].bucket))
              /\ \A j \in Earlier(p, k, p[i].bucket) : i <= j
Before(p, k, e, f) ==
    /\ \A i, j \in 1..k : e.row = p[i] /\ f.row = p[j] => i < j
    /\ e.row.bucket = f.row.bucket => e.row.bucket = NoProduct
EntriesFit(p, k, g) ==
    /\ g \in Seq(Entry)
    /\ \A m \in DOMAIN g : EntryFits(p, k, g[m])
    /\ \A l, m \in DOMAIN g : l < m => Before(p, k, g[l], g[m])
    /\ \A i \in 1..k : p[i].bucket # NoProduct =>
          \E m \in DOMAIN g : g[m].row.bucket = p[i].bucket
    /\ SumOf(Counts(g), DOMAIN g) = k

\* The posts of a bucket so far.
LEMMA EarlierGrows ==
    ASSUME NEW p, NEW k \in Nat, NEW b
    PROVE  /\ Earlier(p, k + 1, b) = IF p[k + 1].bucket = b THEN Earlier(p, k, b) \cup {k + 1}
                                     ELSE Earlier(p, k, b)
           /\ Cardinality(Earlier(p, k, b)) \in Nat
           /\ Cardinality(Earlier(p, k + 1, b)) =
                 Cardinality(Earlier(p, k, b)) + (IF p[k + 1].bucket = b THEN 1 ELSE 0)
<1> DEFINE A == Earlier(p, k, b)
<1>1. Earlier(p, k + 1, b) = IF p[k + 1].bucket = b THEN A \cup {k + 1} ELSE A
  <2>1. 1..(k + 1) = 1..k \cup {k + 1}
    OBVIOUS
  <2> QED
    BY <2>1, Zenon DEF Earlier
<1>2. IsFiniteSet(A)
  <2>1. IsFiniteSet(1..k) /\ A \in SUBSET (1..k)
    BY FS_Interval DEF Earlier
  <2> HIDE DEF A
  <2> QED
    BY <2>1, FS_Subset
<1>3. k + 1 \notin A
  BY DEF Earlier
<1> DEFINE x == k + 1
<1> HIDE DEF A, x
<1>4. Cardinality(A) \in Nat /\ Cardinality(A \cup {x}) = Cardinality(A) + 1
  BY <1>2, <1>3, FS_CardinalityType, FS_AddElement DEF x
<1> QED
  BY <1>1, <1>4 DEF A, x

\* A row of another bucket leaves an entry what it was.
LEMMA EntryStays ==
    ASSUME NEW n \in Nat, NEW p, Posts(p, n), NEW k \in 0..(n - 1), NEW e, EntryFits(p, k, e),
           e.row.bucket = p[k + 1].bucket => e.row.bucket = NoProduct
    PROVE  EntryFits(p, k + 1, e)
<1>1. PICK i \in 1..k :
        /\ e.row = p[i]
        /\ p[i].bucket = NoProduct => e.eventCount = 1
        /\ p[i].bucket # NoProduct =>
              /\ e.eventCount = Cardinality(Earlier(p, k, p[i].bucket))
              /\ \A j \in Earlier(p, k, p[i].bucket) : i <= j
  BY DEF EntryFits
<1>2. i \in 1..(k + 1)
  OBVIOUS
<1>3. p[i].bucket # NoProduct => Earlier(p, k + 1, p[i].bucket) = Earlier(p, k, p[i].bucket)
  <2> DEFINE b == p[i].bucket
  <2>1. k \in Nat /\ (b # NoProduct => p[k + 1].bucket # b)
    BY <1>1
  <2> HIDE DEF b
  <2>2. Earlier(p, k + 1, b) = IF p[k + 1].bucket = b THEN Earlier(p, k, b) \cup {k + 1}
                               ELSE Earlier(p, k, b)
    BY <2>1, EarlierGrows, ZenonT(40)
  <2> QED
    BY <2>1, <2>2 DEF b
<1> QED
  BY <1>1, <1>2, <1>3 DEF EntryFits

\* A row of its own bucket is counted.
LEMMA EntryCounts ==
    ASSUME NEW n \in Nat, NEW p, Posts(p, n), NEW k \in 0..(n - 1), NEW e \in Entry, EntryFits(p, k, e),
           e.row.bucket = p[k + 1].bucket, e.row.bucket # NoProduct
    PROVE  EntryFits(p, k + 1, [e EXCEPT !.eventCount = @ + 1])
<1>1. PICK i \in 1..k :
        /\ e.row = p[i]
        /\ p[i].bucket # NoProduct =>
              /\ e.eventCount = Cardinality(Earlier(p, k, p[i].bucket))
              /\ \A j \in Earlier(p, k, p[i].bucket) : i <= j
  BY DEF EntryFits
<1> DEFINE f == [e EXCEPT !.eventCount = @ + 1]
           b == p[i].bucket
<1>2. f.row = p[i] /\ f.eventCount = e.eventCount + 1
  BY <1>1 DEF Entry
<1>3. i \in 1..(k + 1) /\ i <= k + 1
  OBVIOUS
<1>4. b # NoProduct /\ p[k + 1].bucket = b
  BY <1>1
<1> HIDE DEF f, b
<1>5. /\ Earlier(p, k + 1, b) = Earlier(p, k, b) \cup {k + 1}
      /\ Cardinality(Earlier(p, k + 1, b)) = Cardinality(Earlier(p, k, b)) + 1
  <2>1. k \in Nat
    OBVIOUS
  <2> QED
    BY <1>4, <2>1, EarlierGrows
<1>6. f.eventCount = Cardinality(Earlier(p, k + 1, b))
  BY <1>1, <1>2, <1>4, <1>5 DEF b
<1>7. \A j \in Earlier(p, k + 1, b) : i <= j
  BY <1>1, <1>3, <1>4, <1>5 DEF b
<1> QED
  BY <1>2, <1>3, <1>4, <1>6, <1>7 DEF EntryFits, f, b

\* Two entries of earlier rows stay in their order.
LEMMA OrderStays ==
    ASSUME NEW n \in Nat, NEW p, Posts(p, n), NEW k \in 0..(n - 1), NEW e, NEW f,
           EntryFits(p, k, e), EntryFits(p, k, f), Before(p, k, e, f)
    PROVE  Before(p, k + 1, e, f)
<1>1. PICK i \in 1..k : e.row = p[i]
  BY DEF EntryFits
<1>2. PICK j \in 1..k : f.row = p[j]
  BY DEF EntryFits
<1>3. i < j
  BY <1>1, <1>2 DEF Before
<1>4. \A l, m \in 1..(k + 1) : e.row = p[l] /\ f.row = p[m] => l = i /\ m = j
  <2>1. 1..(k + 1) \subseteq 1..n /\ i \in 1..n /\ j \in 1..n
    OBVIOUS
  <2> QED
    BY <1>1, <1>2, <2>1 DEF Posts
<1> QED
  BY <1>3, <1>4 DEF Before

\* An entry of an earlier row comes before the one of the next.
LEMMA NextComesLast ==
    ASSUME NEW n \in Nat, NEW p, Posts(p, n), NEW k \in 0..(n - 1), NEW e, NEW f,
           EntryFits(p, k, e), f.row = p[k + 1],
           e.row.bucket = f.row.bucket => e.row.bucket = NoProduct
    PROVE  Before(p, k + 1, e, f)
<1>1. PICK i \in 1..k : e.row = p[i]
  BY DEF EntryFits
<1>2. \A l, m \in 1..(k + 1) : e.row = p[l] /\ f.row = p[m] => l = i /\ m = k + 1
  <2>1. 1..(k + 1) \subseteq 1..n /\ i \in 1..n /\ k + 1 \in 1..n
    OBVIOUS
  <2> QED
    BY <1>1, <2>1 DEF Posts
<1> QED
  BY <1>2 DEF Before

\* A row is appended or counted.
LEMMA RowIsAdded ==
    ASSUME NEW g \in Seq(Entry), NEW row
    PROVE  \/ /\ \A m \in DOMAIN g : ~SameBucket(g[m].row, row)
              /\ AddToGroups(g, row) = Append(g, [row |-> row, eventCount |-> 1])
           \/ \E i \in DOMAIN g :
                 /\ SameBucket(g[i].row, row)
                 /\ AddToGroups(g, row) = [g EXCEPT ![i].eventCount = @ + 1]
<1> DEFINE I == {i \in 1..Len(g) : SameBucket(g[i].row, row)}
           at == IF I # {} THEN Min(I) ELSE 0
<1>1. AddToGroups(g, row) = IF at = 0 THEN Append(g, [row |-> row, eventCount |-> 1])
                            ELSE [g EXCEPT ![at].eventCount = @ + 1]
  BY DEF AddToGroups, SelectInSeq
<1>2. DOMAIN g = 1..Len(g) /\ Len(g) \in Nat
  OBVIOUS
<1>3. CASE I = {}
  BY <1>1, <1>2, <1>3
<1>4. CASE I # {}
  <2>1. at \in I
    <3>1. \E x \in I : \A y \in I : x <= y
      <4>1. I \in SUBSET Nat
        BY <1>2
      <4> HIDE DEF I
      <4>2. PICK x \in I : \A y \in I : ~(<<y, x>> \in OpToRel(<, Nat))
        BY <1>4, <4>1, NatLessThanWellFounded, WFMin
      <4>3. \A y \in I : ~(y < x)
        BY <4>1, <4>2 DEF OpToRel
      <4> QED
        BY <4>1, <4>3
    <3> HIDE DEF I
    <3> QED
      BY <1>4, <3>1 DEF Min
  <2>2. at \in DOMAIN g /\ SameBucket(g[at].row, row) /\ at # 0
    <3> HIDE DEF at
    <3> QED
      BY <1>2, <2>1
  <2> HIDE DEF at
  <2> QED
    BY <1>1, <2>2
<1> QED
  BY <1>3, <1>4

\* A row that no entry takes gets one of its own, the last.
LEMMA AppendFits ==
    ASSUME NEW n \in Nat, NEW p, Posts(p, n), NEW k \in 0..(n - 1), NEW g, EntriesFit(p, k, g),
           \A m \in DOMAIN g : ~SameBucket(g[m].row, p[k + 1])
    PROVE  EntriesFit(p, k + 1, Append(g, [row |-> p[k + 1], eventCount |-> 1]))
<1> DEFINE e == [row |-> p[k + 1], eventCount |-> 1]
           b == p[k + 1].bucket
           G == Append(g, e)
           l == Len(g)
<1>1. e \in Entry /\ e.row = p[k + 1] /\ e.eventCount = 1 /\ k + 1 \in 1..n /\ k \in Nat
  BY DEF Posts, Entry
<1>2. /\ g \in Seq(Entry)
      /\ \A m \in DOMAIN g : EntryFits(p, k, g[m])
      /\ \A i, j \in DOMAIN g : i < j => Before(p, k, g[i], g[j])
      /\ \A i \in 1..k : p[i].bucket # NoProduct => \E m \in DOMAIN g : g[m].row.bucket = p[i].bucket
      /\ SumOf(Counts(g), DOMAIN g) = k
  BY DEF EntriesFit
<1>3. \A m \in DOMAIN g : g[m].row.bucket = b => g[m].row.bucket = NoProduct
  BY DEF SameBucket
<1> HIDE DEF e, b
<1>4. /\ l \in Nat /\ DOMAIN g = 1..l
      /\ G \in Seq(Entry) /\ DOMAIN G = 1..(l + 1)
      /\ \A m \in 1..l : G[m] = g[m] /\ m \in 1..(l + 1)
      /\ G[l + 1] = e
  BY <1>1, <1>2
<1> HIDE DEF G, l
<1>5. EntryFits(p, k + 1, e)
  <2>1. b # NoProduct => Earlier(p, k, b) = {}
    <3>1. ASSUME b # NoProduct, NEW i \in 1..k, p[i].bucket = b PROVE FALSE
      BY <1>2, <1>3, <3>1
    <3> QED
      BY <3>1 DEF Earlier
  <2>2. b # NoProduct => Earlier(p, k + 1, b) = {k + 1} /\ Cardinality(Earlier(p, k + 1, b)) = 1
    <3>1. Cardinality({}) = 0
      BY FS_EmptySet
    <3>2. p[k + 1].bucket = b
      BY DEF b
    <3>3. /\ Earlier(p, k + 1, b) = IF p[k + 1].bucket = b THEN Earlier(p, k, b) \cup {k + 1}
                                    ELSE Earlier(p, k, b)
          /\ Cardinality(Earlier(p, k + 1, b)) =
                Cardinality(Earlier(p, k, b)) + (IF p[k + 1].bucket = b THEN 1 ELSE 0)
      <4>1. k \in Nat
        BY <1>1
      <4> QED
        BY <4>1, EarlierGrows
    <3> QED
      BY <2>1, <3>1, <3>2, <3>3
  <2>3. k + 1 \in 1..(k + 1) /\ k + 1 <= k + 1
    BY <1>1
  <2> QED
    BY <1>1, <2>2, <2>3 DEF EntryFits, b
<1>6. ASSUME NEW m \in DOMAIN g PROVE EntryFits(p, k + 1, g[m]) /\ Before(p, k + 1, g[m], e)
  <2>1. EntryFits(p, k, g[m]) /\ (g[m].row.bucket = b => g[m].row.bucket = NoProduct)
    BY <1>2, <1>3
  <2>2. EntryFits(p, k + 1, g[m])
    BY <2>1, EntryStays DEF b
  <2>3. Before(p, k + 1, g[m], e)
    BY <1>1, <2>1, NextComesLast DEF b
  <2> QED
    BY <2>2, <2>3
<1>7. \A m \in DOMAIN G : EntryFits(p, k + 1, G[m])
  <2> SUFFICES ASSUME NEW m \in DOMAIN G PROVE EntryFits(p, k + 1, G[m])
    OBVIOUS
  <2>1. m \in 1..l \/ m = l + 1
    BY <1>4
  <2> QED
    BY <1>4, <1>5, <1>6, <2>1
<1>8. ASSUME NEW i \in DOMAIN G, NEW j \in DOMAIN G, i < j PROVE Before(p, k + 1, G[i], G[j])
  <2>1. i \in 1..l /\ (j \in 1..l \/ j = l + 1)
    BY <1>4, <1>8
  <2>2. CASE j \in 1..l
    <3>1. EntryFits(p, k, g[i]) /\ EntryFits(p, k, g[j]) /\ Before(p, k, g[i], g[j])
      BY <1>2, <1>4, <1>8, <2>1, <2>2
    <3>2. Before(p, k + 1, g[i], g[j])
      BY <3>1, OrderStays
    <3> QED
      BY <1>4, <2>1, <2>2, <3>2
  <2>3. CASE j = l + 1
    BY <1>4, <1>6, <2>1, <2>3
  <2> QED
    BY <2>1, <2>2, <2>3
<1>9. ASSUME NEW i \in 1..(k + 1), p[i].bucket # NoProduct PROVE \E m \in DOMAIN G : G[m].row.bucket = p[i].bucket
  <2>1. i \in 1..k \/ i = k + 1
    BY <1>1
  <2>2. CASE i \in 1..k
    <3>1. PICK m \in DOMAIN g : g[m].row.bucket = p[i].bucket
      BY <1>2, <1>9, <2>2
    <3> QED
      BY <1>4, <3>1
  <2>3. CASE i = k + 1
    <3>1. l + 1 \in DOMAIN G
      BY <1>4
    <3> QED
      BY <1>1, <1>4, <2>3, <3>1
  <2> QED
    BY <2>1, <2>2, <2>3
<1>10. SumOf(Counts(G), DOMAIN G) = k + 1
  <2> DEFINE S == 1..l
             x == l + 1
             w == Counts(G)
  <2>1. IsFiniteSet(S) /\ x \notin S /\ DOMAIN G = S \cup {x}
    <3>1. x \notin S /\ DOMAIN G = S \cup {x}
      BY <1>4
    <3>2. IsFiniteSet(S)
      BY <1>4, FS_Interval
    <3> QED
      BY <3>1, <3>2
  <2>2. \A m \in S : w[m] = Counts(g)[m] /\ w[m] \in Nat
    <3>1. ASSUME NEW m \in S PROVE w[m] = Counts(g)[m] /\ w[m] \in Nat
      <4>1. w[m] = G[m].eventCount /\ Counts(g)[m] = g[m].eventCount /\ G[m] = g[m] /\ G[m] \in Entry
        BY <1>4 DEF Counts
      <4> QED
        BY <4>1 DEF Entry
    <3> QED
      BY <3>1
  <2>3. w[x] = 1
    BY <1>1, <1>4 DEF Counts
  <2>4. SumOf(Counts(g), S) = k
    BY <1>2, <1>4
  <2> HIDE DEF S, x, w
  <2>5. SumOf(w, S) = k
    BY <2>1, <2>2, <2>4, SumCongruence
  <2>6. SumOf(w, S \cup {x}) = SumOf(w, S) + w[x]
    <3>1. \A y \in S \cup {x} : w[y] \in Nat
      BY <2>2, <2>3
    <3> QED
      BY <2>1, <3>1, SumAdd
  <2> QED
    BY <2>1, <2>3, <2>5, <2>6 DEF w
<1> QED
  BY <1>4, <1>7, <1>8, <1>9, <1>10 DEF EntriesFit, G, e

\* A row that an entry takes adds one to it.
LEMMA CountFits ==
    ASSUME NEW n \in Nat, NEW p, Posts(p, n), NEW k \in 0..(n - 1), NEW g, EntriesFit(p, k, g),
           NEW i \in DOMAIN g, SameBucket(g[i].row, p[k + 1])
    PROVE  EntriesFit(p, k + 1, [g EXCEPT ![i].eventCount = @ + 1])
<1> DEFINE f == [g[i] EXCEPT !.eventCount = @ + 1]
           b == p[k + 1].bucket
           G == [g EXCEPT ![i].eventCount = @ + 1]
<1>1. /\ g \in Seq(Entry)
      /\ \A m \in DOMAIN g : EntryFits(p, k, g[m])
      /\ \A c, d \in DOMAIN g : c < d => Before(p, k, g[c], g[d])
      /\ \A c \in 1..k : p[c].bucket # NoProduct => \E m \in DOMAIN g : g[m].row.bucket = p[c].bucket
      /\ SumOf(Counts(g), DOMAIN g) = k
  BY DEF EntriesFit
<1>2. k + 1 \in 1..n /\ k \in Nat
  OBVIOUS
<1>3. g[i].row.bucket = b /\ b # NoProduct
  <2>1. PICK c \in 1..k : g[i].row = p[c]
    BY <1>1 DEF EntryFits
  <2>2. p[c] # p[k + 1]
    BY <1>2, <2>1 DEF Posts
  <2> QED
    BY <2>1, <2>2 DEF SameBucket
<1>4. g[i] \in Entry /\ f \in Entry /\ f.row = g[i].row /\ f.eventCount = g[i].eventCount + 1
  <2>1. g[i] \in Entry
    BY <1>1
  <2> QED
    BY <2>1 DEF Entry
<1>5. G = [g EXCEPT ![i] = f]
  OBVIOUS
<1>6. /\ G \in Seq(Entry) /\ DOMAIN G = DOMAIN g /\ G[i] = f
      /\ \A m \in DOMAIN g : m # i => G[m] = g[m]
  <2> HIDE DEF f, G
  <2>1. \A m \in DOMAIN g : m # i => G[m] = g[m]
    BY <1>5
  <2>2. DOMAIN G = DOMAIN g /\ G[i] = f
    BY <1>5
  <2>3. G \in Seq(Entry)
    BY <1>1, <1>4, <1>5
  <2> QED
    BY <2>1, <2>2, <2>3
<1> HIDE DEF f, G
<1>7. \A m \in DOMAIN g : G[m].row = g[m].row
  BY <1>4, <1>6
<1>8. ASSUME NEW m \in DOMAIN g PROVE EntryFits(p, k + 1, G[m])
  <2>1. CASE m = i
    <3>1. EntryFits(p, k, g[i])
      BY <1>1
    <3> HIDE DEF b
    <3>2. EntryFits(p, k + 1, [g[i] EXCEPT !.eventCount = @ + 1])
      BY <1>3, <1>4, <3>1, EntryCounts DEF b
    <3> QED
      BY <1>6, <2>1, <3>2 DEF f
  <2>2. CASE m # i
    <3>1. EntryFits(p, k, g[m]) /\ (g[m].row.bucket = b => g[m].row.bucket = NoProduct)
      <4>1. DOMAIN g \subseteq Nat /\ (m < i \/ i < m)
        BY <1>1, <2>2
      <4> QED
        BY <1>1, <1>3, <4>1 DEF Before
    <3>2. EntryFits(p, k + 1, g[m])
      BY <3>1, EntryStays
    <3> QED
      BY <1>6, <2>2, <3>2
  <2> QED
    BY <2>1, <2>2
<1>9. ASSUME NEW c \in DOMAIN g, NEW d \in DOMAIN g, c < d PROVE Before(p, k + 1, G[c], G[d])
  <2>1. EntryFits(p, k, g[c]) /\ EntryFits(p, k, g[d]) /\ Before(p, k, g[c], g[d])
    BY <1>1, <1>9
  <2>2. Before(p, k + 1, g[c], g[d])
    BY <2>1, OrderStays
  <2> QED
    BY <1>7, <2>2 DEF Before
<1>10. ASSUME NEW c \in 1..(k + 1), p[c].bucket # NoProduct PROVE \E m \in DOMAIN G : G[m].row.bucket = p[c].bucket
  <2>1. c \in 1..k \/ c = k + 1
    BY <1>2
  <2>2. CASE c \in 1..k
    BY <1>1, <1>6, <1>7, <1>10, <2>2
  <2>3. CASE c = k + 1
    BY <1>3, <1>6, <1>7, <2>3
  <2> QED
    BY <2>1, <2>2, <2>3
<1>11. SumOf(Counts(G), DOMAIN G) = k + 1
  <2> DEFINE S == DOMAIN g
             R == S \ {i}
             w == Counts(G)
             v == Counts(g)
  <2>1. IsFiniteSet(S)
    <3>1. S = 1..Len(g) /\ Len(g) \in Nat
      BY <1>1
    <3> HIDE DEF S
    <3> QED
      BY <3>1, FS_Interval
  <2>2. /\ \A m \in S : v[m] = g[m].eventCount /\ w[m] = G[m].eventCount
        /\ \A m \in S : g[m] \in Entry /\ G[m] \in Entry
    BY <1>1, <1>6 DEF Counts
  <2>3. /\ \A m \in S : v[m] \in Nat /\ w[m] \in Nat
        /\ \A m \in R : v[m] = w[m]
        /\ w[i] = v[i] + 1 /\ i \in S
    BY <1>4, <1>6, <2>2 DEF Entry
  <2>4. SumOf(v, S) = k /\ DOMAIN G = S
    BY <1>1, <1>6
  <2> HIDE DEF S, w, v
  <2>5. SumOf(w, S) = w[i] + SumOf(w, R)
    BY <2>1, <2>3, SumRemove
  <2>6. SumOf(v, S) = v[i] + SumOf(v, R)
    BY <2>1, <2>3, SumRemove
  <2>7. IsFiniteSet(R) /\ \A m \in R : v[m] \in Nat
    BY <2>1, <2>3, FS_Subset
  <2>8. SumOf(v, R) = SumOf(w, R) /\ SumOf(v, R) \in Nat
    <3> HIDE DEF R
    <3>1. SumOf(v, R) = SumOf(w, R)
      BY <2>3, <2>7, SumCongruence
    <3>2. SumOf(v, R) \in Nat
      BY <2>7, SumIsNatural
    <3> QED
      BY <3>1, <3>2
  <2>9. SumOf(w, S) = k + 1
    BY <1>2, <2>3, <2>4, <2>5, <2>6, <2>8
  <2> QED
    BY <2>4, <2>9 DEF w
<1> QED
  BY <1>6, <1>8, <1>9, <1>10, <1>11 DEF EntriesFit, G

\* The entries fit after every row.
LEMMA EntriesFitAlways ==
    ASSUME NEW n \in Nat, NEW p, Posts(p, n), NEW W, W[0] = <<>>,
           \A k \in 1..n : W[k] = AddToGroups(W[k - 1], p[k])
    PROVE  EntriesFit(p, n, W[n])
<1> DEFINE T == {k \in Nat : k <= n /\ ~EntriesFit(p, k, W[k])}
<1> SUFFICES ASSUME T # {} PROVE FALSE
  OBVIOUS
<1>1. PICK k \in T : \A m \in T : ~(<<m, k>> \in OpToRel(<, Nat))
  <2>1. T \in SUBSET Nat
    OBVIOUS
  <2> HIDE DEF T
  <2> QED
    BY <2>1, NatLessThanWellFounded, WFMin
<1>2. \A m \in T : ~(m < k)
  BY <1>1 DEF OpToRel
<1>3. EntriesFit(p, 0, <<>>)
  <2> DEFINE e == <<>>
  <2>1. e \in Seq(Entry) /\ DOMAIN e = {} /\ 1..0 = {}
    OBVIOUS
  <2>2. SumOf(Counts(e), {}) = 0
    BY SumEmpty
  <2> HIDE DEF e
  <2>3. EntriesFit(p, 0, e)
    BY <2>1, <2>2 DEF EntriesFit
  <2> QED
    BY <2>3 DEF e
<1>4. k # 0 /\ k \in 1..n /\ k - 1 \in 0..(n - 1) /\ k - 1 \in Nat
  BY <1>3
<1> DEFINE j == k - 1
<1>5. EntriesFit(p, j, W[j])
  BY <1>2, <1>4
<1>6. W[k] = AddToGroups(W[j], p[k]) /\ k = j + 1 /\ j \in 0..(n - 1)
  BY <1>4
<1>7. ~EntriesFit(p, k, W[k])
  OBVIOUS
<1> HIDE DEF j, T
<1> DEFINE g == W[j]
           row == p[k]
<1>8. g \in Seq(Entry)
  BY <1>5 DEF EntriesFit
<1> HIDE DEF g, row
<1>9. CASE /\ \A m \in DOMAIN g : ~SameBucket(g[m].row, row)
           /\ AddToGroups(g, row) = Append(g, [row |-> row, eventCount |-> 1])
  BY <1>5, <1>6, <1>7, <1>9, AppendFits DEF g, row
<1>10. CASE \E i \in DOMAIN g : /\ SameBucket(g[i].row, row)
                                /\ AddToGroups(g, row) = [g EXCEPT ![i].eventCount = @ + 1]
  BY <1>5, <1>6, <1>7, <1>10, CountFits DEF g, row
<1> QED
  BY <1>8, <1>9, <1>10, RowIsAdded

\* The fold of the counts is their sum.
LEMMA FoldIsSum ==
    ASSUME NEW g, IsFiniteSet(DOMAIN g)
    PROVE  FoldSeq(LAMBDA e, n : e.eventCount + n, 0, g) = SumOf(Counts(g), DOMAIN g)
<1> DEFINE S == DOMAIN g
           w == Counts(g)
           Unfolding(f) == [s \in SUBSET S |-> IF s = {} THEN 0 ELSE g[Chosen(s)].eventCount + f[s \ {Chosen(s)}]]
<1>1. \A m \in S : w[m] = g[m].eventCount
  BY DEF Counts
<1>2. FoldSeq(LAMBDA e, n : e.eventCount + n, 0, g) = (CHOOSE f : f = Unfolding(f))[S]
  BY DEF FoldSeq, FoldFunction, FoldFunctionOnSet, MapThenFoldSet, Chosen
<1>3. IsFiniteSet(S)
  OBVIOUS
<1> HIDE DEF S, w
<1>4. ASSUME NEW f PROVE (f = Unfolding(f)) <=> Unfolds(f, w, S)
  <2>1. \A s \in SUBSET S : s # {} => w[Chosen(s)] = g[Chosen(s)].eventCount
    BY <1>1, ChosenInSet
  <2>2. Unfolding(f) = [s \in SUBSET S |-> IF s = {} THEN 0 ELSE w[Chosen(s)] + f[s \ {Chosen(s)}]]
    BY <2>1
  <2> QED
    BY <2>2 DEF Unfolds
<1>5. PICK f : f = Unfolding(f)
  BY <1>3, <1>4, UnfoldsExist
<1> DEFINE h == CHOOSE x : x = Unfolding(x)
<1>6. Unfolds(h, w, S)
  <2> HIDE DEF Unfolding
  <2>1. h = Unfolding(h)
    BY <1>5
  <2> HIDE DEF h
  <2> QED
    BY <1>4, <2>1
<1> HIDE DEF h
<1>7. h[S] = SumOf(w, S)
  BY <1>3, <1>6, SumIsUnfolded
<1> QED
  BY <1>2, <1>7 DEF h, w, S

\* The wall of a feed fits its rows.
LEMMA WallFits ==
    ASSUME FeedFits
    PROVE  /\ Len(feed) \in Nat /\ Posts(feed, Len(feed))
           /\ EntriesFit(feed, Len(feed), Wall)
<1> DEFINE n == Len(feed)
<1>1. n \in Nat /\ DOMAIN feed = 1..n /\ Posts(feed, n)
  BY DEF FeedFits, Posts
<1> HIDE DEF n
<1>2. PICK W : /\ W[0] = <<>>
               /\ \A k \in 1..n : W[k] = AddToGroups(W[k - 1], feed[k])
               /\ CollapseGiftPostGroups(feed) = W[n]
  BY <1>1, EntriesGrow
<1>3. EntriesFit(feed, n, W[n])
  BY <1>1, <1>2, EntriesFitAlways
<1> QED
  BY <1>1, <1>2, <1>3 DEF Wall, n

\* So the wall has one entry for a bucket, the newest post's, in their order.
LEMMA FitWallCollapses ==
    ASSUME FeedFits
    PROVE  WallCollapsesByProduct
<1> DEFINE n == Len(feed)
           p == feed
           g == Wall
<1>1. n \in Nat /\ DOMAIN p = 1..n /\ Posts(p, n) /\ EntriesFit(p, n, g)
  BY WallFits DEF FeedFits
<1>2. /\ g \in Seq(Entry)
      /\ \A m \in DOMAIN g : EntryFits(p, n, g[m])
      /\ \A l, m \in DOMAIN g : l < m => Before(p, n, g[l], g[m])
      /\ SumOf(Counts(g), DOMAIN g) = n
  BY <1>1 DEF EntriesFit
<1>3. ASSUME NEW i \in 1..n PROVE Place(p[i]) = i
  <2>1. \A j \in 1..n : p[j] = p[i] <=> j = i
    BY <1>1 DEF Posts
  <2> QED
    BY <1>1, <2>1 DEF Place
<1>4. ASSUME NEW b PROVE {i \in DOMAIN p : p[i].bucket = b} = Earlier(p, n, b)
  BY <1>1 DEF Earlier
<1> HIDE DEF n, g
<1>5. ASSUME NEW m \in DOMAIN g
      PROVE  LET r == g[m].row
                 mates == {i \in DOMAIN p : p[i].bucket = r.bucket}
             IN IF r.bucket = NoProduct THEN g[m].eventCount = 1
                ELSE g[m].eventCount = Cardinality(mates) /\ \A i \in mates : Place(r) <= i
  <2> DEFINE r == g[m].row
             b == r.bucket
  <2>1. PICK i \in 1..n :
          /\ r = p[i]
          /\ b = NoProduct => g[m].eventCount = 1
          /\ b # NoProduct => /\ g[m].eventCount = Cardinality(Earlier(p, n, b))
                              /\ \A j \in Earlier(p, n, b) : i <= j
    BY <1>2 DEF EntryFits
  <2>2. Place(r) = i
    BY <1>3, <2>1
  <2>3. {j \in DOMAIN p : p[j].bucket = b} = Earlier(p, n, b)
    BY <1>4
  <2> HIDE DEF r, b
  <2>4. IF b = NoProduct THEN g[m].eventCount = 1
        ELSE /\ g[m].eventCount = Cardinality({j \in DOMAIN p : p[j].bucket = b})
             /\ \A j \in {j \in DOMAIN p : p[j].bucket = b} : Place(r) <= j
    BY <2>1, <2>2, <2>3
  <2> QED
    BY <2>4 DEF r, b
<1>6. ASSUME NEW k \in DOMAIN g, NEW l \in DOMAIN g, k < l
      PROVE  /\ Place(g[k].row) < Place(g[l].row)
             /\ g[k].row.bucket = g[l].row.bucket => g[k].row.bucket = NoProduct
  <2>1. Before(p, n, g[k], g[l]) /\ EntryFits(p, n, g[k]) /\ EntryFits(p, n, g[l])
    BY <1>2, <1>6
  <2>2. PICK i \in 1..n : g[k].row = p[i]
    BY <2>1 DEF EntryFits
  <2>3. PICK j \in 1..n : g[l].row = p[j]
    BY <2>1 DEF EntryFits
  <2>4. i < j /\ Place(g[k].row) = i /\ Place(g[l].row) = j
    BY <1>3, <2>1, <2>2, <2>3 DEF Before
  <2> QED
    BY <2>1, <2>4 DEF Before
<1>7. FoldSeq(LAMBDA e, x : e.eventCount + x, 0, g) = n
  <2>1. IsFiniteSet(DOMAIN g)
    <3>1. DOMAIN g = 1..Len(g) /\ Len(g) \in Nat
      BY <1>2
    <3> QED
      BY <3>1, FS_Interval
  <2>2. FoldSeq(LAMBDA e, x : e.eventCount + x, 0, g) = SumOf(Counts(g), DOMAIN g)
    BY <2>1, FoldIsSum
  <2> QED
    BY <1>2, <2>2
<1> QED
  BY <1>5, <1>6, <1>7 DEF WallCollapsesByProduct, g, n

\* The rows keep their shape and their keys.
LEMMA FeedStep ==
    ASSUME FeedFits, [FeedNext]_feed
    PROVE  FeedFits'
<1>1. feed \in Seq(FeedRows) /\ \A i, j \in DOMAIN feed : feed[i].id = feed[j].id => i = j
  BY DEF FeedFits
<1> DEFINE n == Len(feed)
<1>2. n \in Nat /\ DOMAIN feed = 1..n
  BY <1>1
<1>3. CASE UNCHANGED feed
  BY <1>1, <1>3 DEF FeedFits
<1>4. ASSUME NEW b \in Buckets \cup {NoProduct}, PostAppears(b) PROVE FeedFits'
  <2>1. PICK id \in 1..MaxFeed :
          /\ \A i \in DOMAIN feed : feed[i].id # id
          /\ feed' = <<[id |-> id, bucket |-> b]>> \o feed
    BY <1>4 DEF PostAppears
  <2> DEFINE e == [id |-> id, bucket |-> b]
             s == <<e>>
  <2>2. e \in FeedRows /\ e.id = id
    BY DEF FeedRows
  <2> HIDE DEF e
  <2>3. s \in Seq(FeedRows) /\ Len(s) = 1 /\ s[1] = e
    BY <2>2
  <2> HIDE DEF s
  <2>4. /\ s \o feed \in Seq(FeedRows)
        /\ Len(s \o feed) = 1 + n
        /\ \A i \in 1..(1 + n) : (s \o feed)[i] = IF i <= 1 THEN s[i] ELSE feed[i - 1]
    BY <1>1, <2>3, ConcatProperties
  <2>5. /\ feed' \in Seq(FeedRows)
        /\ DOMAIN feed' = 1..(n + 1)
        /\ feed'[1] = e
        /\ \A i \in 2..(n + 1) : feed'[i] = feed[i - 1] /\ i - 1 \in 1..n
    <3> DEFINE f == s \o feed
    <3>1. feed' = f
      BY <2>1 DEF s, e
    <3> HIDE DEF n
    <3>2. f \in Seq(FeedRows) /\ Len(f) = 1 + n /\ \A i \in 1..(1 + n) : f[i] = IF i <= 1 THEN s[i] ELSE feed[i - 1]
      BY <2>4
    <3> HIDE DEF f
    <3>3. f \in Seq(FeedRows) /\ DOMAIN f = 1..(n + 1)
      BY <1>2, <3>2
    <3>4. f[1] = e
      BY <1>2, <2>3, <3>2
    <3>5. ASSUME NEW i \in 2..(n + 1) PROVE f[i] = feed[i - 1] /\ i - 1 \in 1..n
      <4>1. i \in 1..(1 + n) /\ ~(i <= 1) /\ i - 1 \in 1..n
        BY <1>2
      <4> QED
        BY <3>2, <4>1
    <3> QED
      BY <3>1, <3>3, <3>4, <3>5
  <2> HIDE DEF n
  <2>6. ASSUME NEW i \in 1..(n + 1), NEW j \in 1..(n + 1), feed'[i].id = feed'[j].id PROVE i = j
    <3>1. (i = 1 \/ i \in 2..(n + 1)) /\ (j = 1 \/ j \in 2..(n + 1))
      BY <1>2
    <3>2. \A m \in 2..(n + 1) : feed'[m] = feed[m - 1] /\ m - 1 \in 1..n /\ feed[m - 1].id # id
      BY <1>2, <2>1, <2>5
    <3>3. feed'[1].id = id
      BY <2>2, <2>5
    <3>4. CASE i = 1 \/ j = 1
      BY <2>6, <3>1, <3>2, <3>3, <3>4
    <3>5. CASE i \in 2..(n + 1) /\ j \in 2..(n + 1)
      <4>1. feed[i - 1].id = feed[j - 1].id /\ i - 1 \in DOMAIN feed /\ j - 1 \in DOMAIN feed
        BY <1>2, <2>6, <3>2, <3>5
      <4>2. i - 1 = j - 1
        BY <1>1, <4>1
      <4> QED
        BY <3>5, <4>2
    <3> QED
      BY <3>1, <3>4, <3>5
  <2> QED
    BY <2>5, <2>6 DEF FeedFits
<1>5. ASSUME NEW i \in DOMAIN feed, PostWithdrawn(i) PROVE FeedFits'
  <2> DEFINE a == SubSeq(feed, 1, i - 1)
             z == SubSeq(feed, i + 1, n)
  <2>1. i \in 1..n /\ feed' = a \o z
    BY <1>2, <1>5 DEF PostWithdrawn, RemoveAt
  <2>2. /\ a \in Seq(FeedRows) /\ Len(a) = i - 1
        /\ \A j \in 1..(i - 1) : a[j] = feed[j]
    <3>1. 1 \in Int /\ i - 1 \in Int /\ \A j \in 1..(i - 1) : feed[j] \in FeedRows
      BY <1>1, <1>2, <2>1
    <3> HIDE DEF n
    <3>2. /\ a \in Seq(FeedRows)
          /\ Len(a) = IF 1 <= i - 1 THEN (i - 1) - 1 + 1 ELSE 0
          /\ \A j \in 1..((i - 1) - 1 + 1) : a[j] = feed[1 + j - 1]
      BY <3>1, SubSeqProperties
    <3> HIDE DEF a
    <3> QED
      BY <1>2, <2>1, <3>2
  <2>3. /\ z \in Seq(FeedRows) /\ Len(z) = n - i
        /\ \A j \in 1..(n - i) : z[j] = feed[i + j]
    <3>1. i + 1 \in Int /\ n \in Int /\ \A j \in (i + 1)..n : feed[j] \in FeedRows
      BY <1>1, <1>2, <2>1
    <3> HIDE DEF n
    <3>2. /\ z \in Seq(FeedRows)
          /\ Len(z) = IF i + 1 <= n THEN n - (i + 1) + 1 ELSE 0
          /\ \A j \in 1..(n - (i + 1) + 1) : z[j] = feed[(i + 1) + j - 1]
      BY <3>1, SubSeqProperties
    <3> HIDE DEF z
    <3>3. Len(z) = n - i
      BY <1>2, <2>1, <3>2
    <3>4. ASSUME NEW j \in 1..(n - i) PROVE z[j] = feed[i + j]
      <4>1. j \in 1..(n - (i + 1) + 1) /\ (i + 1) + j - 1 = i + j
        BY <1>2, <2>1
      <4> QED
        BY <3>2, <4>1
    <3> QED
      BY <3>2, <3>3, <3>4
  <2> HIDE DEF a, z, n
  <2>4. /\ a \o z \in Seq(FeedRows)
        /\ Len(a \o z) = Len(a) + Len(z)
        /\ \A j \in 1..(Len(a) + Len(z)) : (a \o z)[j] = IF j <= Len(a) THEN a[j] ELSE z[j - Len(a)]
    BY <2>2, <2>3, ConcatProperties
  <2>5. feed' \in Seq(FeedRows) /\ DOMAIN feed' = 1..(n - 1)
    BY <1>2, <2>1, <2>2, <2>3, <2>4
  <2>6. \A j \in 1..(n - 1) : feed'[j] = IF j < i THEN feed[j] ELSE feed[j + 1]
    <3> SUFFICES ASSUME NEW j \in 1..(n - 1) PROVE feed'[j] = IF j < i THEN feed[j] ELSE feed[j + 1]
      OBVIOUS
    <3>1. feed'[j] = IF j <= i - 1 THEN a[j] ELSE z[j - (i - 1)]
      BY <1>2, <2>1, <2>2, <2>3, <2>4
    <3>2. CASE j < i
      BY <1>2, <2>1, <2>2, <3>1, <3>2
    <3>3. CASE ~(j < i)
      <4>1. j - (i - 1) \in 1..(n - i) /\ i + (j - (i - 1)) = j + 1
        BY <1>2, <2>1, <3>3
      <4>2. z[j - (i - 1)] = feed[j + 1]
        BY <2>3, <4>1
      <4> QED
        BY <1>2, <2>1, <3>1, <3>3, <4>2
    <3> QED
      BY <3>2, <3>3
  <2>7. ASSUME NEW j \in 1..(n - 1), NEW k \in 1..(n - 1), feed'[j].id = feed'[k].id PROVE j = k
    <3> DEFINE x == IF j < i THEN j ELSE j + 1
               y == IF k < i THEN k ELSE k + 1
    <3>1. x \in 1..n /\ y \in 1..n /\ (x = y => j = k)
      BY <1>2, <2>1
    <3>2. feed'[j] = feed[x] /\ feed'[k] = feed[y]
      BY <2>6
    <3> HIDE DEF x, y
    <3> QED
      BY <1>1, <1>2, <2>7, <3>1, <3>2
  <2> QED
    BY <2>5, <2>7 DEF FeedFits
<1> QED
  BY <1>3, <1>4, <1>5 DEF FeedNext

\* The rows of a feed are posts with keys of their own.
THEOREM FeedInvariant == FeedSpec => []FeedFits
<1>1. FeedInit => FeedFits
  BY DEF FeedInit, FeedFits
<1>2. FeedFits /\ [FeedNext]_feed => FeedFits'
  BY FeedStep
<1> QED
  BY <1>1, <1>2, PTL DEF FeedSpec

\* However many posts appear and are withdrawn, a wall shows one entry for a
\* direction and product, its newest post with the number of posts behind it,
\* in the order of the posts; posts without a product stand alone and none is
\* lost (collapseGiftPostGroups).
THEOREM WallAlwaysCollapses == FeedSpec => []WallCollapsesByProduct
<1>1. FeedFits => WallCollapsesByProduct
  BY FitWallCollapses
<1> QED
  BY <1>1, FeedInvariant, PTL
=============================================================================
