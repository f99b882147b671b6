----------------------- MODULE SettlementEngineProofs -----------------------
(***************************************************************************)
(* Proofs about the settlement engine, for any items, requests and bounds: *)
(* EngineInv is inductive, and from it type correctness, the anti-double-  *)
(* pay law and the accounting of bound items follow.                       *)
(***************************************************************************)
EXTENDS SettlementEngine, SumTheorems

\* A partial function is a function whose domain is a subset.
LEMMA PartialFunctionsDef ==
    ASSUME NEW S, NEW T, NEW f
    PROVE  f \in PartialFunctions(S, T) <=>
              DOMAIN f \subseteq S /\ f \in [DOMAIN f -> T]
  BY DEF PartialFunctions

\* The empty function is partial on any set.
LEMMA EmptyIsPartial ==
    ASSUME NEW S, NEW T
    PROVE  <<>> \in PartialFunctions(S, T) /\ DOMAIN <<>> = {}
<1>1. DOMAIN <<>> = {} /\ <<>> \in [{} -> T]
  OBVIOUS
<1> QED
  BY <1>1, PartialFunctionsDef

\* The engine starts in its invariant.
LEMMA InitEstablishesInv == Init => EngineInv
<1> SUFFICES ASSUME Init PROVE EngineInv
  OBVIOUS
<1> USE BoundsAssumption DEF Init, NoBatchRow, NoReceivable
<1>1. TypeOK
  <2>1. item \in [Items -> ItemRows]
    BY DEF ItemRows, ItemStates, BatchOrNone, Amounts
  <2>2. batch \in [Batches -> BatchRows]
    BY EmptyIsPartial DEF BatchRows, BatchOrNone
  <2>3. receivable \in [Receivables -> ReceivableRows]
    BY DEF ReceivableRows, Amounts, BatchOrNone
  <2> QED
    BY <2>1, <2>2, <2>3, EmptyIsPartial
       DEF TypeOK, Labels, BatchOrNone, Assembling
<1>2. \A b \in Batches : ~Closed(b) /\ batch[b].status = "none"
        /\ DOMAIN batch[b].allocation = {}
  BY EmptyIsPartial DEF Closed
<1>3. \A a \in Actors : pc[a] = "idle" /\ DOMAIN plan[a] = {}
  BY EmptyIsPartial
<1>4. \A i \in Items : item[i].batch = 0 /\ item[i].state = "pending"
        /\ item[i].amount + item[i].reduced = item[i].collected
  OBVIOUS
<1> QED
  BY <1>1, <1>2, <1>3, <1>4
     DEF EngineInv, RequestsHoldRows, SupersedeSeesMembers, AllocationsFit,
         UnusedIsUnmarked, ClosedKeepsItems, AmountsAddUp, OnABatch,
         BoundItemsAccountedFor, LiveBatchIsWhole, Live, Posted, Batches

\* A step that changes no row keeps what the invariant says of the rows.
LEMMA RowsUnchangedKeepInv ==
    ASSUME EngineInv, UNCHANGED rows, TypeOK', RequestsHoldRows',
           SupersedeSeesMembers',
           \A a \in Actors : \A r \in DOMAIN plan'[a] : Fits(r, plan'[a][r])
    PROVE  EngineInv'
<1>1. /\ item' = item /\ batch' = batch /\ receivable' = receivable
      /\ ledger' = ledger
  BY DEF rows
<1>2. AllocationsFit'
  BY <1>1 DEF EngineInv, AllocationsFit, Fits
<1>3. UnusedIsUnmarked' /\ ClosedKeepsItems' /\ AmountsAddUp'
  BY <1>1 DEF EngineInv, UnusedIsUnmarked, Closed, Posted, ClosedKeepsItems, AmountsAddUp
<1>4. BoundItemsAccountedFor'
  BY <1>1 DEF EngineInv, BoundItemsAccountedFor, AccountsFor, Live, Closed, Posted
<1>5. LiveBatchIsWhole'
  BY <1>1 DEF EngineInv, LiveBatchIsWhole, Live, Closed, Posted, MembersReady
<1> QED
  BY <1>2, <1>3, <1>4, <1>5 DEF EngineInv

\* Ending a request, whatever its step did to the rows, leaves it idle.
LEMMA FinishTyped ==
    ASSUME TypeOK, NEW a \in Actors, Finish(a)
    PROVE  /\ pc' \in [Actors -> Labels]
           /\ target' \in [Actors -> BatchOrNone]
           /\ DOMAIN seen' = Actors
           /\ plan' \in [Actors -> PartialFunctions(Receivables, Allocations)]
           /\ \A c \in Actors :
                 seen'[c] \in IF Assembling(c)' THEN PartialFunctions(Items, Amounts)
                             ELSE PartialFunctions(Items, ItemStates)
           /\ pc'[a] = "idle" /\ plan'[a] = <<>>
           /\ \A c \in Actors \ {a} : /\ pc'[c] = pc[c] /\ target'[c] = target[c]
                                      /\ seen'[c] = seen[c] /\ plan'[c] = plan[c]
  BY BoundsAssumption, EmptyIsPartial
     DEF TypeOK, Finish, Labels, BatchOrNone, Assembling

\* Giving a request up changes no row.
LEMMA GiveUpKeepsInv ==
    ASSUME EngineInv, NEW a \in Actors, GiveUp(a)
    PROVE  EngineInv'
<1>1. /\ TypeOK
      /\ Finish(a)
      /\ UNCHANGED rows
  BY DEF EngineInv, GiveUp
<1>2. TypeOK'
  BY <1>1, FinishTyped DEF TypeOK, rows
<1>3. RequestsHoldRows' /\ SupersedeSeesMembers'
  BY <1>1, FinishTyped
     DEF EngineInv, RequestsHoldRows, SupersedeSeesMembers, OnABatch, rows
<1>4. \A c \in Actors : \A r \in DOMAIN plan'[c] : Fits(r, plan'[c][r])
  BY <1>1, FinishTyped, EmptyIsPartial DEF EngineInv, AllocationsFit
<1> QED
  BY <1>1, <1>2, <1>3, <1>4, RowsUnchangedKeepInv

\* Loading a batch for a status write, a close or a supersession.
LEMMA LoadKeepsInv ==
    ASSUME EngineInv, NEW a \in Actors, NEW b \in Batches,
           NEW label \in OnABatch \ {"supersede_commit"},
           pc[a] = "idle",
           batch[b].status # "none",
           target' = [target EXCEPT ![a] = b],
           Goto(a, label),
           UNCHANGED <<rows, seen, plan>>
    PROVE  EngineInv'
<1>1. TypeOK /\ UNCHANGED rows
  BY DEF EngineInv
<1>2. TypeOK'
  BY BoundsAssumption
     DEF EngineInv, TypeOK, ItemRows, BatchRows, ReceivableRows, Goto, rows, Labels, OnABatch, BatchOrNone, Batches, Assembling
<1>3. RequestsHoldRows' /\ SupersedeSeesMembers'
  BY <1>1 DEF EngineInv, TypeOK, Goto, RequestsHoldRows, SupersedeSeesMembers, rows
<1>4. \A c \in Actors : \A r \in DOMAIN plan'[c] : Fits(r, plan'[c][r])
  BY DEF EngineInv, AllocationsFit
<1> QED
  BY <1>1, <1>2, <1>3, <1>4, RowsUnchangedKeepInv

\* The read steps of an assembly: the items, then the recovery plan.
LEMMA AssembleReadsKeepInv ==
    ASSUME EngineInv, NEW a \in Actors, AssembleRead(a) \/ AssemblePlan(a)
    PROVE  EngineInv'
<1>1. TypeOK /\ UNCHANGED rows /\ UNCHANGED target
  BY DEF EngineInv, AssembleRead, AssemblePlan
<1>2. CASE AssembleRead(a)
  <2>1. seen'[a] \in PartialFunctions(Items, Amounts)
    <3>1. [i \in EligibleItems |-> item[i].amount] \in [EligibleItems -> Amounts]
      BY <1>1 DEF TypeOK, ItemRows, BatchRows, ReceivableRows, EligibleItems
    <3> QED
      BY <1>1, <1>2, <3>1, PartialFunctionsDef DEF AssembleRead, TypeOK, EligibleItems
  <2>2. TypeOK'
    BY <1>1, <1>2, <2>1 DEF TypeOK, AssembleRead, Goto, Labels, Assembling, rows
  <2>3. RequestsHoldRows' /\ SupersedeSeesMembers'
    BY <1>1, <1>2
       DEF EngineInv, TypeOK, AssembleRead, Goto, RequestsHoldRows, SupersedeSeesMembers,
           OnABatch, rows
  <2>4. \A c \in Actors : \A r \in DOMAIN plan'[c] : Fits(r, plan'[c][r])
    BY <1>2 DEF EngineInv, AllocationsFit, AssembleRead
  <2> QED
    BY <1>1, <2>2, <2>3, <2>4, RowsUnchangedKeepInv
<1>3. CASE AssemblePlan(a)
  <2>1. PICK take \in [OpenReceivables -> Amounts] :
          /\ IsRecoveryPlan(take, SumFunction(seen[a]))
          /\ plan' = [plan EXCEPT ![a] =
                [r \in {q \in OpenReceivables : take[q] > 0} |->
                    [amount |-> take[r], at |-> receivable[r].recovered]]]
    BY <1>3 DEF AssemblePlan
  <2> DEFINE line(r) == [amount |-> take[r], at |-> receivable[r].recovered]
             D == {q \in OpenReceivables : take[q] > 0}
  <2>2. D \subseteq Receivables /\ \A r \in D : line(r) \in Allocations
    BY <1>1 DEF OpenReceivables, TypeOK, ItemRows, BatchRows, ReceivableRows, Allocations
  <2>3. plan'[a] = [r \in D |-> line(r)]
    BY <1>1, <2>1 DEF TypeOK
  <2>4. plan'[a] \in PartialFunctions(Receivables, Allocations)
    BY <2>2, <2>3, PartialFunctionsDef
  <2>5. \A r \in D : Fits(r, line(r))
    BY <1>1, <2>1
       DEF OpenReceivables, TypeOK, ItemRows, BatchRows, ReceivableRows, Fits, IsRecoveryPlan, Balance, Recoverable, Amounts
  <2>6. TypeOK'
    BY <1>1, <1>3, <2>1, <2>4 DEF TypeOK, AssemblePlan, Goto, Labels, Assembling, rows
  <2>7. RequestsHoldRows' /\ SupersedeSeesMembers'
    BY <1>1, <1>3
       DEF EngineInv, TypeOK, AssemblePlan, Goto, RequestsHoldRows, SupersedeSeesMembers,
           OnABatch, rows
  <2>8. \A c \in Actors : \A r \in DOMAIN plan'[c] : Fits(r, plan'[c][r])
    BY <1>1, <2>1, <2>3, <2>5 DEF EngineInv, AllocationsFit, TypeOK
  <2> QED
    BY <1>1, <2>6, <2>7, <2>8, RowsUnchangedKeepInv
<1> QED
  BY <1>2, <1>3

\* The read steps of a supersession.
LEMMA SupersedeReadsKeepInv ==
    ASSUME EngineInv, NEW a \in Actors,
           SupersedeCheckRemittance(a) \/ SupersedeReadItems(a)
    PROVE  EngineInv'
<1>1. TypeOK /\ UNCHANGED rows /\ UNCHANGED <<target, plan>>
  BY DEF EngineInv, SupersedeCheckRemittance, SupersedeReadItems
<1>2. \A c \in Actors : \A r \in DOMAIN plan'[c] : Fits(r, plan'[c][r])
  BY <1>1 DEF EngineInv, AllocationsFit
<1>3. CASE SupersedeCheckRemittance(a)
  <2>1. TypeOK'
    BY <1>1, <1>3 DEF TypeOK, SupersedeCheckRemittance, Goto, Labels, Assembling, rows
  <2>2. RequestsHoldRows' /\ SupersedeSeesMembers'
    BY <1>1, <1>3
       DEF EngineInv, TypeOK, SupersedeCheckRemittance, Goto, RequestsHoldRows,
           SupersedeSeesMembers, OnABatch, rows
  <2> QED
    BY <1>1, <1>2, <2>1, <2>2, RowsUnchangedKeepInv
<1>4. CASE SupersedeReadItems(a)
  <2> DEFINE M == {i \in Items : item[i].batch = target[a]}
  <2>1. seen' = [seen EXCEPT ![a] = [i \in M |-> item[i].state]]
    BY <1>4 DEF SupersedeReadItems
  <2>2. seen'[a] \in PartialFunctions(Items, ItemStates) /\ DOMAIN seen'[a] = M
    <3>1. [i \in M |-> item[i].state] \in [M -> ItemStates]
      BY <1>1 DEF TypeOK, ItemRows, BatchRows, ReceivableRows
    <3> QED
      BY <1>1, <2>1, <3>1, PartialFunctionsDef DEF TypeOK
  <2>3. TypeOK'
    BY <1>1, <1>4, <2>1, <2>2 DEF TypeOK, SupersedeReadItems, Goto, Labels, Assembling, rows
  <2>4. RequestsHoldRows' /\ SupersedeSeesMembers'
    BY <1>1, <1>4, <2>1, <2>2
       DEF EngineInv, TypeOK, SupersedeReadItems, Goto, RequestsHoldRows,
           SupersedeSeesMembers, OnABatch, rows
  <2> QED
    BY <1>1, <1>2, <2>3, <2>4, RowsUnchangedKeepInv
<1> QED
  BY <1>3, <1>4

\* A step that leaves batches, receivables, ledger and requests alone, and
\* moves items without binding or unbinding them.
LEMMA ItemStepKeepsInv ==
    ASSUME EngineInv, UNCHANGED <<batch, receivable, ledger, locals>>,
           item' \in [Items -> ItemRows],
           AmountsAddUp',
           \A i \in Items :
              /\ item'[i].batch = item[i].batch
              /\ item[i].batch = 0 =>
                    item'[i].state \in {"pending", "eligible", "held", "disputed"}
              /\ item[i].batch # 0 => item'[i] = item[i]
    PROVE  EngineInv'
<1>1. /\ batch' = batch /\ receivable' = receivable /\ ledger' = ledger
      /\ pc' = pc /\ target' = target /\ seen' = seen /\ plan' = plan
  BY DEF locals
<1>2. TypeOK'
  BY <1>1 DEF EngineInv, TypeOK, Assembling
<1>3. RequestsHoldRows' /\ SupersedeSeesMembers' /\ AllocationsFit'
  BY <1>1 DEF EngineInv, RequestsHoldRows, SupersedeSeesMembers, AllocationsFit, Fits
<1>4. UnusedIsUnmarked'
  BY <1>1 DEF EngineInv, UnusedIsUnmarked, Closed, Posted
<1>5. ClosedKeepsItems'
  <2>1. \A b \in Batches : DOMAIN batch[b].composition \subseteq Items
    BY PartialFunctionsDef DEF EngineInv, TypeOK, ItemRows, BatchRows, ReceivableRows
  <2> QED
    BY <1>1, <2>1 DEF EngineInv, ClosedKeepsItems, Closed
<1>6. BoundItemsAccountedFor'
  BY <1>1 DEF EngineInv, BoundItemsAccountedFor, AccountsFor, Live, Closed, Posted
<1>7. LiveBatchIsWhole'
  <2>1. \A b \in Batches : DOMAIN batch[b].composition \subseteq Items /\ b # 0
    BY BoundsAssumption, PartialFunctionsDef DEF EngineInv, TypeOK, ItemRows, BatchRows, ReceivableRows, Batches
  <2>2. \A b \in Batches : Live(b)' <=> Live(b)
    BY <1>1 DEF Live, Closed, Posted
  <2>3. \A b \in Batches : MembersReady(b) => MembersReady(b)'
    BY <1>1, <2>1 DEF MembersReady
  <2> QED
    BY <1>1, <2>2, <2>3 DEF EngineInv, LiveBatchIsWhole
<1> QED
  BY <1>2, <1>3, <1>4, <1>5, <1>6, <1>7 DEF EngineInv

\* Eligibility and refunds before the settlement.
LEMMA UnboundItemStepsKeepInv ==
    ASSUME EngineInv, NEW i \in Items
    PROVE  /\ EvaluateEligible(i) => EngineInv'
           /\ \A amount \in 1..MaxAmount :
                 /\ Refunded(i) + amount <= item[i].collected
                 /\ ReduceItem(i, amount)
                 /\ UNCHANGED locals
                 => EngineInv'
<1>0. /\ TypeOK /\ AmountsAddUp /\ BoundItemsAccountedFor
      /\ \A j \in Items : item[j].batch = 0 =>
             item[j].state \in {"pending", "eligible", "held", "disputed"}
  BY DEF EngineInv, BoundItemsAccountedFor
<1>1. ASSUME EvaluateEligible(i) PROVE EngineInv'
  <2>1. item' \in [Items -> ItemRows]
    BY <1>0, <1>1 DEF TypeOK, ItemRows, BatchRows, ReceivableRows, EvaluateEligible, ItemStates
  <2>2. AmountsAddUp'
    BY <1>0, <1>1 DEF TypeOK, EvaluateEligible, AmountsAddUp
  <2>3. \A j \in Items :
          /\ item'[j].batch = item[j].batch
          /\ item[j].batch = 0 =>
                item'[j].state \in {"pending", "eligible", "held", "disputed"}
          /\ item[j].batch # 0 => item'[j] = item[j]
    BY <1>0, <1>1 DEF TypeOK, EvaluateEligible
  <2> QED
    BY <1>1, <2>1, <2>2, <2>3, ItemStepKeepsInv DEF EvaluateEligible
<1>2. ASSUME NEW amount \in 1..MaxAmount, Refunded(i) + amount <= item[i].collected,
             ReduceItem(i, amount), UNCHANGED locals
      PROVE  EngineInv'
  <2>0. item' = [item EXCEPT ![i] = Shrunk(i, amount)]
    BY <1>2 DEF ReduceItem
  <2>1. item' \in [Items -> ItemRows]
    <3>1. item[i].amount - amount \in Amounts /\ item[i].reduced + amount \in Amounts
      BY <1>0, <1>2, BoundsAssumption DEF TypeOK, ItemRows, BatchRows, ReceivableRows, ReduceItem, Refunded, Amounts
    <3>2. item[i] \in ItemRows
      BY <1>0 DEF TypeOK
    <3>3. Shrunk(i, amount) \in ItemRows
      BY <3>1, <3>2 DEF ItemRows, Shrunk
    <3> QED
      BY <1>0, <2>0, <3>3 DEF TypeOK
  <2>2. AmountsAddUp'
    BY <1>0, <1>2, <2>0, BoundsAssumption DEF TypeOK, ItemRows, BatchRows, ReceivableRows, AmountsAddUp, Amounts, Shrunk
  <2>3. \A j \in Items :
          /\ item'[j].batch = item[j].batch
          /\ item[j].batch = 0 =>
                item'[j].state \in {"pending", "eligible", "held", "disputed"}
          /\ item[j].batch # 0 => item'[j] = item[j]
    BY <1>0, <1>2, <2>0 DEF TypeOK, ReduceItem, Shrunk
  <2> QED
    BY <1>2, <2>1, <2>2, <2>3, ItemStepKeepsInv DEF ReduceItem
<1> QED
  BY <1>1, <1>2

\* A refund after the settlement: a new receivable, the item stays bound.
LEMMA ClawBackKeepsInv ==
    ASSUME EngineInv, NEW i \in Items, NEW amount \in 1..MaxAmount,
           Refunded(i) + amount <= item[i].collected,
           ClawBack(i, amount), UNCHANGED locals
    PROVE  EngineInv'
<1>0. /\ TypeOK /\ batch' = batch
      /\ pc' = pc /\ target' = target /\ seen' = seen /\ plan' = plan
      /\ item[i].state \in {"settled", "reversed"}
  BY DEF EngineInv, ClawBack, locals
<1>1. PICK r \in Receivables :
        /\ receivable[r].state = "none"
        /\ receivable' = [receivable EXCEPT ![r] =
              [state |-> "open", amount |-> amount, recovered |-> 0, staged |-> 0]]
        /\ ledger' = ledger \cup {Posting("accrued", <<r>>, amount)}
  BY DEF ClawBack, NextReceivable
<1>2. item' = [item EXCEPT ![i] = Clawed(i, amount)]
  BY DEF ClawBack
<1>3. item[i].clawed + amount \in Amounts
  BY <1>0, BoundsAssumption DEF TypeOK, ItemRows, BatchRows, ReceivableRows, Refunded, Amounts
<1>4. TypeOK'
  <2>1. item' \in [Items -> ItemRows]
    <3>1. item[i] \in ItemRows
      BY <1>0 DEF TypeOK, ItemRows, BatchRows, ReceivableRows
    <3>2. Clawed(i, amount) \in ItemRows
      BY <1>3, <3>1 DEF ItemRows, ItemStates, Clawed
    <3> QED
      BY <1>0, <1>2, <3>2 DEF TypeOK
  <2>2. receivable' \in [Receivables -> ReceivableRows]
    BY <1>0, <1>1, BoundsAssumption
       DEF TypeOK, ItemRows, BatchRows, ReceivableRows, Amounts, BatchOrNone, ReceivableStates
  <2> QED
    BY <1>0, <2>1, <2>2 DEF TypeOK, Assembling
<1>5. \A j \in Items : /\ item'[j].batch = item[j].batch
                       /\ item'[j].amount = item[j].amount
                       /\ item'[j].reduced = item[j].reduced
                       /\ item'[j].collected = item[j].collected
                       /\ j # i => item'[j] = item[j]
  BY <1>0, <1>2 DEF TypeOK, ItemRows, BatchRows, ReceivableRows, Clawed
<1>5a. item'[i].state \in {"settled", "reversed"}
  BY <1>0, <1>2 DEF TypeOK, Clawed
<1>6. \A q \in Receivables : q # r => receivable'[q] = receivable[q]
  BY <1>0, <1>1 DEF TypeOK
<1>7. \A b \in Batches : Posted("superseded", <<b>>)' <=> Posted("superseded", <<b>>)
  BY <1>1 DEF Posted, Posting
<1>8. RequestsHoldRows' /\ SupersedeSeesMembers' /\ AmountsAddUp'
  BY <1>0, <1>5 DEF EngineInv, RequestsHoldRows, SupersedeSeesMembers, AmountsAddUp
<1>9. AllocationsFit'
  <2>1. \A b \in Batches : DOMAIN batch[b].allocation \subseteq Receivables
    BY <1>0, PartialFunctionsDef DEF TypeOK, ItemRows, BatchRows, ReceivableRows
  <2>2. \A a \in Actors : DOMAIN plan[a] \subseteq Receivables
    BY <1>0, PartialFunctionsDef DEF TypeOK
  <2> QED
    BY <1>0, <1>1, <1>6, <2>1, <2>2 DEF EngineInv, AllocationsFit, Fits
<1>10. UnusedIsUnmarked'
  BY <1>0, <1>7 DEF EngineInv, UnusedIsUnmarked, Closed
<1>11. ClosedKeepsItems'
  <2>1. \A b \in Batches : DOMAIN batch[b].composition \subseteq Items
    BY <1>0, PartialFunctionsDef DEF TypeOK, ItemRows, BatchRows, ReceivableRows
  <2> QED
    BY <1>0, <1>5, <2>1 DEF EngineInv, ClosedKeepsItems, Closed
<1>12. \A b \in Batches : Live(b)' <=> Live(b)
  BY <1>0, <1>7 DEF Live, Closed
<1>13. item[i].batch # 0
  BY <1>0 DEF EngineInv, BoundItemsAccountedFor
<1>14. \A j \in Items : item[j].batch # 0 => item[j].batch \in Batches
  BY <1>0, BoundsAssumption DEF TypeOK, ItemRows, BatchRows, ReceivableRows, BatchOrNone, Batches
<1>15. BoundItemsAccountedFor'
  <2>1. \A b \in Batches : AccountsFor(b, i) => AccountsFor(b, i)'
    BY <1>0, <1>5, <1>5a DEF AccountsFor, Closed
  <2>2. \A j \in Items, b \in Batches : j # i /\ AccountsFor(b, j) => AccountsFor(b, j)'
    BY <1>0, <1>5, <1>12 DEF AccountsFor, Closed
  <2> QED
    BY <1>5, <1>13, <2>1, <2>2 DEF EngineInv, BoundItemsAccountedFor
<1>16. LiveBatchIsWhole'
  <2>1. \A b \in Batches : /\ DOMAIN batch[b].composition \subseteq Items
                           /\ DOMAIN batch[b].allocation \subseteq Receivables
    BY <1>0, PartialFunctionsDef DEF TypeOK, ItemRows, BatchRows, ReceivableRows
  <2>2. \A b \in Batches : Live(b) => i \notin DOMAIN batch[b].composition
    BY <1>0 DEF EngineInv, LiveBatchIsWhole, MembersReady
  <2>3. \A b \in Batches : r \notin DOMAIN batch[b].allocation
    BY <1>1 DEF EngineInv, AllocationsFit, Fits
  <2> QED
    BY <1>0, <1>5, <1>6, <1>12, <2>1, <2>2, <2>3
       DEF EngineInv, LiveBatchIsWhole, MembersReady
<1> QED
  BY <1>4, <1>8, <1>9, <1>10, <1>11, <1>15, <1>16 DEF EngineInv

-----------------------------------------------------------------------------
(***************************************************************************)
(* The steps that write batches.  In each of them the requests either end  *)
(* or stay where they are.                                                 *)
(***************************************************************************)
RequestsEnd ==
    /\ pc' \in [Actors -> Labels]
    /\ target' \in [Actors -> BatchOrNone]
    /\ DOMAIN seen' = Actors
    /\ plan' \in [Actors -> PartialFunctions(Receivables, Allocations)]
    /\ \A c \in Actors :
          seen'[c] \in IF Assembling(c)' THEN PartialFunctions(Items, Amounts)
                      ELSE PartialFunctions(Items, ItemStates)
    /\ \A c \in Actors : \/ pc'[c] = "idle" /\ plan'[c] = <<>>
                         \/ /\ pc'[c] = pc[c] /\ target'[c] = target[c]
                            /\ seen'[c] = seen[c] /\ plan'[c] = plan[c]

\* Finishing a request, and leaving all of them alone, are such steps.
LEMMA FinishEnds ==
    ASSUME TypeOK
    PROVE  /\ \A a \in Actors : Finish(a) => RequestsEnd
           /\ UNCHANGED locals => RequestsEnd
<1>1. ASSUME NEW a \in Actors, Finish(a) PROVE RequestsEnd
  BY <1>1, FinishTyped DEF RequestsEnd
<1>2. UNCHANGED locals => RequestsEnd
  BY DEF RequestsEnd, locals, TypeOK, Assembling
<1> QED
  BY <1>1, <1>2

\* What the invariant says of requests survives when batches keep their rows,
\* bound items stay or leave, and receivables keep their amounts.
LEMMA RequestsEndKeepInv ==
    ASSUME EngineInv, RequestsEnd,
           item' \in [Items -> ItemRows],
           batch' \in [Batches -> BatchRows],
           receivable' \in [Receivables -> ReceivableRows],
           \A b \in Batches : /\ batch[b].status # "none" => batch'[b].status # "none"
                              /\ \A r \in DOMAIN batch'[b].allocation :
                                    Fits(r, batch'[b].allocation[r]),
           \A i \in Items, b \in Batches :
              item'[i].batch = b => item[i].batch = b \/ batch[b].status = "none",
           \A r \in Receivables : /\ receivable'[r].amount = receivable[r].amount
                                  /\ receivable[r].state # "none" =>
                                        receivable'[r].state # "none"
    PROVE  TypeOK' /\ RequestsHoldRows' /\ SupersedeSeesMembers' /\ AllocationsFit'
<1>1. TypeOK'
  BY DEF TypeOK, RequestsEnd
<1>2. RequestsHoldRows'
  BY DEF EngineInv, RequestsHoldRows, RequestsEnd, OnABatch
<1>3. SupersedeSeesMembers'
  <2> SUFFICES ASSUME NEW c \in Actors, pc'[c] = "supersede_commit",
                      NEW i \in Items, item'[i].batch = target'[c]
               PROVE  i \in DOMAIN seen'[c]
    BY DEF SupersedeSeesMembers
  <2>1. pc[c] = "supersede_commit" /\ target'[c] = target[c] /\ seen'[c] = seen[c]
    BY DEF RequestsEnd
  <2>2. target[c] \in Batches /\ batch[target[c]].status # "none"
    BY <2>1 DEF EngineInv, RequestsHoldRows, OnABatch
  <2>3. item[i].batch = target[c]
    BY <2>1, <2>2
  <2> QED
    BY <2>1, <2>3 DEF EngineInv, SupersedeSeesMembers
<1>4. AllocationsFit'
  <2>1. \A b \in Batches : DOMAIN batch'[b].allocation \subseteq Receivables
    BY PartialFunctionsDef DEF BatchRows
  <2>2. \A a \in Actors : /\ DOMAIN plan'[a] \subseteq Receivables
                          /\ \A r \in DOMAIN plan'[a] : Fits(r, plan'[a][r])
    BY EmptyIsPartial, PartialFunctionsDef DEF RequestsEnd, EngineInv, AllocationsFit
  <2> QED
    BY <2>1, <2>2 DEF AllocationsFit, Fits
<1> QED
  BY <1>1, <1>2, <1>3, <1>4

\* A status write or a successor link: one row changes, nothing it froze does.
LEMMA BatchStepKeepsInv ==
    ASSUME EngineInv, RequestsEnd,
           UNCHANGED <<item, receivable, ledger>>,
           batch' \in [Batches -> BatchRows],
           \A b \in Batches :
              /\ batch'[b].composition = batch[b].composition
              /\ batch'[b].allocation = batch[b].allocation
              /\ batch'[b].closure = batch[b].closure
              /\ \/ batch'[b].status = batch[b].status
                 \/ /\ batch[b].status # "none"
                    /\ batch'[b].status \in {"ready", "failed", "held"}
    PROVE  EngineInv'
<1>1. TypeOK' /\ RequestsHoldRows' /\ SupersedeSeesMembers' /\ AllocationsFit'
  BY RequestsEndKeepInv DEF EngineInv, TypeOK, AllocationsFit
<1>2. \A b \in Batches : /\ Closed(b)' <=> Closed(b)
                         /\ Live(b)' <=> Live(b)
                         /\ MembersReady(b)' <=> MembersReady(b)
                         /\ Posted("superseded", <<b>>)' <=> Posted("superseded", <<b>>)
  BY DEF Closed, Live, Posted, MembersReady
<1>3. UnusedIsUnmarked'
  BY <1>2 DEF EngineInv, UnusedIsUnmarked
<1>4. ClosedKeepsItems' /\ AmountsAddUp'
  BY <1>2 DEF EngineInv, ClosedKeepsItems, AmountsAddUp
<1>5. BoundItemsAccountedFor'
  <2>1. \A i \in Items, b \in Batches : AccountsFor(b, i) => AccountsFor(b, i)'
    BY <1>2 DEF AccountsFor
  <2> QED
    BY <2>1 DEF EngineInv, BoundItemsAccountedFor
<1>6. LiveBatchIsWhole'
  BY <1>2 DEF EngineInv, LiveBatchIsWhole
<1> QED
  BY <1>1, <1>3, <1>4, <1>5, <1>6 DEF EngineInv

\* The unguarded status write keeps the invariant: a batch it wakes from a
\* terminal status holds no ready item.
LEMMA StatusWritesKeepInv ==
    ASSUME EngineInv
    PROVE  /\ \A a \in Actors : WriteStatus(a) => EngineInv'
           /\ \A b, c \in Batches : LinkSuccessor(b, c) => EngineInv'
<1>0. TypeOK
  BY DEF EngineInv
<1>1. ASSUME NEW a \in Actors, WriteStatus(a) PROVE EngineInv'
  <2>1. /\ target[a] \in Batches
        /\ batch[target[a]].status # "none"
        /\ StatusWrites[pc[a]] \in {"ready", "failed", "held"}
    BY <1>1 DEF EngineInv, RequestsHoldRows, WriteStatus, StatusWrites, OnABatch
  <2>2. batch' = [batch EXCEPT ![target[a]].status = StatusWrites[pc[a]]]
    BY <1>1 DEF WriteStatus
  <2>3. batch' \in [Batches -> BatchRows]
    BY <1>0, <2>1, <2>2 DEF TypeOK, BatchRows, BatchStates
  <2>4. RequestsEnd
    BY <1>0, <1>1, FinishEnds DEF WriteStatus
  <2>5. \A b \in Batches :
          /\ batch'[b].composition = batch[b].composition
          /\ batch'[b].allocation = batch[b].allocation
          /\ batch'[b].closure = batch[b].closure
          /\ \/ batch'[b].status = batch[b].status
             \/ /\ batch[b].status # "none"
                /\ batch'[b].status \in {"ready", "failed", "held"}
    BY <1>0, <2>1, <2>2 DEF TypeOK, BatchRows
  <2> QED
    BY <1>1, <2>3, <2>4, <2>5, BatchStepKeepsInv DEF WriteStatus
<1>2. ASSUME NEW b \in Batches, NEW c \in Batches, LinkSuccessor(b, c)
      PROVE  EngineInv'
  <2>1. batch' = [batch EXCEPT ![b].successor = c] /\ c \in BatchOrNone
    BY <1>2, BoundsAssumption DEF LinkSuccessor, Batches, BatchOrNone
  <2>2. batch' \in [Batches -> BatchRows]
    BY <1>0, <2>1 DEF TypeOK, BatchRows
  <2>3. RequestsEnd
    BY <1>0, <1>2, FinishEnds DEF LinkSuccessor
  <2>4. \A d \in Batches : /\ batch'[d].composition = batch[d].composition
                           /\ batch'[d].allocation = batch[d].allocation
                           /\ batch'[d].closure = batch[d].closure
                           /\ batch'[d].status = batch[d].status
    BY <1>0, <2>1 DEF TypeOK, BatchRows
  <2> QED
    BY <1>2, <2>2, <2>3, <2>4, BatchStepKeepsInv DEF LinkSuccessor
<1> QED
  BY <1>1, <1>2

\* Assembly binds unbound items and unstaged receivables to an unused number.
LEMMA AssembleCommitKeepsInv ==
    ASSUME EngineInv, NEW a \in Actors, AssembleCommit(a)
    PROVE  EngineInv'
<1> DEFINE comp == seen[a]
           alloc == plan[a]
<1>0. TypeOK
  BY DEF EngineInv
<1>1. PICK b \in Batches :
        /\ NextBatch(b)
        /\ batch' = [batch EXCEPT ![b] =
              [status |-> "ready", composition |-> comp, allocation |-> alloc,
               closure |-> "none", successor |-> 0]]
        /\ item' = [i \in Items |-> IF i \in DOMAIN comp
              THEN [item[i] EXCEPT !.state = "ready", !.batch = b] ELSE item[i]]
        /\ receivable' = [r \in Receivables |-> IF r \in DOMAIN alloc
              THEN [receivable[r] EXCEPT !.staged = b] ELSE receivable[r]]
        /\ ledger' = ledger \cup {Posting("started", <<b>>, 0)}
  BY DEF AssembleCommit
<1>2. /\ \A i \in DOMAIN comp : Bindable(i, comp[i])
      /\ \A r \in DOMAIN alloc : Stageable(r, alloc[r].at)
      /\ pc[a] = "assemble_commit"
      /\ Finish(a)
  BY DEF AssembleCommit
<1>3. /\ comp \in PartialFunctions(Items, Amounts) /\ DOMAIN comp \subseteq Items
      /\ alloc \in PartialFunctions(Receivables, Allocations)
      /\ DOMAIN alloc \subseteq Receivables
  BY <1>0, <1>2, PartialFunctionsDef DEF TypeOK, Assembling
<1>4. b # 0 /\ b \in BatchOrNone /\ batch[b].status = "none"
  <2>1. NextBatch(b)
    BY <1>1
  <2> QED
    BY <2>1, BoundsAssumption DEF Batches, BatchOrNone, NextBatch
<1>5. RequestsEnd
  BY <1>0, <1>2, FinishEnds
<1>6. /\ batch' \in [Batches -> BatchRows]
      /\ batch'[b].composition = comp /\ batch'[b].allocation = alloc
      /\ batch'[b].closure = "none" /\ batch'[b].status = "ready"
      /\ \A c \in Batches : c # b => batch'[c] = batch[c]
  <2> DEFINE row == [status |-> "ready", composition |-> comp, allocation |-> alloc,
                     closure |-> "none", successor |-> 0]
  <2>1. row \in BatchRows
    BY <1>3, BoundsAssumption DEF BatchRows, BatchStates, BatchOrNone
  <2>2. batch' = [batch EXCEPT ![b] = row]
    BY <1>1
  <2>3. batch \in [Batches -> BatchRows]
    BY <1>0 DEF TypeOK
  <2> QED
    BY <2>1, <2>2, <2>3
<1>7. item' \in [Items -> ItemRows]
  <2>1. ASSUME NEW i \in Items PROVE item'[i] \in ItemRows
    <3>1. item[i] \in ItemRows
      BY <1>0 DEF TypeOK
    <3>2. [item[i] EXCEPT !.state = "ready", !.batch = b] \in ItemRows
      BY <1>4, <3>1 DEF ItemRows, ItemStates
    <3> QED
      BY <1>1, <3>1, <3>2
  <2> QED
    BY <1>1, <2>1
<1>8. /\ \A i \in DOMAIN comp : /\ item'[i].state = "ready" /\ item'[i].batch = b
                               /\ item[i].batch = 0
      /\ \A i \in Items \ DOMAIN comp : item'[i] = item[i]
      /\ \A i \in Items : /\ item'[i].amount = item[i].amount
                          /\ item'[i].reduced = item[i].reduced
                          /\ item'[i].collected = item[i].collected
  BY <1>0, <1>1, <1>2, <1>3, ZenonT(60)
     DEF TypeOK, ItemRows, Bindable
<1>9. receivable' \in [Receivables -> ReceivableRows]
  BY <1>0, <1>1, <1>4 DEF TypeOK, ReceivableRows
<1>10. /\ \A r \in Receivables : /\ receivable'[r].state = receivable[r].state
                                 /\ receivable'[r].amount = receivable[r].amount
       /\ \A r \in DOMAIN alloc : receivable'[r].staged = b /\ receivable[r].staged = 0
       /\ \A r \in Receivables \ DOMAIN alloc : receivable'[r] = receivable[r]
  BY <1>0, <1>1, <1>2, <1>3 DEF TypeOK, ReceivableRows, Stageable, Recoverable
<1>11. TypeOK' /\ RequestsHoldRows' /\ SupersedeSeesMembers' /\ AllocationsFit'
  <2>1. \A c \in Batches : /\ batch[c].status # "none" => batch'[c].status # "none"
                           /\ \A r \in DOMAIN batch'[c].allocation :
                                 Fits(r, batch'[c].allocation[r])
    BY <1>6 DEF EngineInv, AllocationsFit
  <2>2. \A i \in Items, c \in Batches :
          item'[i].batch = c => item[i].batch = c \/ batch[c].status = "none"
    BY <1>4, <1>8
  <2> QED
    BY <1>5, <1>6, <1>7, <1>9, <1>10, <2>1, <2>2, RequestsEndKeepInv
<1>12. \A c \in Batches : Posted("superseded", <<c>>)' <=> Posted("superseded", <<c>>)
  <2>1. ledger' = ledger \cup {Posting("started", <<b>>, 0)}
    BY <1>1
  <2> QED
    BY <2>1 DEF Posted, Posting
<1>13. /\ ~Closed(b) /\ ~Closed(b)' /\ Live(b)'
       /\ \A c \in Batches : c # b => /\ Closed(c)' <=> Closed(c)
                                      /\ Live(c)' <=> Live(c)
  BY <1>4, <1>6, <1>12 DEF EngineInv, UnusedIsUnmarked, Closed, Live
<1>14. UnusedIsUnmarked'
  BY <1>6, <1>12, <1>13 DEF EngineInv, UnusedIsUnmarked
<1>15. \A c \in Batches : DOMAIN batch[c].composition \subseteq Items
                         /\ DOMAIN batch[c].allocation \subseteq Receivables /\ c # 0
  BY <1>0, BoundsAssumption, PartialFunctionsDef DEF TypeOK, BatchRows, Batches
<1>16. ClosedKeepsItems'
  BY <1>6, <1>8, <1>13, <1>15 DEF EngineInv, ClosedKeepsItems
<1>17. AmountsAddUp'
  BY <1>8 DEF EngineInv, AmountsAddUp
<1>18. BoundItemsAccountedFor'
  <2>1. \A i \in DOMAIN comp : AccountsFor(b, i)'
    BY <1>2, <1>3, <1>6, <1>8, <1>13 DEF AccountsFor, Bindable
  <2>2. \A i \in Items \ DOMAIN comp : item[i].batch # b
    BY <1>4, <1>13 DEF EngineInv, BoundItemsAccountedFor, AccountsFor, Live
  <2>3. \A i \in Items \ DOMAIN comp, c \in Batches :
          c # b /\ AccountsFor(c, i) => AccountsFor(c, i)'
    BY <1>6, <1>8, <1>13 DEF AccountsFor
  <2> QED
    BY <1>4, <1>8, <2>1, <2>2, <2>3 DEF EngineInv, BoundItemsAccountedFor
<1>19. LiveBatchIsWhole'
  <2>1. MembersReady(b)' /\ \A r \in DOMAIN batch'[b].allocation : receivable'[r].staged = b
    BY <1>6, <1>8, <1>10 DEF MembersReady
  <2>2. ASSUME NEW c \in Batches, c # b, Live(c)
        PROVE  MembersReady(c)' /\ \A r \in DOMAIN batch'[c].allocation : receivable'[r].staged = c
    BY <1>6, <1>8, <1>10, <1>15, <2>2 DEF EngineInv, LiveBatchIsWhole, MembersReady
  <2> QED
    BY <1>13, <2>1, <2>2 DEF LiveBatchIsWhole
<1> QED
  BY <1>11, <1>14, <1>16, <1>17, <1>18, <1>19 DEF EngineInv

\* Supersession releases exactly the ready items of a live batch.
LEMMA SupersedeCommitKeepsInv ==
    ASSUME EngineInv, NEW a \in Actors, NEW affected \in SUBSET Items,
           NEW disposition \in SupersedeDispositions,
           SupersedeCommit(a, affected, disposition),
           NEW b, b = target[a], NEW S, S = DOMAIN seen[a]
    PROVE  EngineInv'
<1> DEFINE To(i) == IF i \in affected THEN disposition ELSE "eligible"
<1>0. TypeOK
  BY DEF EngineInv
<1>1. pc[a] = "supersede_commit" /\ Finish(a)
  BY DEF SupersedeCommit
<1>1a. \A i \in S : Releasable(i, b, seen[a][i], To(i))
  BY DEF SupersedeCommit
<1>1b. batch' = [batch EXCEPT ![b].status = "superseded"]
  BY DEF SupersedeCommit
<1>1c. item' = [i \in Items |-> IF i \in S
            THEN [item[i] EXCEPT !.state = To(i), !.batch = 0] ELSE item[i]]
  BY DEF SupersedeCommit
<1>1d. receivable' = Unstaged(b)
  BY DEF SupersedeCommit
<1>1e. ledger' = ledger \cup {Posting("superseded", <<b>>, 0)}
  BY DEF SupersedeCommit
<1>2. b \in Batches /\ b # 0 /\ batch[b].status # "none"
  BY <1>1, BoundsAssumption DEF EngineInv, RequestsHoldRows, OnABatch, Batches
<1>3. S \subseteq Items /\ \A i \in S : To(i) \in {"eligible", "held", "disputed"}
  BY <1>0, <1>1, PartialFunctionsDef DEF TypeOK, Assembling, SupersedeDispositions
<1>4. \A i \in S : item[i].batch = b /\ item[i].state = "ready"
  <2>1. ASSUME NEW i \in S PROVE item[i].batch = b /\ item[i].state = "ready"
    <3>1. item[i].batch = b /\ ItemMay(item[i].state, To(i))
      BY <1>1a, <2>1 DEF Releasable
    <3>2. item[i].state \in {"ready", "settled", "reversed"}
      BY <1>2, <1>3, <3>1 DEF EngineInv, BoundItemsAccountedFor, AccountsFor
    <3> QED
      BY <1>3, <3>1, <3>2 DEF ItemMay, ItemTransitions
  <2> QED
    BY <2>1
<1>5. \A i \in Items : item[i].batch = b => i \in S
  BY <1>1 DEF EngineInv, SupersedeSeesMembers
<1>6. RequestsEnd
  BY <1>0, <1>1, FinishEnds
<1>7. /\ batch' \in [Batches -> BatchRows]
      /\ batch'[b].status = "superseded"
      /\ \A c \in Batches : /\ batch'[c].composition = batch[c].composition
                            /\ batch'[c].allocation = batch[c].allocation
                            /\ batch'[c].closure = batch[c].closure
                            /\ c # b => batch'[c] = batch[c]
  BY <1>0, <1>1b, <1>2 DEF TypeOK, BatchRows, BatchStates
<1>8. item' \in [Items -> ItemRows]
  <2>1. ASSUME NEW i \in Items PROVE item'[i] \in ItemRows
    <3>1. item[i] \in ItemRows
      BY <1>0 DEF TypeOK
    <3>2. ASSUME NEW to \in ItemStates
          PROVE  [item[i] EXCEPT !.state = to, !.batch = 0] \in ItemRows
      <4>1. 0 \in BatchOrNone
        BY BoundsAssumption DEF BatchOrNone
      <4> QED
        BY <3>1, <3>2, <4>1 DEF ItemRows
    <3>3. i \in S => To(i) \in ItemStates
      BY <1>3 DEF ItemStates
    <3> QED
      BY <1>1c, <3>1, <3>2, <3>3
  <2> QED
    BY <1>1c, <2>1
<1>9. /\ \A i \in S : item'[i].state = To(i) /\ item'[i].batch = 0
      /\ \A i \in Items \ S : item'[i] = item[i]
      /\ \A i \in Items : /\ item'[i].amount = item[i].amount
                          /\ item'[i].reduced = item[i].reduced
                          /\ item'[i].collected = item[i].collected
  BY <1>0, <1>1c, <1>3, ZenonT(60) DEF TypeOK, ItemRows
<1>10. /\ receivable' \in [Receivables -> ReceivableRows]
       /\ \A r \in Receivables : /\ receivable'[r].state = receivable[r].state
                                 /\ receivable'[r].amount = receivable[r].amount
                                 /\ receivable[r].staged # b =>
                                       receivable'[r].staged = receivable[r].staged
  BY <1>0, <1>1d, BoundsAssumption DEF TypeOK, ReceivableRows, Unstaged, BatchOrNone
<1>11. TypeOK' /\ RequestsHoldRows' /\ SupersedeSeesMembers' /\ AllocationsFit'
  <2>1. \A c \in Batches : /\ batch[c].status # "none" => batch'[c].status # "none"
                           /\ \A r \in DOMAIN batch'[c].allocation :
                                 Fits(r, batch'[c].allocation[r])
    BY <1>7 DEF EngineInv, AllocationsFit
  <2>2. \A i \in Items, c \in Batches : item'[i].batch = c => item[i].batch = c
    BY <1>9, BoundsAssumption DEF Batches
  <2> QED
    BY <1>6, <1>7, <1>8, <1>10, <2>1, <2>2, RequestsEndKeepInv
<1>12. \A c \in Batches :
         /\ c # b => (Posted("superseded", <<c>>)' <=> Posted("superseded", <<c>>))
         /\ c = b => Posted("superseded", <<c>>)'
         /\ Closed(c)' <=> Closed(c)
  <2>1. \A c \in Batches :
          /\ c # b => (Posted("superseded", <<c>>)' <=> Posted("superseded", <<c>>))
          /\ c = b => Posted("superseded", <<c>>)'
    <3> DEFINE new == Posting("superseded", <<b>>, 0)
    <3>1. new.event = "superseded" /\ new.key = <<b>>
      BY DEF Posting
    <3>2. ledger' = ledger \cup {new}
      BY <1>1e
    <3> HIDE DEF new
    <3>3. \A c \in Batches : <<c>> = <<b>> <=> c = b
      OBVIOUS
    <3> QED
      BY <3>1, <3>2, <3>3 DEF Posted
  <2>2. \A c \in Batches : Closed(c)' <=> Closed(c)
    BY <1>7 DEF Closed
  <2> QED
    BY <2>1, <2>2
<1>13. ~Live(b)' /\ \A c \in Batches : c # b => (Live(c)' <=> Live(c))
  BY <1>2, <1>7, <1>12 DEF Live
<1>14. UnusedIsUnmarked'
  BY <1>2, <1>7, <1>12 DEF EngineInv, UnusedIsUnmarked
<1>15. \A c \in Batches : DOMAIN batch[c].composition \subseteq Items
                         /\ DOMAIN batch[c].allocation \subseteq Receivables /\ c # 0
  BY <1>0, BoundsAssumption, PartialFunctionsDef DEF TypeOK, BatchRows, Batches
<1>16. \A i \in S : ~Closed(b)
  BY <1>2, <1>3, <1>4 DEF EngineInv, BoundItemsAccountedFor, AccountsFor, Live
<1>17. ClosedKeepsItems'
  <2>1. ASSUME NEW c \in Batches, Closed(c), NEW i \in DOMAIN batch[c].composition
        PROVE  item'[i].batch = c
    <3>1. i \in Items /\ item[i].batch = c
      BY <1>15, <2>1 DEF EngineInv, ClosedKeepsItems
    <3>2. i \notin S
      BY <1>4, <1>16, <2>1, <3>1
    <3> QED
      BY <1>9, <3>1, <3>2
  <2> QED
    BY <1>7, <1>12, <2>1 DEF ClosedKeepsItems
<1>18. AmountsAddUp'
  BY <1>9 DEF EngineInv, AmountsAddUp
<1>19. BoundItemsAccountedFor'
  <2>1. \A i \in Items \ S, c \in Batches :
          c # b /\ AccountsFor(c, i) => AccountsFor(c, i)'
    BY <1>7, <1>9, <1>12, <1>13 DEF AccountsFor
  <2> QED
    BY <1>3, <1>5, <1>9, <1>15, <2>1 DEF EngineInv, BoundItemsAccountedFor
<1>20. LiveBatchIsWhole'
  <2>1. ASSUME NEW c \in Batches, c # b, Live(c)
        PROVE  MembersReady(c)' /\ \A r \in DOMAIN batch'[c].allocation : receivable'[r].staged = c
    BY <1>4, <1>7, <1>9, <1>10, <1>15, <2>1 DEF EngineInv, LiveBatchIsWhole, MembersReady
  <2> QED
    BY <1>13, <2>1 DEF LiveBatchIsWhole
<1> QED
  BY <1>11, <1>14, <1>17, <1>18, <1>19, <1>20 DEF EngineInv

\* A close settles the ready members of its batch and consumes exactly the
\* receivables the batch has staged.
LEMMA CloseKeepsInv ==
    ASSUME EngineInv, RequestsEnd, NEW b \in Batches,
           NEW closure \in {"remitted", "zero_net"}, NEW remitted,
           CloseBatch(b, closure, remitted),
           NEW comp, comp = batch[b].composition,
           NEW alloc, alloc = batch[b].allocation
    PROVE  EngineInv'
<1>0. TypeOK
  BY DEF EngineInv
<1>1. /\ batch[b].status = "ready"
      /\ MembersReady(b)
      /\ \A r \in DOMAIN alloc : Consumable(r, b, alloc[r])
  BY DEF CloseBatch
<1>1a. batch' = [batch EXCEPT ![b] =
          [batch[b] EXCEPT !.status = "settled", !.closure = closure]]
  BY DEF CloseBatch
<1>1b. item' = [i \in Items |-> IF i \in DOMAIN comp
          THEN [item[i] EXCEPT !.state = "settled"] ELSE item[i]]
  BY DEF CloseBatch
<1>1c. receivable' = [r \in Receivables |-> IF r \in DOMAIN alloc
          THEN [receivable[r] EXCEPT !.state = Consumed(r, alloc[r]),
                                     !.recovered = alloc[r].at + alloc[r].amount,
                                     !.staged = 0]
          ELSE receivable[r]]
  BY DEF CloseBatch
<1>1d. ledger' = ledger \cup {Posting("completed", <<b>>, 0)}
          \cup {Posting("recovered", <<r, b>>, alloc[r].amount) : r \in DOMAIN alloc}
  BY DEF CloseBatch
<1>2. \A c \in Batches : DOMAIN batch[c].composition \subseteq Items
                        /\ DOMAIN batch[c].allocation \subseteq Receivables /\ c # 0
  BY <1>0, BoundsAssumption, PartialFunctionsDef DEF TypeOK, BatchRows, Batches
<1>3. DOMAIN comp \subseteq Items /\ DOMAIN alloc \subseteq Receivables /\ b # 0
  BY <1>2
<1>4. \A i \in DOMAIN comp : item[i].batch = b /\ item[i].state = "ready"
  BY <1>1 DEF MembersReady
<1>5. \A r \in DOMAIN alloc : receivable[r].staged = b
  BY <1>1 DEF Consumable
<1>6. /\ batch' \in [Batches -> BatchRows]
      /\ batch'[b].status = "settled" /\ batch'[b].closure = closure
      /\ \A c \in Batches : /\ batch'[c].composition = batch[c].composition
                            /\ batch'[c].allocation = batch[c].allocation
                            /\ c # b => batch'[c] = batch[c]
  <2> DEFINE row == [batch[b] EXCEPT !.status = "settled", !.closure = closure]
  <2>1. batch \in [Batches -> BatchRows] /\ batch[b] \in BatchRows
    BY <1>0 DEF TypeOK
  <2>2. /\ row \in BatchRows
        /\ row.status = "settled" /\ row.closure = closure
        /\ row.composition = batch[b].composition
        /\ row.allocation = batch[b].allocation
    BY <2>1 DEF BatchRows, BatchStates
  <2>3. batch' = [batch EXCEPT ![b] = row]
    BY <1>1a
  <2> HIDE DEF row
  <2> QED
    BY <2>1, <2>2, <2>3
<1>7. item' \in [Items -> ItemRows]
  <2>1. ASSUME NEW i \in Items PROVE item'[i] \in ItemRows
    <3>1. item[i] \in ItemRows
      BY <1>0 DEF TypeOK
    <3>2. [item[i] EXCEPT !.state = "settled"] \in ItemRows
      BY <3>1 DEF ItemRows, ItemStates
    <3> QED
      BY <1>1b, <3>1, <3>2
  <2> QED
    BY <1>1b, <2>1
<1>8. /\ \A i \in DOMAIN comp : item'[i].state = "settled" /\ item'[i].batch = b
      /\ \A i \in Items \ DOMAIN comp : item'[i] = item[i]
      /\ \A i \in Items : /\ item'[i].amount = item[i].amount
                          /\ item'[i].reduced = item[i].reduced
                          /\ item'[i].collected = item[i].collected
                          /\ item'[i].batch = item[i].batch
  BY <1>0, <1>1b, <1>3, <1>4 DEF TypeOK, ItemRows
<1>9. \A r \in DOMAIN alloc : /\ Consumed(r, alloc[r]) \in ReceivableStates
                             /\ alloc[r].at + alloc[r].amount \in Amounts
  <2>1. ASSUME NEW r \in DOMAIN alloc
        PROVE  /\ Consumed(r, alloc[r]) \in ReceivableStates
               /\ alloc[r].at + alloc[r].amount \in Amounts
    <3>1. alloc[r].at + alloc[r].amount <= receivable[r].amount
      BY <2>1 DEF EngineInv, AllocationsFit, Fits
    <3>2. alloc[r] \in Allocations
      BY <1>0, <2>1, PartialFunctionsDef DEF TypeOK, BatchRows
    <3>3. receivable[r].amount \in Amounts
      BY <1>0, <1>3, <2>1 DEF TypeOK, ReceivableRows
    <3> QED
      BY <3>1, <3>2, <3>3, BoundsAssumption
         DEF Consumed, ReceivableStates, Allocations, Amounts
  <2> QED
    BY <2>1
<1>10. /\ receivable' \in [Receivables -> ReceivableRows]
       /\ \A r \in Receivables : /\ receivable'[r].amount = receivable[r].amount
                                 /\ receivable[r].state # "none" =>
                                       receivable'[r].state # "none"
                                 /\ receivable[r].staged # b =>
                                       receivable'[r] = receivable[r]
  <2>1. 0 \in BatchOrNone
    BY BoundsAssumption DEF BatchOrNone
  <2>2. ASSUME NEW r \in Receivables
        PROVE  /\ receivable'[r] \in ReceivableRows
               /\ receivable'[r].amount = receivable[r].amount
               /\ receivable[r].state # "none" => receivable'[r].state # "none"
    <3>1. receivable[r] \in ReceivableRows
      BY <1>0 DEF TypeOK
    <3>2. CASE r \notin DOMAIN alloc
      BY <1>1c, <3>1, <3>2
    <3>3. CASE r \in DOMAIN alloc
      <4>1. PICK s, n : s = Consumed(r, alloc[r]) /\ n = alloc[r].at + alloc[r].amount
        OBVIOUS
      <4>2. s \in ReceivableStates /\ n \in Amounts /\ s # "none"
        BY <1>9, <3>3, <4>1 DEF ReceivableStates
      <4>3. receivable'[r] = [receivable[r] EXCEPT !.state = s, !.recovered = n, !.staged = 0]
        BY <1>1c, <3>3, <4>1
      <4> QED
        BY <2>1, <3>1, <4>2, <4>3 DEF ReceivableRows
    <3> QED
      BY <3>2, <3>3
  <2>3. \A r \in Receivables : receivable[r].staged # b => receivable'[r] = receivable[r]
    BY <1>1c, <1>5
  <2> QED
    BY <1>1c, <2>2, <2>3
<1>11. TypeOK' /\ RequestsHoldRows' /\ SupersedeSeesMembers' /\ AllocationsFit'
  <2>1. \A c \in Batches : /\ batch[c].status # "none" => batch'[c].status # "none"
                           /\ \A r \in DOMAIN batch'[c].allocation :
                                 Fits(r, batch'[c].allocation[r])
    BY <1>6 DEF EngineInv, AllocationsFit
  <2> QED
    BY <1>6, <1>7, <1>8, <1>10, <2>1, RequestsEndKeepInv
<1>12. \A c \in Batches : Posted("superseded", <<c>>)' <=> Posted("superseded", <<c>>)
  <2>1. \A p \in ledger' : p.event = "superseded" => p \in ledger
    BY <1>1d DEF Posting
  <2>2. ledger \subseteq ledger'
    BY <1>1d
  <2> QED
    BY <2>1, <2>2 DEF Posted
<1>13. /\ Closed(b)' /\ ~Live(b)'
       /\ \A c \in Batches : c # b => /\ Closed(c)' <=> Closed(c)
                                      /\ Live(c)' <=> Live(c)
  BY <1>6, <1>12 DEF Closed, Live
<1>14. UnusedIsUnmarked'
  BY <1>6, <1>12, <1>13 DEF EngineInv, UnusedIsUnmarked
<1>15. ClosedKeepsItems'
  BY <1>2, <1>4, <1>6, <1>8, <1>13 DEF EngineInv, ClosedKeepsItems
<1>16. AmountsAddUp'
  BY <1>8 DEF EngineInv, AmountsAddUp
<1>17. BoundItemsAccountedFor'
  <2>1. \A i \in DOMAIN comp : AccountsFor(b, i)'
    <3>1. \A i \in DOMAIN comp : batch[b].composition[i] = item[i].amount
      BY <1>3, <1>4 DEF EngineInv, BoundItemsAccountedFor, AccountsFor
    <3> QED
      BY <1>3, <1>6, <1>8, <1>13, <3>1 DEF AccountsFor
  <2>2. \A i \in Items \ DOMAIN comp : item[i].batch # b
    BY DEF EngineInv, BoundItemsAccountedFor, AccountsFor
  <2>3. \A i \in Items \ DOMAIN comp, c \in Batches :
          c # b /\ AccountsFor(c, i) => AccountsFor(c, i)'
    BY <1>6, <1>8, <1>13 DEF AccountsFor
  <2> QED
    BY <1>3, <1>4, <1>8, <2>1, <2>2, <2>3 DEF EngineInv, BoundItemsAccountedFor
<1>18. LiveBatchIsWhole'
  <2>1. ASSUME NEW c \in Batches, c # b, Live(c)
        PROVE  MembersReady(c)' /\ \A r \in DOMAIN batch'[c].allocation : receivable'[r].staged = c
    BY <1>2, <1>4, <1>6, <1>8, <1>10, <2>1 DEF EngineInv, LiveBatchIsWhole, MembersReady
  <2> QED
    BY <1>13, <2>1 DEF LiveBatchIsWhole
<1> QED
  BY <1>11, <1>14, <1>15, <1>16, <1>17, <1>18 DEF EngineInv

\* Every step of the engine keeps the invariant.
LEMMA NextKeepsInv == EngineInv /\ [Next]_vars => EngineInv'
<1> SUFFICES ASSUME EngineInv, [Next]_vars PROVE EngineInv'
  OBVIOUS
<1>0. TypeOK
  BY DEF EngineInv
<1>1. CASE UNCHANGED vars
  <2>1. UNCHANGED rows /\ UNCHANGED locals
    BY <1>1 DEF vars, rows, locals
  <2>2. TypeOK' /\ RequestsHoldRows' /\ SupersedeSeesMembers'
    BY <2>1 DEF rows, locals, EngineInv, TypeOK, Assembling, RequestsHoldRows,
                SupersedeSeesMembers
  <2>3. \A a \in Actors : \A r \in DOMAIN plan'[a] : Fits(r, plan'[a][r])
    BY <2>1 DEF locals, EngineInv, AllocationsFit
  <2> QED
    BY <2>1, <2>2, <2>3, RowsUnchangedKeepInv
<1>2. ASSUME NEW i \in Items, EvaluateEligible(i) PROVE EngineInv'
  BY <1>2, UnboundItemStepsKeepInv
<1>3. ASSUME NEW i \in Items, NEW amount \in 1..MaxAmount, RecordRefund(i, amount)
      PROVE  EngineInv'
  BY <1>3, UnboundItemStepsKeepInv, ClawBackKeepsInv DEF RecordRefund
<1>4. ASSUME NEW b \in Batches, NEW c \in Batches, LinkSuccessor(b, c) PROVE EngineInv'
  BY <1>4, StatusWritesKeepInv
<1>5. ASSUME NEW a \in Actors, Assembly(a) PROVE EngineInv'
  BY <1>5, AssembleReadsKeepInv, AssembleCommitKeepsInv DEF Assembly
<1>6. ASSUME NEW a \in Actors, FailureLane(a) PROVE EngineInv'
  <2>1. ASSUME NEW b \in Batches, NEW label \in {"mark_failed", "retry", "hold"},
               LoadForStatusWrite(a, b, label)
        PROVE  EngineInv'
    <3>1. label \in OnABatch \ {"supersede_commit"}
      BY DEF OnABatch
    <3> QED
      BY <2>1, <3>1, LoadKeepsInv DEF LoadForStatusWrite
  <2> QED
    BY <1>6, <2>1, StatusWritesKeepInv DEF FailureLane, MarkFailed, Retry, HoldBatch
<1>7. ASSUME NEW a \in Actors, Supersession(a) PROVE EngineInv'
  <2>1. ASSUME NEW b \in Batches, Supersede(a, b) PROVE EngineInv'
    <3>1. "supersede_remitted" \in OnABatch \ {"supersede_commit"}
      BY DEF OnABatch
    <3> QED
      BY <2>1, <3>1, LoadKeepsInv DEF Supersede
  <2>2. ASSUME NEW affected \in SUBSET Items, NEW disposition \in SupersedeDispositions,
               SupersedeCommit(a, affected, disposition)
        PROVE  EngineInv'
    BY <2>2, SupersedeCommitKeepsInv
  <2> QED
    BY <1>7, <2>1, <2>2, SupersedeReadsKeepInv DEF Supersession
<1>8. ASSUME NEW a \in Actors, Closing(a) PROVE EngineInv'
  <2>1. ASSUME NEW b \in Batches, NEW label \in {"settle", "settle_zero_net"},
               LoadForClose(a, b, label)
        PROVE  EngineInv'
    <3>1. label \in OnABatch \ {"supersede_commit"}
      BY DEF OnABatch
    <3> QED
      BY <2>1, <3>1, LoadKeepsInv DEF LoadForClose
  <2>2. CASE SettleCommit(a) \/ SettleZeroNetCommit(a)
    <3>1. target[a] \in Batches
      BY <2>2 DEF EngineInv, RequestsHoldRows, SettleCommit, SettleZeroNetCommit, OnABatch
    <3>2. RequestsEnd
      BY <1>0, <2>2, FinishEnds DEF SettleCommit, SettleZeroNetCommit
    <3>3. \E closure \in {"remitted", "zero_net"} :
             \E remitted : CloseBatch(target[a], closure, remitted)
      BY <2>2 DEF SettleCommit, SettleZeroNetCommit
    <3> QED
      BY <3>1, <3>2, <3>3, CloseKeepsInv
  <2> QED
    BY <1>8, <2>1, <2>2 DEF Closing, MarkSettled, MarkSettledZeroNet
<1> QED
  BY <1>1, <1>2, <1>3, <1>4, <1>5, <1>6, <1>7, <1>8, GiveUpKeepsInv DEF Next

-----------------------------------------------------------------------------
\* The invariant holds in every reachable state of the engine.
THEOREM EngineInvariant == Spec => []EngineInv
<1> QED
  BY InitEstablishesInv, NextKeepsInv, PTL DEF Spec

\* Type correctness: the tables and the requests in flight keep their shape,
\* with every amount within the amount of one item.
THEOREM TypeCorrect == Spec => []TypeOK
<1>1. EngineInv => TypeOK
  BY DEF EngineInv
<1> QED
  BY <1>1, EngineInvariant, PTL

\* The anti-double-pay law of markSettled and supersede: two closed batches
\* share no item, because a closed batch keeps its items and an item names one
\* batch.
THEOREM NoDoublePay == Spec => []PaidOnce
<1>1. EngineInv => PaidOnce
  BY DEF EngineInv, ClosedKeepsItems, PaidOnce
<1> QED
  BY <1>1, EngineInvariant, PTL

\* The members of a batch, as the code's guards see them, and the batch agree
\* in every state: no ready item is stranded outside a live batch.
THEOREM ItemsAccountedFor == Spec => []BoundItemsAccountedFor
<1>1. EngineInv => BoundItemsAccountedFor
  BY DEF EngineInv
<1> QED
  BY <1>1, EngineInvariant, PTL

\* What a closed batch paid for an item is what was collected less what was
\* refunded before the close.
THEOREM PaysWhatRemained == Spec => []PaidWhatRemained
<1>1. EngineInv => PaidWhatRemained
  <2>1. ASSUME EngineInv, NEW b \in Batches, Closed(b),
               NEW i \in DOMAIN batch[b].composition
        PROVE  batch[b].composition[i] + item[i].reduced = item[i].collected
    <3>1. i \in Items
      BY <2>1, PartialFunctionsDef DEF EngineInv, TypeOK, BatchRows
    <3>2. item[i].batch = b
      BY <2>1 DEF EngineInv, ClosedKeepsItems
    <3>3. batch[b].composition[i] = item[i].amount
      BY <2>1, <3>1, <3>2 DEF EngineInv, BoundItemsAccountedFor, AccountsFor
    <3> QED
      BY <2>1, <3>1, <3>3 DEF EngineInv, AmountsAddUp
  <2> QED
    BY <2>1 DEF PaidWhatRemained
<1> QED
  BY <1>1, EngineInvariant, PTL

\* A batch that is neither closed nor released still holds every item and
\* every receivable it froze.
THEOREM LiveBatchesAreWhole == Spec => []LiveBatchIsWhole
<1>1. EngineInv => LiveBatchIsWhole
  BY DEF EngineInv
<1> QED
  BY <1>1, EngineInvariant, PTL

-----------------------------------------------------------------------------
(***************************************************************************)
(* What a step does to the rows, whatever request takes it: the steps of   *)
(* Next sorted by their effect.                                            *)
(***************************************************************************)
OthersStay(b) == \A c \in Batches : c # b => batch'[c] = batch[c]

\* An item that belongs to no batch moves on or shrinks.
UnboundItemStep(i) ==
    /\ item[i].batch = 0 /\ item'[i].batch = 0 /\ item'[i].clawed = item[i].clawed
    /\ item[i].state \in {"pending", "eligible", "held"}
    /\ item'[i].state = item[i].state \/ ItemMay(item[i].state, item'[i].state)
    /\ item'[i].state \notin {"settled", "reversed"}
    /\ \A j \in Items : j # i => item'[j] = item[j]
    /\ UNCHANGED <<batch, receivable, remittance, ledger>>

\* A refund of money that has left becomes a receivable.
ClawBackStep(i, amount, r) ==
    /\ item[i].state \in {"settled", "reversed"}
    /\ item[i].clawed + item[i].reduced + amount <= item[i].collected
    /\ item'[i].batch = item[i].batch /\ item'[i].amount = item[i].amount
    /\ item'[i].clawed = item[i].clawed + amount
    /\ item'[i].state = IF item[i].state = "settled" /\ FullyClawed(i, amount)
                        THEN "reversed" ELSE item[i].state
    /\ \A j \in Items : j # i => item'[j] = item[j]
    /\ receivable[r].state = "none"
    /\ receivable'[r].state = "open" /\ receivable'[r].amount = amount
    /\ receivable'[r].recovered = 0 /\ receivable'[r].staged = 0
    /\ \A q \in Receivables : q # r => receivable'[q] = receivable[q]
    /\ ledger' = ledger \cup {Posting("accrued", <<r>>, amount)}
    /\ UNCHANGED <<batch, remittance>>

\* The status of a batch, or the link to its successor, is written by id.
StatusStep(b) ==
    /\ batch[b].status # "none" /\ batch'[b].status # "none"
    /\ batch'[b].composition = batch[b].composition
    /\ batch'[b].allocation = batch[b].allocation
    /\ batch'[b].closure = batch[b].closure
    /\ OthersStay(b)
    /\ UNCHANGED <<item, receivable, remittance, ledger>>

AssemblyStep(a, b) ==
    /\ pc[a] = "assemble_commit"
    /\ batch[b].status = "none" /\ batch'[b].status = "ready" /\ batch'[b].closure = "none"
    /\ batch'[b].composition = seen[a] /\ batch'[b].allocation = plan[a]
    /\ OthersStay(b)
    /\ \A i \in Items :
          IF i \in DOMAIN seen[a]
          THEN /\ item[i].state = "eligible" /\ item[i].batch = 0
               /\ item'[i].state = "ready" /\ item'[i].batch = b
               /\ item'[i].amount = item[i].amount /\ item'[i].clawed = item[i].clawed
          ELSE item'[i] = item[i]
    /\ \A r \in Receivables :
          IF r \in DOMAIN plan[a]
          THEN /\ Stageable(r, plan[a][r].at)
               /\ receivable'[r].state = receivable[r].state
               /\ receivable'[r].amount = receivable[r].amount
               /\ receivable'[r].recovered = receivable[r].recovered
               /\ receivable'[r].staged = b
          ELSE receivable'[r] = receivable[r]
    /\ ledger' = ledger \cup {Posting("started", <<b>>, 0)}
    /\ UNCHANGED remittance

SupersessionStep(b) ==
    /\ batch[b].status # "none" /\ ~Posted("superseded", <<b>>)
    /\ batch'[b].status # "none"
    /\ batch'[b].composition = batch[b].composition
    /\ batch'[b].allocation = batch[b].allocation
    /\ batch'[b].closure = batch[b].closure
    /\ OthersStay(b)
    /\ \A i \in Items :
          IF item[i].batch = b
          THEN /\ ItemMay(item[i].state, item'[i].state) /\ item'[i].batch = 0
               /\ item'[i].state \in SupersedeDispositions
               /\ item'[i].clawed = item[i].clawed
          ELSE item'[i] = item[i]
    /\ \A r \in Receivables :
          IF receivable[r].staged = b
          THEN /\ receivable'[r].state = receivable[r].state
               /\ receivable'[r].amount = receivable[r].amount
               /\ receivable'[r].recovered = receivable[r].recovered
               /\ receivable'[r].staged = 0
          ELSE receivable'[r] = receivable[r]
    /\ ledger' = ledger \cup {Posting("superseded", <<b>>, 0)}
    /\ UNCHANGED remittance

CloseStep(b) ==
    /\ batch[b].status = "ready" /\ MembersReady(b) /\ ~Posted("completed", <<b>>)
    /\ batch'[b].status = "settled"
    /\ batch'[b].composition = batch[b].composition
    /\ batch'[b].allocation = batch[b].allocation
    /\ OthersStay(b)
    /\ \A i \in Items :
          IF i \in DOMAIN batch[b].composition
          THEN /\ item'[i].state = "settled" /\ item'[i].batch = item[i].batch
               /\ item'[i].amount = item[i].amount /\ item'[i].clawed = item[i].clawed
          ELSE item'[i] = item[i]
    /\ \A r \in Receivables :
          IF r \in DOMAIN batch[b].allocation
          THEN /\ Consumable(r, b, batch[b].allocation[r])
               /\ receivable'[r].state = Consumed(r, batch[b].allocation[r])
               /\ receivable'[r].amount = receivable[r].amount
               /\ receivable'[r].recovered =
                     batch[b].allocation[r].at + batch[b].allocation[r].amount
               /\ receivable'[r].staged = 0
          ELSE receivable'[r] = receivable[r]
    /\ ledger' = ledger \cup {Posting("completed", <<b>>, 0)}
          \cup {Posting("recovered", <<r, b>>, batch[b].allocation[r].amount) :
                  r \in DOMAIN batch[b].allocation}
    /\ \/ /\ batch'[b].closure = "remitted" /\ ~Remitted(b)
          /\ remittance' = remittance \cup {[batch |-> b, amount |-> Net(b)]}
       \/ batch'[b].closure = "zero_net" /\ remittance' = remittance

RowStep ==
    \/ UNCHANGED rows
    \/ \E i \in Items : UnboundItemStep(i)
    \/ \E i \in Items, amount \in 1..MaxAmount, r \in Receivables : ClawBackStep(i, amount, r)
    \/ \E b \in Batches : StatusStep(b) \/ SupersessionStep(b) \/ CloseStep(b)
    \/ \E a \in Actors, b \in Batches : AssemblyStep(a, b)

\* The eligibility sweep moves one unbound item; a refund reduces, reverses or
\* claws back one.
LEMMA RefundEffects ==
    ASSUME EngineInv, NEW i \in Items
    PROVE  /\ EvaluateEligible(i) => RowStep
           /\ \A amount \in 1..MaxAmount : RecordRefund(i, amount) => RowStep
<1>1. item \in [Items -> ItemRows] /\ receivable \in [Receivables -> ReceivableRows]
  BY DEF EngineInv, TypeOK
<1>2. ASSUME EvaluateEligible(i) PROVE RowStep
  <2>1. UnboundItemStep(i)
    BY <1>1, <1>2 DEF EvaluateEligible, UnboundItemStep, ItemRows, ItemMay, ItemTransitions
  <2> QED
    BY <2>1 DEF RowStep
<1>3. ASSUME NEW amount \in 1..MaxAmount, RecordRefund(i, amount), ReduceItem(i, amount)
      PROVE  RowStep
  <2>1. UnboundItemStep(i)
    BY <1>1, <1>3 DEF ReduceItem, Shrunk, UnboundItemStep, ItemRows
  <2> QED
    BY <2>1 DEF RowStep
<1>4. ASSUME NEW amount \in 1..MaxAmount, RecordRefund(i, amount), ClawBack(i, amount)
      PROVE  RowStep
  <2>1. PICK r \in Receivables :
           /\ NextReceivable(r)
           /\ receivable' = [receivable EXCEPT ![r] =
                 [state |-> "open", amount |-> amount, recovered |-> 0, staged |-> 0]]
           /\ ledger' = ledger \cup {Posting("accrued", <<r>>, amount)}
    BY <1>4 DEF ClawBack
  <2>2. /\ item[i].state \in {"settled", "reversed"} /\ UNCHANGED <<batch, remittance>>
        /\ item' = [item EXCEPT ![i] = Clawed(i, amount)]
    BY <1>4 DEF ClawBack
  <2>3. /\ Clawed(i, amount).batch = item[i].batch /\ Clawed(i, amount).amount = item[i].amount
        /\ Clawed(i, amount).clawed = item[i].clawed + amount
        /\ Clawed(i, amount).state = IF item[i].state = "settled" /\ FullyClawed(i, amount)
                                     THEN "reversed" ELSE item[i].state
    BY <1>1 DEF Clawed, ItemRows
  <2>4. item[i].clawed + item[i].reduced + amount <= item[i].collected
    <3>1. item[i].clawed \in Nat /\ item[i].reduced \in Nat /\ amount \in Nat
      BY <1>1, BoundsAssumption DEF ItemRows, Amounts
    <3>2. item[i].reduced + item[i].clawed + amount <= item[i].collected
      BY <1>4 DEF RecordRefund, Refunded
    <3> QED
      BY <3>1, <3>2
  <2>5. receivable[r].state = "none"
    BY <2>1 DEF NextReceivable
  <2>6. ClawBackStep(i, amount, r)
    <3>1. /\ item'[i] = Clawed(i, amount) /\ \A j \in Items : j # i => item'[j] = item[j]
      BY <1>1, <2>2
    <3>2. /\ receivable'[r].state = "open" /\ receivable'[r].amount = amount
          /\ receivable'[r].recovered = 0 /\ receivable'[r].staged = 0
          /\ \A q \in Receivables : q # r => receivable'[q] = receivable[q]
      BY <1>1, <2>1
    <3> QED
      BY <2>1, <2>2, <2>3, <2>4, <2>5, <3>1, <3>2 DEF ClawBackStep
  <2> QED
    BY <2>6 DEF RowStep
<1> QED
  BY <1>2, <1>3, <1>4 DEF RecordRefund

\* A status write and a successor link are status steps of one batch.
LEMMA StatusEffects ==
    ASSUME EngineInv
    PROVE  /\ \A a \in Actors : WriteStatus(a) => RowStep
           /\ \A b, c \in Batches : LinkSuccessor(b, c) => RowStep
<1>1. batch \in [Batches -> BatchRows]
  BY DEF EngineInv, TypeOK
<1>2. ASSUME NEW a \in Actors, WriteStatus(a) PROVE RowStep
  <2>1. /\ target[a] \in Batches /\ batch[target[a]].status # "none"
        /\ StatusWrites[pc[a]] # "none"
    BY <1>2 DEF EngineInv, RequestsHoldRows, WriteStatus, StatusWrites, OnABatch
  <2>2. StatusStep(target[a])
    BY <1>1, <1>2, <2>1 DEF WriteStatus, StatusStep, OthersStay, BatchRows
  <2> QED
    BY <2>1, <2>2 DEF RowStep
<1>3. ASSUME NEW b \in Batches, NEW c \in Batches, LinkSuccessor(b, c) PROVE RowStep
  <2>1. StatusStep(b)
    BY <1>1, <1>3 DEF LinkSuccessor, StatusStep, OthersStay, BatchRows
  <2> QED
    BY <2>1 DEF RowStep
<1> QED
  BY <1>2, <1>3

\* The commit of an assembly binds exactly the items it read, all eligible, and
\* stages exactly the receivables it planned.
LEMMA AssemblyEffect ==
    ASSUME EngineInv, NEW a \in Actors, AssembleCommit(a)
    PROVE  RowStep
<1> DEFINE comp == seen[a]
           alloc == plan[a]
<1>0. /\ item \in [Items -> ItemRows] /\ batch \in [Batches -> BatchRows]
      /\ receivable \in [Receivables -> ReceivableRows]
  BY DEF EngineInv, TypeOK
<1>1. PICK b \in Batches :
        /\ NextBatch(b)
        /\ batch' = [batch EXCEPT ![b] =
              [status |-> "ready", composition |-> comp, allocation |-> alloc,
               closure |-> "none", successor |-> 0]]
        /\ item' = [i \in Items |-> IF i \in DOMAIN comp
              THEN [item[i] EXCEPT !.state = "ready", !.batch = b] ELSE item[i]]
        /\ receivable' = [r \in Receivables |-> IF r \in DOMAIN alloc
              THEN [receivable[r] EXCEPT !.staged = b] ELSE receivable[r]]
        /\ ledger' = ledger \cup {Posting("started", <<b>>, 0)}
  BY DEF AssembleCommit
<1>2. /\ \A i \in DOMAIN comp : Bindable(i, comp[i])
      /\ \A r \in DOMAIN alloc : Stageable(r, alloc[r].at)
      /\ pc[a] = "assemble_commit" /\ UNCHANGED remittance
  BY DEF AssembleCommit
<1>3. batch[b].status = "none"
  BY <1>1 DEF NextBatch
<1> HIDE DEF comp, alloc
<1>4. /\ batch'[b].status = "ready" /\ batch'[b].closure = "none"
      /\ batch'[b].composition = comp /\ batch'[b].allocation = alloc
      /\ OthersStay(b)
  BY <1>0, <1>1 DEF OthersStay
<1>5. \A i \in Items :
         IF i \in DOMAIN comp
         THEN /\ item[i].state = "eligible" /\ item[i].batch = 0
              /\ item'[i].state = "ready" /\ item'[i].batch = b
              /\ item'[i].amount = item[i].amount /\ item'[i].clawed = item[i].clawed
         ELSE item'[i] = item[i]
  BY <1>0, <1>1, <1>2 DEF Bindable, ItemRows
<1>6. \A r \in Receivables :
         IF r \in DOMAIN alloc
         THEN /\ Stageable(r, alloc[r].at)
              /\ receivable'[r].state = receivable[r].state
              /\ receivable'[r].amount = receivable[r].amount
              /\ receivable'[r].recovered = receivable[r].recovered
              /\ receivable'[r].staged = b
         ELSE receivable'[r] = receivable[r]
  <2> SUFFICES ASSUME NEW r \in Receivables
               PROVE  IF r \in DOMAIN alloc
                      THEN /\ Stageable(r, alloc[r].at)
                           /\ receivable'[r].state = receivable[r].state
                           /\ receivable'[r].amount = receivable[r].amount
                           /\ receivable'[r].recovered = receivable[r].recovered
                           /\ receivable'[r].staged = b
                      ELSE receivable'[r] = receivable[r]
    OBVIOUS
  <2>1. receivable[r] \in ReceivableRows
    BY <1>0
  <2>2. receivable'[r] = IF r \in DOMAIN alloc
           THEN [receivable[r] EXCEPT !.staged = b] ELSE receivable[r]
    BY <1>1
  <2> QED
    BY <1>2, <2>1, <2>2 DEF ReceivableRows
<1>7. AssemblyStep(a, b)
  BY <1>1, <1>2, <1>3, <1>4, <1>5, <1>6 DEF AssemblyStep, comp, alloc
<1> QED
  BY <1>7 DEF RowStep

\* A supersession releases every item and every receivable its batch holds.
LEMMA SupersessionEffect ==
    ASSUME EngineInv, NEW a \in Actors, NEW affected \in SUBSET Items,
           NEW disposition \in SupersedeDispositions,
           SupersedeCommit(a, affected, disposition)
    PROVE  RowStep
<1> DEFINE b == target[a]
           To(i) == IF i \in affected THEN disposition ELSE "eligible"
<1>0. /\ item \in [Items -> ItemRows] /\ batch \in [Batches -> BatchRows]
      /\ receivable \in [Receivables -> ReceivableRows]
  BY DEF EngineInv, TypeOK
<1>1. pc[a] = "supersede_commit" /\ b \in Batches /\ batch[b].status # "none"
  BY DEF SupersedeCommit, EngineInv, RequestsHoldRows, OnABatch
<1>2. /\ \A i \in DOMAIN seen[a] : Releasable(i, b, seen[a][i], To(i))
      /\ ~Posted("superseded", <<b>>)
      /\ batch' = [batch EXCEPT ![b].status = "superseded"]
      /\ item' = [i \in Items |-> IF i \in DOMAIN seen[a]
              THEN [item[i] EXCEPT !.state = To(i), !.batch = 0] ELSE item[i]]
      /\ receivable' = Unstaged(b)
      /\ ledger' = ledger \cup {Posting("superseded", <<b>>, 0)}
      /\ UNCHANGED remittance
  BY DEF SupersedeCommit
<1>3. \A i \in Items : i \in DOMAIN seen[a] <=> item[i].batch = b
  BY <1>1, <1>2 DEF EngineInv, SupersedeSeesMembers, Releasable
<1>4. \A i \in Items : To(i) \in SupersedeDispositions
  BY DEF SupersedeDispositions
<1> HIDE DEF b, To
<1>5. /\ batch'[b].status # "none" /\ batch'[b].closure = batch[b].closure
      /\ batch'[b].composition = batch[b].composition
      /\ batch'[b].allocation = batch[b].allocation
      /\ OthersStay(b)
  BY <1>0, <1>1, <1>2 DEF OthersStay, BatchRows
<1>6. \A i \in Items :
         IF item[i].batch = b
         THEN /\ ItemMay(item[i].state, item'[i].state) /\ item'[i].batch = 0
              /\ item'[i].state \in SupersedeDispositions
              /\ item'[i].clawed = item[i].clawed
         ELSE item'[i] = item[i]
  BY <1>0, <1>2, <1>3, <1>4 DEF Releasable, ItemRows
<1>7. \A r \in Receivables :
         IF receivable[r].staged = b
         THEN /\ receivable'[r].state = receivable[r].state
              /\ receivable'[r].amount = receivable[r].amount
              /\ receivable'[r].recovered = receivable[r].recovered
              /\ receivable'[r].staged = 0
         ELSE receivable'[r] = receivable[r]
  BY <1>0, <1>2 DEF Unstaged, ReceivableRows
<1>8. SupersessionStep(b)
  BY <1>1, <1>2, <1>5, <1>6, <1>7 DEF SupersessionStep
<1> QED
  BY <1>1, <1>8 DEF RowStep

\* Both closes settle the batch's items and recover its allocations in one commit.
LEMMA CloseEffect ==
    ASSUME EngineInv, NEW a \in Actors, SettleCommit(a) \/ SettleZeroNetCommit(a)
    PROVE  RowStep
<1> DEFINE b == target[a]
           comp == batch[b].composition
           alloc == batch[b].allocation
           closure == IF SettleCommit(a) THEN "remitted" ELSE "zero_net"
           remitted == IF SettleCommit(a) THEN {[batch |-> b, amount |-> Net(b)]} ELSE {}
<1>0. /\ item \in [Items -> ItemRows] /\ batch \in [Batches -> BatchRows]
      /\ receivable \in [Receivables -> ReceivableRows]
  BY DEF EngineInv, TypeOK
<1>1. b \in Batches
  BY DEF EngineInv, RequestsHoldRows, SettleCommit, SettleZeroNetCommit, OnABatch
<1>2. CloseBatch(b, closure, remitted)
  BY DEF SettleCommit, SettleZeroNetCommit
<1>3. \/ /\ closure = "remitted" /\ ~Remitted(b)
         /\ remitted = {[batch |-> b, amount |-> Net(b)]}
      \/ closure = "zero_net" /\ remitted = {}
  BY DEF SettleCommit
<1> HIDE DEF b, closure, remitted
<1>4. /\ batch[b].status = "ready" /\ MembersReady(b) /\ ~Posted("completed", <<b>>)
      /\ \A r \in DOMAIN alloc : Consumable(r, b, alloc[r])
      /\ remittance' = remittance \cup remitted
  BY <1>2 DEF CloseBatch
<1>4a. batch' = [batch EXCEPT ![b] =
          [batch[b] EXCEPT !.status = "settled", !.closure = closure]]
  BY <1>2 DEF CloseBatch
<1>4b. item' = [i \in Items |-> IF i \in DOMAIN comp
          THEN [item[i] EXCEPT !.state = "settled"] ELSE item[i]]
  BY <1>2 DEF CloseBatch
<1>4c. receivable' = [r \in Receivables |->
          IF r \in DOMAIN alloc
          THEN [receivable[r] EXCEPT !.state = Consumed(r, alloc[r]),
                                     !.recovered = alloc[r].at + alloc[r].amount,
                                     !.staged = 0]
          ELSE receivable[r]]
  BY <1>2 DEF CloseBatch
<1>4d. ledger' = ledger \cup {Posting("completed", <<b>>, 0)}
          \cup {Posting("recovered", <<r, b>>, alloc[r].amount) : r \in DOMAIN alloc}
  BY <1>2 DEF CloseBatch
<1>5. /\ batch'[b].status = "settled" /\ batch'[b].closure = closure
      /\ batch'[b].composition = comp /\ batch'[b].allocation = alloc
      /\ OthersStay(b)
  BY <1>0, <1>1, <1>4a DEF OthersStay, BatchRows
<1> HIDE DEF comp, alloc
<1>6. \A i \in Items :
         IF i \in DOMAIN comp
         THEN /\ item'[i].state = "settled" /\ item'[i].batch = item[i].batch
              /\ item'[i].amount = item[i].amount /\ item'[i].clawed = item[i].clawed
         ELSE item'[i] = item[i]
  BY <1>0, <1>4b DEF ItemRows
<1>7. ASSUME NEW r \in Receivables
      PROVE  IF r \in DOMAIN alloc
             THEN /\ Consumable(r, b, alloc[r])
                  /\ receivable'[r].state = Consumed(r, alloc[r])
                  /\ receivable'[r].amount = receivable[r].amount
                  /\ receivable'[r].recovered = alloc[r].at + alloc[r].amount
                  /\ receivable'[r].staged = 0
             ELSE receivable'[r] = receivable[r]
  <2>1. receivable[r] \in ReceivableRows
    BY <1>0
  <2>2. receivable'[r] =
          IF r \in DOMAIN alloc
          THEN [receivable[r] EXCEPT !.state = Consumed(r, alloc[r]),
                                     !.recovered = alloc[r].at + alloc[r].amount,
                                     !.staged = 0]
          ELSE receivable[r]
    BY <1>4c
  <2> QED
    BY <1>4, <2>1, <2>2 DEF ReceivableRows
<1>8. CloseStep(b)
  BY <1>3, <1>4, <1>4d, <1>5, <1>6, <1>7 DEF CloseStep, comp, alloc
<1> QED
  BY <1>1, <1>8 DEF RowStep

\* Every step of the engine is one of these.
LEMMA EveryStep == EngineInv /\ [Next]_vars => RowStep
<1> SUFFICES ASSUME EngineInv, [Next]_vars PROVE RowStep
  OBVIOUS
<1>1. CASE UNCHANGED rows
  BY <1>1 DEF RowStep
<1>2. ASSUME NEW a \in Actors, Assembly(a) \/ FailureLane(a) \/ Supersession(a) \/ Closing(a)
                               \/ GiveUp(a)
      PROVE  RowStep
  <2>1. CASE \/ AssembleRead(a) \/ AssemblePlan(a) \/ SupersedeCheckRemittance(a)
             \/ SupersedeReadItems(a) \/ GiveUp(a)
             \/ \E b \in Batches : \/ MarkFailed(a, b) \/ Retry(a, b) \/ HoldBatch(a, b)
                                   \/ Supersede(a, b) \/ MarkSettled(a, b)
                                   \/ MarkSettledZeroNet(a, b)
    BY <1>1, <2>1
       DEF AssembleRead, AssemblePlan, SupersedeCheckRemittance, SupersedeReadItems, GiveUp,
           MarkFailed, Retry, HoldBatch, LoadForStatusWrite, Supersede, MarkSettled,
           MarkSettledZeroNet, LoadForClose
  <2> QED
    BY <1>2, <2>1, AssemblyEffect, SupersessionEffect, CloseEffect, StatusEffects
       DEF Assembly, FailureLane, Supersession, Closing
<1>3. CASE UNCHANGED vars
  BY <1>1, <1>3 DEF vars, rows
<1> QED
  BY <1>2, <1>3, RefundEffects, StatusEffects DEF Next

-----------------------------------------------------------------------------
(***************************************************************************)
(* How a batch was closed.                                                 *)
(***************************************************************************)
\* A request that is assembling, or has a plan, got it from its own reads.
LEMMA RequestsKeepReads ==
    ASSUME EngineInv, [Next]_vars, NEW c \in Actors
    PROVE  /\ Assembling(c)' => \/ Assembling(c) /\ seen'[c] = seen[c]
                                \/ AssembleRead(c)
           /\ plan'[c] = plan[c] \/ plan'[c] = <<>> \/ AssemblePlan(c)
<1> USE DEF EngineInv, TypeOK, Assembling
<1>1. CASE UNCHANGED locals
  BY <1>1 DEF locals
<1>2. ASSUME NEW a \in Actors, Finish(a)
      PROVE  /\ Assembling(c)' => Assembling(c) /\ seen'[c] = seen[c]
             /\ plan'[c] = plan[c] \/ plan'[c] = <<>>
  BY <1>2, FinishTyped
<1>3. ASSUME NEW a \in Actors, NEW l \in OnABatch, Goto(a, l), UNCHANGED plan,
             \A d \in Actors : d # a => seen'[d] = seen[d]
      PROVE  /\ Assembling(c)' => Assembling(c) /\ seen'[c] = seen[c]
             /\ plan'[c] = plan[c]
  BY <1>3 DEF Goto, OnABatch
<1>4. ASSUME NEW a \in Actors, AssembleRead(a) \/ AssemblePlan(a)
      PROVE  /\ Assembling(c)' => \/ Assembling(c) /\ seen'[c] = seen[c]
                                  \/ AssembleRead(c)
             /\ plan'[c] = plan[c] \/ AssemblePlan(c)
  <2>1. CASE c = a
    BY <1>4, <2>1 DEF AssembleRead, AssemblePlan, Goto
  <2>2. CASE c # a
    BY <1>4, <2>2 DEF AssembleRead, AssemblePlan, Goto
  <2> QED
    BY <2>1, <2>2
<1>5. ASSUME NEW a \in Actors, NEW b \in Batches,
             \/ MarkFailed(a, b) \/ Retry(a, b) \/ HoldBatch(a, b)
             \/ Supersede(a, b) \/ MarkSettled(a, b) \/ MarkSettledZeroNet(a, b)
      PROVE  \E l \in OnABatch : Goto(a, l) /\ UNCHANGED <<plan, seen>>
  BY <1>5
     DEF MarkFailed, Retry, HoldBatch, LoadForStatusWrite, Supersede, MarkSettled,
         MarkSettledZeroNet, LoadForClose, OnABatch
<1>6. ASSUME NEW a \in Actors, SupersedeCheckRemittance(a) \/ SupersedeReadItems(a)
      PROVE  \E l \in OnABatch : /\ Goto(a, l) /\ UNCHANGED plan
                                 /\ \A d \in Actors : d # a => seen'[d] = seen[d]
  BY <1>6 DEF SupersedeCheckRemittance, SupersedeReadItems, OnABatch
<1>7. ASSUME NEW a \in Actors,
             \/ AssembleCommit(a) \/ WriteStatus(a) \/ SettleCommit(a) \/ SettleZeroNetCommit(a)
             \/ GiveUp(a)
             \/ \E affected \in SUBSET Items, disposition \in SupersedeDispositions :
                   SupersedeCommit(a, affected, disposition)
      PROVE  Finish(a)
  BY <1>7 DEF AssembleCommit, WriteStatus, SettleCommit, SettleZeroNetCommit, GiveUp,
              SupersedeCommit
<1>8. ASSUME NEW i \in Items, NEW amount, EvaluateEligible(i) \/ RecordRefund(i, amount)
      PROVE  UNCHANGED locals
  BY <1>8 DEF EvaluateEligible, RecordRefund
<1>9. ASSUME NEW a \in Actors, Assembly(a) \/ FailureLane(a) \/ Supersession(a) \/ Closing(a)
                               \/ GiveUp(a)
      PROVE  /\ Assembling(c)' => \/ Assembling(c) /\ seen'[c] = seen[c]
                                  \/ AssembleRead(c)
             /\ plan'[c] = plan[c] \/ plan'[c] = <<>> \/ AssemblePlan(c)
  <2> HIDE DEF EngineInv, TypeOK, Assembling
  <2>1. CASE Finish(a)
    BY <1>2, <2>1
  <2>2. CASE AssembleRead(a) \/ AssemblePlan(a)
    BY <1>4, <2>2
  <2>3. CASE \E l \in OnABatch : /\ Goto(a, l) /\ UNCHANGED plan
                                 /\ \A d \in Actors : d # a => seen'[d] = seen[d]
    BY <1>3, <2>3
  <2> QED
    BY <1>5, <1>6, <1>7, <1>9, <2>1, <2>2, <2>3
       DEF Assembly, FailureLane, Supersession, Closing
<1>10. CASE \E b, d \in Batches : LinkSuccessor(b, d)
  BY <1>1, <1>10 DEF LinkSuccessor
<1>11. CASE UNCHANGED vars
  BY <1>1, <1>11 DEF vars, locals
<1> QED
  BY <1>1, <1>8, <1>9, <1>10, <1>11 DEF Next

\* Every batch has an item.
LEMMA NoEmptyBatchKept == EngineInv /\ NoEmptyBatch /\ [Next]_vars => NoEmptyBatch'
<1> SUFFICES ASSUME EngineInv, NoEmptyBatch, [Next]_vars PROVE NoEmptyBatch'
  OBVIOUS
<1>1. RowStep
  BY EveryStep
<1>2. ASSUME NEW c \in Batches, batch'[c].status # "none"
      PROVE  DOMAIN batch'[c].composition # {}
  <2>1. CASE UNCHANGED batch
    BY <1>2, <2>1 DEF NoEmptyBatch
  <2>2. ASSUME NEW b \in Batches, StatusStep(b) \/ SupersessionStep(b) \/ CloseStep(b)
        PROVE  DOMAIN batch'[c].composition # {}
    BY <1>2, <2>2 DEF NoEmptyBatch, StatusStep, SupersessionStep, CloseStep, OthersStay
  <2>3. ASSUME NEW a \in Actors, NEW b \in Batches, AssemblyStep(a, b)
        PROVE  DOMAIN batch'[c].composition # {}
    BY <1>2, <2>3 DEF NoEmptyBatch, AssemblyStep, OthersStay, Assembling
  <2> QED
    BY <1>1, <2>1, <2>2, <2>3 DEF RowStep, UnboundItemStep, ClawBackStep, rows
<1>3. ASSUME NEW c \in Actors, Assembling(c)' PROVE DOMAIN seen'[c] # {}
  <2>1. CASE AssembleRead(c)
    <3>1. seen'[c] = [i \in EligibleItems |-> item[i].amount] /\ EligibleItems # {}
      BY <2>1 DEF AssembleRead, EngineInv, TypeOK
    <3> QED
      BY <3>1
  <2> QED
    BY <1>3, <2>1, RequestsKeepReads DEF NoEmptyBatch
<1> QED
  BY <1>2, <1>3 DEF NoEmptyBatch

\* What is posted after one more posting.
LEMMA PostedAfter ==
    ASSUME NEW e, NEW k, NEW n, ledger' = ledger \cup {Posting(e, k, n)}, NEW f, NEW l
    PROVE  Posted(f, l)' <=> Posted(f, l) \/ (f = e /\ l = k)
<1>1. Posting(e, k, n).event = e /\ Posting(e, k, n).key = k
  BY DEF Posting
<1> QED
  BY <1>1 DEF Posted

\* A close posts its completion and its recoveries.
LEMMA PostedAfterClose ==
    ASSUME NEW b, CloseStep(b), NEW f, f # "recovered", NEW l
    PROVE  Posted(f, l)' <=> Posted(f, l) \/ (f = "completed" /\ l = <<b>>)
<1> DEFINE done == Posting("completed", <<b>>, 0)
           taken == {Posting("recovered", <<r, b>>, batch[b].allocation[r].amount) :
                       r \in DOMAIN batch[b].allocation}
<1>1. ledger' = (ledger \cup {done}) \cup taken
  BY DEF CloseStep
<1>2. done.event = "completed" /\ done.key = <<b>>
  BY DEF Posting
<1>3. \A p \in taken : p.event = "recovered"
  BY DEF Posting
<1> HIDE DEF done, taken
<1> QED
  BY <1>1, <1>2, <1>3 DEF Posted

\* A supersession finds a batch that is not closed, a close one that is not
\* released.
LEMMA OneWayOnly ==
    ASSUME EngineInv, NoEmptyBatch, NEW b \in Batches
    PROVE  /\ SupersessionStep(b) => ~Closed(b)
           /\ CloseStep(b) => ~Posted("superseded", <<b>>)
<1>0. DOMAIN batch[b].composition \subseteq Items
  BY PartialFunctionsDef DEF EngineInv, TypeOK, BatchRows
<1>1. ASSUME SupersessionStep(b), Closed(b) PROVE FALSE
  <2>1. PICK i \in DOMAIN batch[b].composition : TRUE
    BY <1>1 DEF SupersessionStep, NoEmptyBatch
  <2>2. i \in Items /\ item[i].batch = b
    BY <1>0, <1>1, <2>1 DEF EngineInv, ClosedKeepsItems
  <2>3. item[i].state \in {"settled", "reversed"}
    BY <1>1, <2>2 DEF EngineInv, BoundItemsAccountedFor, AccountsFor, Live
  <2>4. ItemMay(item[i].state, item'[i].state) /\ item'[i].state \in SupersedeDispositions
    BY <1>1, <2>2 DEF SupersessionStep
  <2> QED
    BY <2>3, <2>4 DEF ItemMay, ItemTransitions, SupersedeDispositions
<1>2. ASSUME CloseStep(b) PROVE ~Posted("superseded", <<b>>)
  <2>1. PICK i \in DOMAIN batch[b].composition : TRUE
    BY <1>2 DEF CloseStep, NoEmptyBatch
  <2>2. i \in Items /\ item[i].batch = b /\ item[i].state = "ready"
    BY <1>0, <1>2, <2>1 DEF CloseStep, MembersReady
  <2> QED
    BY <2>2 DEF EngineInv, BoundItemsAccountedFor, AccountsFor, Live
<1> QED
  BY <1>1, <1>2

ClosesInv == NoEmptyBatch /\ ClosedOneWay /\ RemittancesAreCloses

\* What the markers say of one batch.
MarkersAgree(b) ==
    /\ ~(Posted("completed", <<b>>) /\ Posted("superseded", <<b>>))
    /\ Closed(b) <=> Posted("completed", <<b>>)
    /\ batch[b].closure = "remitted" <=> \E m \in remittance : m.batch = b /\ m.amount = Net(b)
    /\ Posted("started", <<b>>) <=> batch[b].status # "none"

\* A batch whose row keeps its closure and its frozen lines, in a step that
\* posts none of its markers and remits nothing for it.
LEMMA MarkersStay ==
    ASSUME NEW b \in Batches, MarkersAgree(b),
           batch'[b].closure = batch[b].closure,
           batch'[b].composition = batch[b].composition,
           batch'[b].allocation = batch[b].allocation,
           batch'[b].status # "none" <=> batch[b].status # "none",
           Posted("completed", <<b>>)' <=> Posted("completed", <<b>>),
           Posted("superseded", <<b>>)' <=> Posted("superseded", <<b>>),
           Posted("started", <<b>>)' <=> Posted("started", <<b>>),
           \A m : m.batch = b => (m \in remittance' <=> m \in remittance)
    PROVE  MarkersAgree(b)'
<1>1. Net(b)' = Net(b)
  BY DEF Net
<1>2. (Closed(b)' <=> Closed(b)) /\ (batch'[b].closure = "remitted" <=> batch[b].closure = "remitted")
  BY DEF Closed
<1>3. (\E m \in remittance' : m.batch = b /\ m.amount = Net(b)') <=>
         \E m \in remittance : m.batch = b /\ m.amount = Net(b)
  BY <1>1
<1> QED
  BY <1>2, <1>3 DEF MarkersAgree

\* The markers and the rows agree after every step.
LEMMA ClosesKept == EngineInv /\ ClosesInv /\ [Next]_vars => ClosesInv'
<1> SUFFICES ASSUME EngineInv, ClosesInv, [Next]_vars PROVE ClosesInv'
  OBVIOUS
<1>0. RowStep /\ NoEmptyBatch /\ NoEmptyBatch' /\ RemittancesAreCloses
  BY EveryStep, NoEmptyBatchKept DEF ClosesInv
<1>1. \A c \in Batches : MarkersAgree(c)
  BY DEF ClosesInv, ClosedOneWay, MarkersAgree
<1> SUFFICES (\A c \in Batches : MarkersAgree(c)') /\ RemittancesAreCloses'
  BY <1>0 DEF ClosesInv, ClosedOneWay, MarkersAgree
<1>2. \A b, c \in Batches : <<b>> = <<c>> => b = c
  OBVIOUS
<1>3. CASE UNCHANGED <<batch, remittance, ledger>>
  <2>1. \A c \in Batches : MarkersAgree(c)'
    BY <1>1, <1>3, MarkersStay DEF Posted
  <2>2. RemittancesAreCloses'
    BY <1>0, <1>3 DEF RemittancesAreCloses, Net
  <2> QED
    BY <2>1, <2>2
<1>4. ASSUME NEW i \in Items, NEW amount \in 1..MaxAmount, NEW r \in Receivables,
             ClawBackStep(i, amount, r)
      PROVE  (\A c \in Batches : MarkersAgree(c)') /\ RemittancesAreCloses'
  <2>1. UNCHANGED <<batch, remittance>>
    BY <1>4 DEF ClawBackStep
  <2>2. \A f, l : f # "accrued" => (Posted(f, l)' <=> Posted(f, l))
    BY <1>4, PostedAfter DEF ClawBackStep
  <2>3. \A c \in Batches : MarkersAgree(c)'
    BY <1>1, <2>1, <2>2, MarkersStay
  <2>4. RemittancesAreCloses'
    BY <1>0, <2>1 DEF RemittancesAreCloses, Net
  <2> QED
    BY <2>3, <2>4
<1>5. ASSUME NEW b \in Batches, StatusStep(b)
      PROVE  (\A c \in Batches : MarkersAgree(c)') /\ RemittancesAreCloses'
  <2>1. /\ UNCHANGED <<remittance, ledger>>
        /\ \A c \in Batches : /\ batch'[c].closure = batch[c].closure
                              /\ batch'[c].composition = batch[c].composition
                              /\ batch'[c].allocation = batch[c].allocation
                              /\ batch'[c].status # "none" <=> batch[c].status # "none"
    BY <1>5 DEF StatusStep, OthersStay
  <2>2. \A c \in Batches : MarkersAgree(c)'
    BY <1>1, <2>1, MarkersStay DEF Posted
  <2>3. RemittancesAreCloses'
    BY <1>0, <2>1 DEF RemittancesAreCloses, Net
  <2> QED
    BY <2>2, <2>3
<1>6. ASSUME NEW a \in Actors, NEW b \in Batches, AssemblyStep(a, b)
      PROVE  (\A c \in Batches : MarkersAgree(c)') /\ RemittancesAreCloses'
  <2>1. /\ UNCHANGED remittance /\ OthersStay(b) /\ batch'[b].closure = "none"
        /\ batch[b].status = "none" /\ batch'[b].status = "ready"
    BY <1>6 DEF AssemblyStep
  <2>2. \A f, l : Posted(f, l)' <=> Posted(f, l) \/ (f = "started" /\ l = <<b>>)
    BY <1>6, PostedAfter DEF AssemblyStep
  <2>3. /\ ~Closed(b) /\ ~Posted("superseded", <<b>>) /\ ~Posted("completed", <<b>>)
        /\ \A m \in remittance : m.batch # b
    BY <1>0, <1>1, <2>1 DEF EngineInv, UnusedIsUnmarked, MarkersAgree, RemittancesAreCloses, Closed
  <2>4. MarkersAgree(b)'
    BY <2>1, <2>2, <2>3 DEF MarkersAgree, Closed
  <2>5. \A c \in Batches : c # b => MarkersAgree(c)'
    BY <1>1, <1>2, <2>1, <2>2, MarkersStay DEF OthersStay
  <2>6. RemittancesAreCloses'
    BY <1>0, <2>1, <2>3 DEF RemittancesAreCloses, Net, OthersStay
  <2> QED
    BY <2>4, <2>5, <2>6
<1>7. ASSUME NEW b \in Batches, SupersessionStep(b)
      PROVE  (\A c \in Batches : MarkersAgree(c)') /\ RemittancesAreCloses'
  <2>1. /\ UNCHANGED remittance
        /\ \A c \in Batches : /\ batch'[c].closure = batch[c].closure
                              /\ batch'[c].composition = batch[c].composition
                              /\ batch'[c].allocation = batch[c].allocation
                              /\ batch'[c].status # "none" <=> batch[c].status # "none"
    BY <1>7 DEF SupersessionStep, OthersStay
  <2>2. \A f, l : Posted(f, l)' <=> Posted(f, l) \/ (f = "superseded" /\ l = <<b>>)
    BY <1>7, PostedAfter DEF SupersessionStep
  <2>3. ~Closed(b) /\ ~Posted("completed", <<b>>)
    BY <1>0, <1>1, <1>7, OneWayOnly DEF MarkersAgree
  <2>4. MarkersAgree(b)'
    <3>1. Net(b)' = Net(b)
      BY <2>1 DEF Net
    <3>2. (\E m \in remittance' : m.batch = b /\ m.amount = Net(b)') <=>
             \E m \in remittance : m.batch = b /\ m.amount = Net(b)
      BY <2>1, <3>1
    <3> QED
      BY <1>1, <2>1, <2>2, <2>3, <3>2 DEF MarkersAgree, Closed
  <2>5. \A c \in Batches : c # b => MarkersAgree(c)'
    BY <1>1, <1>2, <2>1, <2>2, MarkersStay
  <2>6. RemittancesAreCloses'
    BY <1>0, <2>1 DEF RemittancesAreCloses, Net
  <2> QED
    BY <2>4, <2>5, <2>6
<1>8. ASSUME NEW b \in Batches, CloseStep(b)
      PROVE  (\A c \in Batches : MarkersAgree(c)') /\ RemittancesAreCloses'
  <2> DEFINE new == [batch |-> b, amount |-> Net(b)]
  <2>1. /\ OthersStay(b) /\ batch[b].status = "ready" /\ batch'[b].status = "settled"
        /\ batch'[b].composition = batch[b].composition
        /\ batch'[b].allocation = batch[b].allocation
        /\ ~Posted("completed", <<b>>)
    BY <1>8 DEF CloseStep
  <2>2. \A f, l : f # "recovered" =>
           (Posted(f, l)' <=> Posted(f, l) \/ (f = "completed" /\ l = <<b>>))
    BY <1>8, PostedAfterClose
  <2>3. ~Closed(b) /\ ~Posted("superseded", <<b>>) /\ \A m \in remittance : m.batch # b
    BY <1>0, <1>1, <1>8, <2>1, OneWayOnly DEF MarkersAgree, RemittancesAreCloses, Closed
  <2>4. Net(b)' = Net(b)
    BY <2>1 DEF Net
  <2>5. new.batch = b /\ new.amount = Net(b)
    OBVIOUS
  <2>6. \/ batch'[b].closure = "remitted" /\ remittance' = remittance \cup {new}
        \/ batch'[b].closure = "zero_net" /\ remittance' = remittance
    BY <1>8 DEF CloseStep
  <2> HIDE DEF new
  <2>7. MarkersAgree(b)'
    <3>1. batch'[b].closure = "remitted" <=>
             \E m \in remittance' : m.batch = b /\ m.amount = Net(b)'
      BY <2>3, <2>4, <2>5, <2>6
    <3>2. Closed(b)' /\ Posted("completed", <<b>>)' /\ ~Posted("superseded", <<b>>)'
      BY <2>2, <2>3, <2>6 DEF Closed
    <3>3. Posted("started", <<b>>)' /\ batch'[b].status # "none"
      BY <1>1, <2>1, <2>2 DEF MarkersAgree
    <3> QED
      BY <3>1, <3>2, <3>3 DEF MarkersAgree
  <2>8. \A c \in Batches : c # b => MarkersAgree(c)'
    <3> SUFFICES ASSUME NEW c \in Batches, c # b PROVE MarkersAgree(c)'
      OBVIOUS
    <3>1. \A m : m.batch = c => (m \in remittance' <=> m \in remittance)
      BY <2>5, <2>6
    <3> QED
      BY <1>1, <1>2, <2>1, <2>2, <3>1, MarkersStay DEF OthersStay
  <2>9. RemittancesAreCloses'
    <3>1. \A m \in remittance' : m \in remittance \/ (m = new /\ batch'[b].closure = "remitted")
      BY <2>6
    <3>2. \A c \in Batches : c # b => Net(c)' = Net(c)
      BY <2>1 DEF Net, OthersStay
    <3> QED
      BY <1>0, <2>1, <2>3, <2>4, <2>5, <3>1, <3>2 DEF RemittancesAreCloses, OthersStay
  <2> QED
    BY <2>7, <2>8, <2>9
<1> QED
  BY <1>0, <1>3, <1>4, <1>5, <1>6, <1>7, <1>8 DEF RowStep, UnboundItemStep, rows

-----------------------------------------------------------------------------
(***************************************************************************)
(* What was clawed back.                                                   *)
(***************************************************************************)
ClawbackInv == ClawbackMatchesPayment /\ UnsettledIsUnclawed

\* What the books say of one item.
ClawedFits(i) ==
    /\ item[i].clawed <= (IF item[i].batch = 0 THEN 0 ELSE item[i].amount)
    /\ item[i].state \in {"settled", "reversed"} /\ item[i].amount > 0 =>
          (item[i].state = "reversed" <=> item[i].clawed = item[i].amount)
    /\ item[i].state \notin {"settled", "reversed"} => item[i].clawed = 0

\* An item is clawed back within what was paid for it, after every step.
LEMMA ClawbackKept == EngineInv /\ ClawbackInv /\ [Next]_vars => ClawbackInv'
<1> SUFFICES ASSUME EngineInv, ClawbackInv, [Next]_vars PROVE ClawbackInv'
  OBVIOUS
<1>0. RowStep /\ item \in [Items -> ItemRows] /\ EngineInv'
  BY EveryStep, NextKeepsInv DEF EngineInv, TypeOK
<1>1. \A j \in Items : ClawedFits(j)
  BY DEF ClawbackInv, ClawbackMatchesPayment, UnsettledIsUnclawed, ClawedFits
<1> SUFFICES ASSUME NEW j \in Items PROVE ClawedFits(j)'
  BY DEF ClawbackInv, ClawbackMatchesPayment, UnsettledIsUnclawed, ClawedFits
<1>2. item[j] \in ItemRows /\ item'[j] \in ItemRows
  BY <1>0 DEF EngineInv, TypeOK
<1>3. /\ item[j].amount \in Nat /\ item[j].clawed \in Nat /\ item[j].reduced \in Nat
      /\ item'[j].amount \in Nat /\ item'[j].clawed \in Nat
      /\ item[j].amount + item[j].reduced = item[j].collected
  BY <1>2, BoundsAssumption DEF ItemRows, Amounts, EngineInv, AmountsAddUp
<1>4. CASE item'[j] = item[j]
  BY <1>1, <1>4 DEF ClawedFits
<1>5. ASSUME UnboundItemStep(j) PROVE ClawedFits(j)'
  BY <1>1, <1>3, <1>5 DEF ClawedFits, UnboundItemStep
<1>6. ASSUME NEW amount \in 1..MaxAmount, NEW r \in Receivables, ClawBackStep(j, amount, r)
      PROVE  ClawedFits(j)'
  <2>1. amount \in Nat /\ amount > 0
    BY BoundsAssumption
  <2>2. item[j].batch # 0
    BY <1>6 DEF EngineInv, BoundItemsAccountedFor, ClawBackStep
  <2>3. item[j].clawed + amount <= item[j].amount
    BY <1>3, <1>6, <2>1 DEF ClawBackStep
  <2>4. item[j].state = "settled"
    BY <1>1, <1>3, <1>6, <2>1, <2>3 DEF ClawBackStep, ClawedFits
  <2> QED
    BY <1>3, <1>6, <2>1, <2>2, <2>3, <2>4 DEF ClawedFits, ClawBackStep, FullyClawed
<1>7. ASSUME NEW a \in Actors, NEW b \in Batches, AssemblyStep(a, b), item'[j] # item[j]
      PROVE  ClawedFits(j)'
  BY <1>1, <1>3, <1>7 DEF ClawedFits, AssemblyStep
<1>8. ASSUME NEW b \in Batches, SupersessionStep(b), item'[j] # item[j]
      PROVE  ClawedFits(j)'
  <2>1. item'[j].state \in SupersedeDispositions /\ ItemMay(item[j].state, item'[j].state)
        /\ item'[j].batch = 0 /\ item'[j].clawed = item[j].clawed
    BY <1>8 DEF SupersessionStep
  <2>2. item[j].state \notin {"settled", "reversed"}
    BY <2>1 DEF ItemMay, ItemTransitions, SupersedeDispositions
  <2> QED
    BY <1>1, <2>1, <2>2 DEF ClawedFits, SupersedeDispositions
<1>9. ASSUME NEW b \in Batches, CloseStep(b), item'[j] # item[j]
      PROVE  ClawedFits(j)'
  <2>1. /\ item[j].batch = b /\ item[j].state = "ready" /\ item'[j].state = "settled"
        /\ item'[j].batch = b /\ item'[j].amount = item[j].amount
        /\ item'[j].clawed = item[j].clawed
    BY <1>9 DEF CloseStep, MembersReady
  <2> QED
    BY <1>1, <1>3, <2>1, BoundsAssumption DEF ClawedFits, Batches
<1>10. CASE item' = item
  BY <1>4, <1>10
<1>11. ASSUME NEW i \in Items, UnboundItemStep(i) PROVE ClawedFits(j)'
  <2>1. i # j => item'[j] = item[j]
    BY <1>11 DEF UnboundItemStep
  <2> QED
    BY <1>4, <1>5, <1>11, <2>1
<1>12. ASSUME NEW i \in Items, NEW amount \in 1..MaxAmount, NEW r \in Receivables,
              ClawBackStep(i, amount, r)
       PROVE  ClawedFits(j)'
  <2>1. i # j => item'[j] = item[j]
    BY <1>12 DEF ClawBackStep
  <2> QED
    BY <1>4, <1>6, <1>12, <2>1
<1>13. ASSUME NEW b \in Batches, StatusStep(b) \/ SupersessionStep(b) \/ CloseStep(b)
       PROVE  ClawedFits(j)'
  <2>1. CASE StatusStep(b)
    BY <1>10, <2>1 DEF StatusStep
  <2> QED
    BY <1>4, <1>8, <1>9, <1>13, <2>1
<1>14. CASE UNCHANGED rows
  BY <1>10, <1>14 DEF rows
<1> QED
  BY <1>0, <1>4, <1>7, <1>11, <1>12, <1>13, <1>14 DEF RowStep

-----------------------------------------------------------------------------
\* No batch exists at the start, nothing is posted and nothing clawed back.
LEMMA InitCloses == Init => ClosesInv /\ ClawbackInv
<1> SUFFICES ASSUME Init PROVE ClosesInv /\ ClawbackInv
  OBVIOUS
<1>1. /\ \A b \in Batches : batch[b].status = "none" /\ batch[b].closure = "none"
      /\ remittance = {} /\ ledger = {}
      /\ \A a \in Actors : pc[a] = "idle"
      /\ \A i \in Items : /\ item[i].state = "pending" /\ item[i].batch = 0
                          /\ item[i].clawed = 0
  BY DEF Init, NoBatchRow
<1>2. ClosesInv
  BY <1>1 DEF ClosesInv, NoEmptyBatch, Assembling, ClosedOneWay, Closed, Posted, RemittancesAreCloses
<1>3. ClawbackInv
  BY <1>1 DEF ClawbackInv, ClawbackMatchesPayment, UnsettledIsUnclawed
<1> QED
  BY <1>2, <1>3

\* Closes and clawbacks are kept straight in every reachable state.
LEMMA ClosesInvariant == Spec => [](EngineInv /\ ClosesInv /\ ClawbackInv)
<1>1. Init => ClosesInv /\ ClawbackInv
  BY InitCloses
<1>2. EngineInv /\ ClosesInv /\ ClawbackInv /\ [Next]_vars => ClosesInv' /\ ClawbackInv'
  BY ClosesKept, ClawbackKept
<1> QED
  BY <1>1, <1>2, EngineInvariant, PTL DEF Spec

\* A started batch is closed by completion or by supersession, never both; its
\* markers, its remittance and its row agree; and the clawbacks of an item stay
\* within what was paid for it, reversing it exactly when they reach it.
THEOREM BatchesCloseConsistently == Spec => []ClosesConsistently
<1>1. ClosesInv /\ ClawbackInv => ClosesConsistently
  BY DEF ClosesInv, ClawbackInv, ClosesConsistently
<1> QED
  BY <1>1, ClosesInvariant, PTL

-----------------------------------------------------------------------------
(***************************************************************************)
(* Items move along their table, and the engine implements its contract.   *)
(***************************************************************************)
\* Whichever step moves an item, its table allows the move.
LEMMA LawfulMoves ==
    ASSUME EngineInv, RowStep, NEW i \in Items, item'[i].state # item[i].state
    PROVE  ItemMay(item[i].state, item'[i].state)
<1>1. ASSUME NEW j \in Items, UnboundItemStep(j) PROVE ItemMay(item[i].state, item'[i].state)
  BY <1>1 DEF UnboundItemStep
<1>2. ASSUME NEW j \in Items, NEW amount \in 1..MaxAmount, NEW r \in Receivables,
             ClawBackStep(j, amount, r)
      PROVE  ItemMay(item[i].state, item'[i].state)
  <2>1. i = j /\ item[i].state = "settled" /\ item'[i].state = "reversed"
    BY <1>2 DEF ClawBackStep
  <2> QED
    BY <2>1 DEF ItemMay, ItemTransitions
<1>3. ASSUME NEW a \in Actors, NEW b \in Batches, AssemblyStep(a, b)
      PROVE  ItemMay(item[i].state, item'[i].state)
  <2>1. item[i].state = "eligible" /\ item'[i].state = "ready"
    BY <1>3 DEF AssemblyStep
  <2> QED
    BY <2>1 DEF ItemMay, ItemTransitions
<1>4. ASSUME NEW b \in Batches, SupersessionStep(b) PROVE ItemMay(item[i].state, item'[i].state)
  BY <1>4 DEF SupersessionStep
<1>5. ASSUME NEW b \in Batches, CloseStep(b) PROVE ItemMay(item[i].state, item'[i].state)
  <2>1. item[i].state = "ready" /\ item'[i].state = "settled"
    BY <1>5 DEF CloseStep, MembersReady
  <2> QED
    BY <2>1 DEF ItemMay, ItemTransitions
<1> QED
  BY <1>1, <1>2, <1>3, <1>4, <1>5 DEF RowStep, rows, StatusStep

\* The phase of a batch, as its row and its markers give it.
LEMMA PhaseIs ==
    ASSUME NEW b \in Batches,
           batch[b].status = "none" => ~Closed(b) /\ ~Posted("superseded", <<b>>),
           ~(Closed(b) /\ Posted("superseded", <<b>>))
    PROVE  PhaseOf(b) = IF batch[b].status = "none" THEN "none"
                        ELSE IF Closed(b) THEN "paid"
                        ELSE IF Posted("superseded", <<b>>) THEN "released" ELSE "open"
<1>1. CASE batch[b].status = "none"
  BY <1>1 DEF PhaseOf
<1>2. CASE batch[b].status # "none" /\ Closed(b)
  BY <1>2 DEF PhaseOf
<1>3. CASE batch[b].status # "none" /\ ~Closed(b) /\ Posted("superseded", <<b>>)
  BY <1>3 DEF PhaseOf
<1>4. CASE batch[b].status # "none" /\ ~Closed(b) /\ ~Posted("superseded", <<b>>)
  BY <1>4 DEF PhaseOf
<1> QED
  BY <1>1, <1>2, <1>3, <1>4

\* Before the first assembly no batch of the contract has started.
LEMMA ContractInit == Init => Contract!Init
<1> SUFFICES ASSUME Init PROVE Contract!Init
  OBVIOUS
<1>1. \A b \in Batches : batch[b].status = "none" /\ DOMAIN batch[b].composition = {}
  BY DEF Init, NoBatchRow
<1>2. \A b \in Batches : ~Closed(b) /\ ~Posted("superseded", <<b>>)
  BY DEF Init, NoBatchRow, Closed, Posted
<1>3. \A b \in Batches : PhaseOf(b) = "none"
  BY <1>1, <1>2, PhaseIs
<1> QED
  BY <1>1, <1>3 DEF Contract!Init

\* And in the next state.
LEMMA PhaseWillBe ==
    ASSUME NEW b \in Batches,
           batch'[b].status = "none" => ~Closed(b)' /\ ~Posted("superseded", <<b>>)',
           ~(Closed(b)' /\ Posted("superseded", <<b>>)')
    PROVE  PhaseOf(b)' = IF batch'[b].status = "none" THEN "none"
                         ELSE IF Closed(b)' THEN "paid"
                         ELSE IF Posted("superseded", <<b>>)' THEN "released" ELSE "open"
<1>1. CASE batch'[b].status = "none"
  BY <1>1 DEF PhaseOf
<1>2. CASE batch'[b].status # "none" /\ Closed(b)'
  BY <1>2 DEF PhaseOf
<1>3. CASE batch'[b].status # "none" /\ ~Closed(b)' /\ Posted("superseded", <<b>>)'
  BY <1>3 DEF PhaseOf
<1>4. CASE batch'[b].status # "none" /\ ~Closed(b)' /\ ~Posted("superseded", <<b>>)'
  BY <1>4 DEF PhaseOf
<1> QED
  BY <1>1, <1>2, <1>3, <1>4

\* The phases before and after a step that has kept the books.
LEMMA PhasesOfStep ==
    ASSUME EngineInv, ClosesInv, EngineInv', ClosesInv', NEW b \in Batches
    PROVE  /\ PhaseOf(b) = IF batch[b].status = "none" THEN "none"
                           ELSE IF Closed(b) THEN "paid"
                           ELSE IF Posted("superseded", <<b>>) THEN "released" ELSE "open"
           /\ PhaseOf(b)' = IF batch'[b].status = "none" THEN "none"
                            ELSE IF Closed(b)' THEN "paid"
                            ELSE IF Posted("superseded", <<b>>)' THEN "released" ELSE "open"
<1>1. /\ batch[b].status = "none" => ~Closed(b) /\ ~Posted("superseded", <<b>>)
      /\ ~(Closed(b) /\ Posted("superseded", <<b>>))
  BY DEF EngineInv, UnusedIsUnmarked, ClosesInv, ClosedOneWay
<1>2. /\ batch'[b].status = "none" => ~Closed(b)' /\ ~Posted("superseded", <<b>>)'
      /\ ~(Closed(b)' /\ Posted("superseded", <<b>>)')
  BY DEF EngineInv, UnusedIsUnmarked, ClosesInv, ClosedOneWay
<1> QED
  BY <1>1, <1>2, PhaseIs, PhaseWillBe

\* A step that leaves every batch its row, or writes a status by id, is none of
\* the contract's business.
LEMMA QuietForContract ==
    ASSUME EngineInv, ClosesInv, EngineInv', ClosesInv',
           \A b \in Batches : /\ batch'[b].closure = batch[b].closure
                              /\ batch'[b].composition = batch[b].composition
                              /\ batch'[b].status = "none" <=> batch[b].status = "none"
                              /\ Posted("superseded", <<b>>)' <=> Posted("superseded", <<b>>)
    PROVE  UNCHANGED Contract!contractVars
<1>1. \A b \in Batches : PhaseOf(b)' = PhaseOf(b)
  BY PhasesOfStep DEF Closed
<1>2. [b \in Batches |-> PhaseOf(b)'] = [b \in Batches |-> PhaseOf(b)]
  BY <1>1
<1>3. [b \in Batches |-> DOMAIN batch'[b].composition] = [b \in Batches |-> DOMAIN batch[b].composition]
  OBVIOUS
<1> QED
  BY <1>2, <1>3 DEF Contract!contractVars

\* A close or a supersession ends an open batch of the contract.
LEMMA EndsForContract ==
    ASSUME EngineInv, ClosesInv, EngineInv', ClosesInv', NEW b \in Batches,
           NEW as \in {"paid", "released"},
           PhaseOf(b) = "open", PhaseOf(b)' = as,
           \A c \in Batches : /\ c # b => PhaseOf(c)' = PhaseOf(c)
                              /\ batch'[c].composition = batch[c].composition
    PROVE  Contract!Next
<1> DEFINE ph == [c \in Batches |-> PhaseOf(c)]
           mem == [c \in Batches |-> DOMAIN batch[c].composition]
<1>1. ph' = [ph EXCEPT ![b] = as] /\ ph[b] = "open"
  OBVIOUS
<1>2. mem' = mem
  OBVIOUS
<1>3. Contract!End(b, as)
  BY <1>1, <1>2 DEF Contract!End
<1> QED
  BY <1>3 DEF Contract!Next

\* An assembly starts a batch of the contract with items nobody holds.
LEMMA AssemblyForContract ==
    ASSUME EngineInv, ClosesInv, EngineInv', ClosesInv',
           NEW a \in Actors, NEW b \in Batches, AssemblyStep(a, b),
           NEW S, S = DOMAIN seen[a]
    PROVE  Contract!Next
<1> DEFINE ph == [c \in Batches |-> PhaseOf(c)]
           mem == [c \in Batches |-> DOMAIN batch[c].composition]
<1>0. S \in SUBSET Items /\ S # {}
  BY PartialFunctionsDef DEF AssemblyStep, Assembling, EngineInv, TypeOK, ClosesInv, NoEmptyBatch
<1>1. /\ batch[b].status = "none" /\ batch'[b].status = "ready" /\ batch'[b].closure = "none"
      /\ batch'[b].composition = seen[a]
      /\ \A c \in Batches : c # b => batch'[c] = batch[c]
      /\ \A i \in S : item[i].batch = 0
  BY <1>0 DEF AssemblyStep, OthersStay
<1>2. \A f, l : Posted(f, l)' <=> Posted(f, l) \/ (f = "started" /\ l = <<b>>)
  BY PostedAfter DEF AssemblyStep
<1>3. PhaseOf(b) = "none" /\ PhaseOf(b)' = "open"
  BY <1>1, <1>2, PhasesOfStep DEF Closed, EngineInv, UnusedIsUnmarked
<1>4. \A c \in Batches : c # b => PhaseOf(c)' = PhaseOf(c)
  BY <1>1, <1>2, PhasesOfStep DEF Closed
<1>5. ASSUME NEW i \in S, NEW c \in Batches, PhaseOf(c) \in {"open", "paid"},
             i \in DOMAIN batch[c].composition
      PROVE  FALSE
  <2>1. CASE Closed(c)
    BY <1>1, <1>5, <2>1, BoundsAssumption DEF EngineInv, ClosedKeepsItems, Batches
  <2>2. CASE ~Closed(c)
    <3>1. Live(c)
      BY <1>5, <2>2, PhasesOfStep DEF Live
    <3> QED
      BY <1>1, <1>5, <3>1, BoundsAssumption
         DEF EngineInv, LiveBatchIsWhole, MembersReady, Batches
  <2> QED
    BY <2>1, <2>2
<1>6. ph' = [ph EXCEPT ![b] = "open"] /\ ph[b] = "none"
  BY <1>3, <1>4
<1>7. mem' = [mem EXCEPT ![b] = S]
  BY <1>1
<1>8. \A i \in S : ~Contract!Taken(i)
  BY <1>5 DEF Contract!Taken
<1>9. Contract!Start(b, S)
  BY <1>0, <1>6, <1>7, <1>8 DEF Contract!Start
<1> QED
  BY <1>0, <1>9 DEF Contract!Next

\* Every step of the engine is a step of the contract or leaves it alone.
LEMMA StepKeepsContract ==
    ASSUME EngineInv, ClosesInv, EngineInv', ClosesInv', RowStep
    PROVE  Contract!Next \/ UNCHANGED Contract!contractVars
<1>1. CASE UNCHANGED <<batch, ledger>>
  <2>1. \A b \in Batches : Posted("superseded", <<b>>)' <=> Posted("superseded", <<b>>)
    BY <1>1 DEF Posted
  <2> QED
    BY <1>1, <2>1, QuietForContract
<1>2. ASSUME NEW i \in Items, NEW amount \in 1..MaxAmount, NEW r \in Receivables,
             ClawBackStep(i, amount, r)
      PROVE  UNCHANGED Contract!contractVars
  <2>1. \A b \in Batches : Posted("superseded", <<b>>)' <=> Posted("superseded", <<b>>)
    BY <1>2, PostedAfter DEF ClawBackStep
  <2> QED
    BY <1>2, <2>1, QuietForContract DEF ClawBackStep
<1>3. ASSUME NEW b \in Batches, StatusStep(b) PROVE UNCHANGED Contract!contractVars
  <2>1. \A c \in Batches : Posted("superseded", <<c>>)' <=> Posted("superseded", <<c>>)
    BY <1>3 DEF StatusStep, Posted
  <2> QED
    BY <1>3, <2>1, QuietForContract DEF StatusStep, OthersStay
<1>4. ASSUME NEW b \in Batches, SupersessionStep(b) PROVE Contract!Next
  <2>1. \A f, l : Posted(f, l)' <=> Posted(f, l) \/ (f = "superseded" /\ l = <<b>>)
    BY <1>4, PostedAfter DEF SupersessionStep
  <2>2. ~Closed(b) /\ ~Closed(b)'
    BY <1>4, OneWayOnly DEF ClosesInv, SupersessionStep, Closed
  <2>3. PhaseOf(b) = "open" /\ PhaseOf(b)' = "released"
    BY <1>4, <2>1, <2>2, PhasesOfStep DEF SupersessionStep
  <2>4. \A c \in Batches : /\ c # b => PhaseOf(c)' = PhaseOf(c)
                           /\ batch'[c].composition = batch[c].composition
    <3>1. /\ OthersStay(b) /\ batch'[b].composition = batch[b].composition
      BY <1>4 DEF SupersessionStep
    <3>2. \A c \in Batches : c # b => batch'[c] = batch[c] /\ (Closed(c)' <=> Closed(c))
      BY <3>1 DEF OthersStay, Closed
    <3>3. \A c \in Batches : c # b => (Posted("superseded", <<c>>)' <=> Posted("superseded", <<c>>))
      BY <2>1
    <3> QED
      BY <3>1, <3>2, <3>3, PhasesOfStep
  <2> QED
    BY <2>3, <2>4, EndsForContract
<1>5. ASSUME NEW b \in Batches, CloseStep(b) PROVE Contract!Next
  <2>1. \A c \in Batches : Posted("superseded", <<c>>)' <=> Posted("superseded", <<c>>)
    BY <1>5, PostedAfterClose
  <2>2. ~Closed(b) /\ Closed(b)' /\ ~Posted("superseded", <<b>>)
    BY <1>5, OneWayOnly DEF ClosesInv, ClosedOneWay, CloseStep, Closed
  <2>3. PhaseOf(b) = "open" /\ PhaseOf(b)' = "paid"
    BY <1>5, <2>1, <2>2, PhasesOfStep DEF CloseStep
  <2>4. \A c \in Batches : /\ c # b => PhaseOf(c)' = PhaseOf(c)
                           /\ batch'[c].composition = batch[c].composition
    <3>1. /\ OthersStay(b) /\ batch'[b].composition = batch[b].composition
      BY <1>5 DEF CloseStep
    <3>2. \A c \in Batches : c # b => batch'[c] = batch[c] /\ (Closed(c)' <=> Closed(c))
      BY <3>1 DEF OthersStay, Closed
    <3> QED
      BY <2>1, <3>1, <3>2, PhasesOfStep
  <2> QED
    BY <2>3, <2>4, EndsForContract
<1>6. ASSUME NEW a \in Actors, NEW b \in Batches, AssemblyStep(a, b) PROVE Contract!Next
  BY <1>6, AssemblyForContract
<1> QED
  BY <1>1, <1>2, <1>3, <1>4, <1>5, <1>6 DEF RowStep, rows, UnboundItemStep

\* The engine implements its contract, and every step moves items along their
\* lifecycle table: whatever the requests in flight do, a batch starts with
\* items nobody holds and pays or releases all of them, once.
THEOREM EngineStepsAreLawful == Spec => StepsAreLawful
<1>1. EngineInv /\ [Next]_vars =>
         [\A i \in Items : item'[i].state # item[i].state =>
             ItemMay(item[i].state, item'[i].state)]_vars
  BY EveryStep, LawfulMoves
<1>2. Spec => ItemsMoveLawfully
  BY <1>1, EngineInvariant, PTL DEF Spec, ItemsMoveLawfully
<1>3. EngineInv /\ ClosesInv /\ [Next]_vars => [Contract!Next]_(Contract!contractVars)
  BY EveryStep, NextKeepsInv, ClosesKept, StepKeepsContract
<1>4. Spec => KeepsContract
  BY <1>3, ContractInit, ClosesInvariant, PTL DEF Spec, KeepsContract, Contract!Spec
<1> QED
  BY <1>2, <1>4 DEF StepsAreLawful

-----------------------------------------------------------------------------
(***************************************************************************)
(* What was recovered.                                                     *)
(***************************************************************************)
\* A sum over a function is a sum over its domain.
LEMMA SumFunctionIsSum == ASSUME NEW f PROVE SumFunction(f) = SumOf(f, DOMAIN f)
  BY DEF SumFunction, SumFunctionOnSet, FoldFunctionOnSet, MapThenFoldSet, SumOf, Unfolds, Chosen

Recovered(S) == SumFunction([p \in S |-> p.amount])

\* One more posting adds its amount.
LEMMA RecoveredAdds ==
    ASSUME NEW S, IsFiniteSet(S), NEW e, e \notin S, \A p \in S \cup {e} : p.amount \in Nat
    PROVE  Recovered(S \cup {e}) = Recovered(S) + e.amount
<1> DEFINE w == [p \in S \cup {e} |-> p.amount]
           v == [p \in S |-> p.amount]
<1>1. Recovered(S \cup {e}) = SumOf(w, S \cup {e}) /\ Recovered(S) = SumOf(v, S)
  <2>1. DOMAIN w = S \cup {e} /\ DOMAIN v = S
    OBVIOUS
  <2>2. SumFunction(w) = SumOf(w, DOMAIN w) /\ SumFunction(v) = SumOf(v, DOMAIN v)
    BY SumFunctionIsSum
  <2> QED
    BY <2>1, <2>2 DEF Recovered
<1>2. /\ \A p \in S \cup {e} : w[p] = p.amount /\ w[p] \in Nat
      /\ \A p \in S : w[p] = v[p]
  OBVIOUS
<1> HIDE DEF w, v
<1>3. SumOf(w, S) = SumOf(v, S)
  BY <1>2, SumCongruence
<1>4. SumOf(w, S \cup {e}) = SumOf(w, S) + w[e]
  BY <1>2, SumAdd
<1> QED
  BY <1>1, <1>2, <1>3, <1>4

\* Nothing was recovered of nothing.
LEMMA RecoveredOfNone == Recovered({}) = 0
<1> DEFINE v == [p \in {} |-> p.amount]
<1>1. SumFunction(v) = SumOf(v, DOMAIN v) /\ DOMAIN v = {}
  BY SumFunctionIsSum
<1> QED
  BY <1>1, SumEmpty DEF Recovered

\* What the books say of one receivable.
DebtFits(r) ==
    /\ receivable[r].state = "none" => receivable[r].recovered = 0 /\ receivable[r].staged = 0
    /\ receivable[r].state # "none" =>
          /\ receivable[r].amount > 0
          /\ receivable[r].recovered <= receivable[r].amount
          /\ receivable[r].state = IF receivable[r].recovered = 0 THEN "open"
                ELSE IF receivable[r].recovered = receivable[r].amount THEN "recovered"
                ELSE "partially_recovered"

StagedFits(r) ==
    receivable[r].staged # 0 =>
        /\ Live(receivable[r].staged)
        /\ r \in DOMAIN batch[receivable[r].staged].allocation
        /\ Consumable(r, receivable[r].staged, batch[receivable[r].staged].allocation[r])
        /\ batch[receivable[r].staged].allocation[r].amount <= Balance(r)

RecoveryInv ==
    /\ LinesTakeSomething
    /\ RecoveriesAreOfCloses
    /\ \A r \in Receivables : /\ receivable[r].recovered = Recovered(Recoveries(r))
                              /\ DebtFits(r) /\ StagedFits(r)

\* A line of an allocation takes something: planning drops the empty ones.
LEMMA LinesKept == EngineInv /\ LinesTakeSomething /\ [Next]_vars => LinesTakeSomething'
<1> SUFFICES ASSUME EngineInv, LinesTakeSomething, [Next]_vars PROVE LinesTakeSomething'
  OBVIOUS
<1>1. RowStep
  BY EveryStep
<1>2. ASSUME NEW c \in Batches, NEW r \in DOMAIN batch'[c].allocation
      PROVE  batch'[c].allocation[r].amount > 0
  <2>1. CASE UNCHANGED batch
    BY <2>1 DEF LinesTakeSomething
  <2>2. ASSUME NEW b \in Batches, StatusStep(b) \/ SupersessionStep(b) \/ CloseStep(b)
        PROVE  batch'[c].allocation[r].amount > 0
    <3>1. batch'[c].allocation = batch[c].allocation
      BY <2>2 DEF StatusStep, SupersessionStep, CloseStep, OthersStay
    <3> QED
      BY <3>1 DEF LinesTakeSomething
  <2>3. ASSUME NEW a \in Actors, NEW b \in Batches, AssemblyStep(a, b)
        PROVE  batch'[c].allocation[r].amount > 0
    <3>1. batch'[c].allocation = batch[c].allocation \/ batch'[c].allocation = plan[a]
      BY <2>3 DEF AssemblyStep, OthersStay
    <3> QED
      BY <3>1 DEF LinesTakeSomething
  <2> QED
    BY <1>1, <2>1, <2>2, <2>3 DEF RowStep, UnboundItemStep, ClawBackStep, rows
<1>3. ASSUME NEW c \in Actors, NEW r \in DOMAIN plan'[c] PROVE plan'[c][r].amount > 0
  <2>1. CASE plan'[c] = plan[c]
    BY <2>1 DEF LinesTakeSomething
  <2>2. CASE plan'[c] = <<>>
    BY <2>2, EmptyIsPartial
  <2>3. CASE AssemblePlan(c)
    <3>1. PICK take \in [OpenReceivables -> Amounts] :
            plan' = [plan EXCEPT ![c] =
              [q \in {q \in OpenReceivables : take[q] > 0} |->
                 [amount |-> take[q], at |-> receivable[q].recovered]]]
      BY <2>3 DEF AssemblePlan
    <3>2. plan'[c] = [q \in {q \in OpenReceivables : take[q] > 0} |->
                 [amount |-> take[q], at |-> receivable[q].recovered]]
      BY <3>1 DEF EngineInv, TypeOK
    <3> QED
      BY <3>2
  <2> QED
    BY <2>1, <2>2, <2>3, RequestsKeepReads
<1> QED
  BY <1>2, <1>3 DEF LinesTakeSomething

\* The recovery postings a close adds.
Taken(b) == {Posting("recovered", <<r, b>>, batch[b].allocation[r].amount) :
               r \in DOMAIN batch[b].allocation}

\* A close posts finitely many recoveries.
LEMMA TakenIsFinite == ASSUME EngineInv, NEW b \in Batches PROVE IsFiniteSet(Taken(b))
<1> DEFINE D == DOMAIN batch[b].allocation
           f == [r \in D |-> Posting("recovered", <<r, b>>, batch[b].allocation[r].amount)]
<1>1. D \subseteq 1..MaxReceivables
  BY PartialFunctionsDef DEF EngineInv, TypeOK, BatchRows, Receivables
<1>2. IsFiniteSet(D)
  <2>1. IsFiniteSet(1..MaxReceivables)
    BY FS_Interval, BoundsAssumption
  <2> HIDE DEF D
  <2> QED
    BY <1>1, <2>1, FS_Subset
<1>3. f \in [D -> Taken(b)] /\ \A p \in Taken(b) : \E r \in D : f[r] = p
  BY DEF Taken
<1> HIDE DEF D, f
<1>4. f \in Surjection(D, Taken(b))
  BY <1>3 DEF Surjection
<1> QED
  BY <1>2, <1>4, FS_Surjection

\* A posting that is none of a receivable's recoveries.
LEMMA RecoveriesStay ==
    ASSUME NEW e, NEW k, NEW n, e # "recovered", ledger' = ledger \cup {Posting(e, k, n)}
    PROVE  \A r \in Receivables : Recoveries(r)' = Recoveries(r)
<1>1. Posting(e, k, n).event = e
  BY DEF Posting
<1> QED
  BY <1>1 DEF Recoveries

\* The postings of recoveries are those of closed batches, and finitely many.
LEMMA RecoveriesKept ==
    EngineInv /\ ClosesInv /\ RecoveriesAreOfCloses /\ [Next]_vars => RecoveriesAreOfCloses'
<1> SUFFICES ASSUME EngineInv, ClosesInv, RecoveriesAreOfCloses, [Next]_vars
             PROVE  RecoveriesAreOfCloses'
  OBVIOUS
<1>1. RowStep
  BY EveryStep
<1>2. ASSUME NEW e, NEW k, NEW n, e # "recovered", ledger' = ledger \cup {Posting(e, k, n)},
             \A b \in Batches : Closed(b) => Closed(b)'
      PROVE  RecoveriesAreOfCloses'
  <2>1. Posting(e, k, n).event = e
    BY DEF Posting
  <2>2. IsFiniteSet(ledger')
    BY <1>2, FS_AddElement DEF RecoveriesAreOfCloses
  <2>3. ASSUME NEW p \in ledger', p.event = "recovered"
        PROVE  \E r \in Receivables, b \in Batches, m \in Amounts :
                  Closed(b)' /\ p = Posting("recovered", <<r, b>>, m)
    <3>1. p \in ledger
      BY <1>2, <2>1, <2>3
    <3>2. PICK r \in Receivables, b \in Batches, m \in Amounts :
             Closed(b) /\ p = Posting("recovered", <<r, b>>, m)
      BY <2>3, <3>1 DEF RecoveriesAreOfCloses
    <3> QED
      BY <1>2, <3>2
  <2> QED
    BY <2>2, <2>3 DEF RecoveriesAreOfCloses
<1>3. CASE ledger' = ledger /\ \A b \in Batches : Closed(b) => Closed(b)'
  BY <1>3 DEF RecoveriesAreOfCloses
<1>4. ASSUME NEW i \in Items, NEW amount \in 1..MaxAmount, NEW r \in Receivables,
             ClawBackStep(i, amount, r)
      PROVE  RecoveriesAreOfCloses'
  BY <1>2, <1>4 DEF ClawBackStep, Closed
<1>5. ASSUME NEW a \in Actors, NEW b \in Batches, AssemblyStep(a, b)
      PROVE  RecoveriesAreOfCloses'
  <2>1. ~Closed(b) /\ OthersStay(b)
    BY <1>5 DEF AssemblyStep, EngineInv, UnusedIsUnmarked
  <2>2. \A c \in Batches : Closed(c) => Closed(c)'
    BY <2>1 DEF Closed, OthersStay
  <2> QED
    BY <1>2, <1>5, <2>2 DEF AssemblyStep
<1>6. ASSUME NEW b \in Batches, SupersessionStep(b) PROVE RecoveriesAreOfCloses'
  <2>1. \A c \in Batches : Closed(c) => Closed(c)'
    BY <1>6 DEF SupersessionStep, Closed, OthersStay
  <2> QED
    BY <1>2, <1>6, <2>1 DEF SupersessionStep
<1>7. ASSUME NEW b \in Batches, StatusStep(b) PROVE RecoveriesAreOfCloses'
  <2>1. ledger' = ledger /\ \A c \in Batches : Closed(c) => Closed(c)'
    BY <1>7 DEF StatusStep, Closed, OthersStay
  <2> QED
    BY <1>3, <2>1
<1>8. ASSUME NEW b \in Batches, CloseStep(b) PROVE RecoveriesAreOfCloses'
  <2> DEFINE done == Posting("completed", <<b>>, 0)
  <2>1. ledger' = (ledger \cup {done}) \cup Taken(b) /\ done.event = "completed"
    BY <1>8 DEF CloseStep, Taken, Posting
  <2> HIDE DEF done
  <2>2. IsFiniteSet(ledger')
    BY <2>1, TakenIsFinite, FS_AddElement, FS_Union DEF RecoveriesAreOfCloses
  <2>3. Closed(b)' /\ \A c \in Batches : Closed(c) => Closed(c)'
    BY <1>8 DEF CloseStep, Closed, OthersStay
  <2>4. ASSUME NEW p \in ledger', p.event = "recovered"
        PROVE  \E r \in Receivables, c \in Batches, m \in Amounts :
                  Closed(c)' /\ p = Posting("recovered", <<r, c>>, m)
    <3>1. CASE p \in ledger
      <4>1. PICK r \in Receivables, c \in Batches, m \in Amounts :
               Closed(c) /\ p = Posting("recovered", <<r, c>>, m)
        BY <2>4, <3>1 DEF RecoveriesAreOfCloses
      <4> QED
        BY <2>3, <4>1
    <3>2. CASE p \in Taken(b)
      <4>1. PICK r \in DOMAIN batch[b].allocation :
               p = Posting("recovered", <<r, b>>, batch[b].allocation[r].amount)
        BY <3>2 DEF Taken
      <4>2. r \in Receivables /\ batch[b].allocation[r].amount \in Amounts
        <5>1. batch[b].allocation \in PartialFunctions(Receivables, Allocations)
          BY DEF EngineInv, TypeOK, BatchRows
        <5>2. r \in Receivables /\ batch[b].allocation[r] \in Allocations
          BY <5>1, PartialFunctionsDef
        <5> QED
          BY <5>2 DEF Allocations
      <4> QED
        BY <2>3, <4>1, <4>2
    <3> QED
      BY <2>1, <2>4, <3>1, <3>2
  <2> QED
    BY <2>2, <2>4 DEF RecoveriesAreOfCloses
<1>9. CASE UNCHANGED <<batch, ledger>>
  BY <1>3, <1>9 DEF Closed
<1> QED
  BY <1>1, <1>4, <1>5, <1>6, <1>7, <1>8, <1>9 DEF RowStep, rows, UnboundItemStep

\* A receivable shows the sum of its postings after every step.
LEMMA RecoveredKept ==
    ASSUME EngineInv, ClosesInv, RecoveryInv, [Next]_vars, NEW r \in Receivables
    PROVE  receivable'[r].recovered = Recovered(Recoveries(r)')
<1>0. RowStep /\ receivable[r].recovered = Recovered(Recoveries(r)) /\ RecoveriesAreOfCloses
  BY EveryStep DEF RecoveryInv
<1>1. CASE Recoveries(r)' = Recoveries(r) /\ receivable'[r].recovered = receivable[r].recovered
  BY <1>0, <1>1
<1>2. ASSUME NEW i \in Items, NEW amount \in 1..MaxAmount, NEW q \in Receivables,
             ClawBackStep(i, amount, q)
      PROVE  receivable'[r].recovered = Recovered(Recoveries(r)')
  <2>1. Recoveries(r)' = Recoveries(r)
    BY <1>2, RecoveriesStay DEF ClawBackStep
  <2>2. receivable'[r].recovered = receivable[r].recovered
    BY <1>2 DEF ClawBackStep, RecoveryInv, DebtFits
  <2> QED
    BY <1>1, <2>1, <2>2
<1>3. ASSUME NEW a \in Actors, NEW b \in Batches, AssemblyStep(a, b)
      PROVE  receivable'[r].recovered = Recovered(Recoveries(r)')
  <2>1. Recoveries(r)' = Recoveries(r)
    BY <1>3, RecoveriesStay DEF AssemblyStep
  <2>2. receivable'[r].recovered = receivable[r].recovered
    BY <1>3 DEF AssemblyStep
  <2> QED
    BY <1>1, <2>1, <2>2
<1>4. ASSUME NEW b \in Batches, SupersessionStep(b)
      PROVE  receivable'[r].recovered = Recovered(Recoveries(r)')
  <2>1. Recoveries(r)' = Recoveries(r)
    BY <1>4, RecoveriesStay DEF SupersessionStep
  <2>2. receivable'[r].recovered = receivable[r].recovered
    BY <1>4 DEF SupersessionStep
  <2> QED
    BY <1>1, <2>1, <2>2
<1>5. ASSUME NEW b \in Batches, CloseStep(b)
      PROVE  receivable'[r].recovered = Recovered(Recoveries(r)')
  <2> DEFINE done == Posting("completed", <<b>>, 0)
             n == batch[b].allocation[r].amount
             new == Posting("recovered", <<r, b>>, n)
  <2>1. ledger' = (ledger \cup {done}) \cup Taken(b) /\ done.event = "completed"
    BY <1>5 DEF CloseStep, Taken, Posting
  <2> HIDE DEF done
  <2>2. \A p \in Taken(b) : p.event = "recovered" /\ p.key[1] \in DOMAIN batch[b].allocation
    BY DEF Taken, Posting
  <2>3. CASE r \notin DOMAIN batch[b].allocation
    <3>1. Recoveries(r)' = Recoveries(r)
      BY <2>1, <2>2, <2>3 DEF Recoveries
    <3>2. receivable'[r].recovered = receivable[r].recovered
      BY <1>5, <2>3 DEF CloseStep
    <3> QED
      BY <1>1, <3>1, <3>2
  <2>4. CASE r \in DOMAIN batch[b].allocation
    <3>1. new.event = "recovered" /\ new.key = <<r, b>> /\ new.key[1] = r /\ new.amount = n
      BY DEF Posting
    <3>2. \A p \in Taken(b) : p.key[1] = r <=> p = new
      BY <2>4, <3>1 DEF Taken, Posting
    <3>3. new \in Taken(b)
      BY <2>4 DEF Taken
    <3>4. n \in Nat /\ receivable'[r].recovered = receivable[r].recovered + n
      <4>1. batch[b].allocation \in PartialFunctions(Receivables, Allocations)
        BY DEF EngineInv, TypeOK, BatchRows
      <4>2. batch[b].allocation[r] \in Allocations
        BY <2>4, <4>1, PartialFunctionsDef
      <4>3. n \in Nat
        BY <4>2, BoundsAssumption DEF Allocations, Amounts
      <4> QED
        BY <1>5, <2>4, <4>3 DEF CloseStep, Consumable
    <3> HIDE DEF new, n
    <3>5. Recoveries(r)' = Recoveries(r) \cup {new}
      BY <2>1, <2>2, <3>1, <3>2, <3>3 DEF Recoveries
    <3>6. ~Closed(b)
      BY <1>5 DEF CloseStep, ClosesInv, ClosedOneWay
    <3>7. new \notin Recoveries(r)
      <4> SUFFICES ASSUME new \in ledger PROVE FALSE
        BY DEF Recoveries
      <4>1. PICK q \in Receivables, c \in Batches, m \in Amounts :
               Closed(c) /\ new = Posting("recovered", <<q, c>>, m)
        BY <1>0, <3>1 DEF RecoveriesAreOfCloses
      <4>2. <<q, c>> = <<r, b>>
        BY <3>1, <4>1 DEF Posting
      <4> QED
        BY <3>6, <4>1, <4>2
    <3>8. IsFiniteSet(Recoveries(r))
      BY <1>0, FS_Subset DEF RecoveriesAreOfCloses, Recoveries
    <3>9. \A p \in Recoveries(r) \cup {new} : p.amount \in Nat
      <4>1. ASSUME NEW p \in Recoveries(r) PROVE p.amount \in Nat
        <5>1. PICK q \in Receivables, c \in Batches, m \in Amounts :
                 p = Posting("recovered", <<q, c>>, m)
          BY <1>0, <4>1 DEF RecoveriesAreOfCloses, Recoveries
        <5> QED
          BY <5>1, BoundsAssumption DEF Posting, Amounts
      <4> QED
        BY <3>1, <3>4, <4>1
    <3>10. Recovered(Recoveries(r) \cup {new}) = Recovered(Recoveries(r)) + new.amount
      BY <3>7, <3>8, <3>9, RecoveredAdds
    <3> QED
      BY <1>0, <3>1, <3>4, <3>5, <3>10
  <2> QED
    BY <2>3, <2>4
<1>6. CASE UNCHANGED <<receivable, ledger>>
  BY <1>1, <1>6 DEF Recoveries
<1> QED
  BY <1>0, <1>2, <1>3, <1>4, <1>5, <1>6 DEF RowStep, rows, UnboundItemStep, StatusStep

\* What a close and an assembly use of a line of an allocation.
LEMMA LineFits ==
    ASSUME EngineInv, RecoveryInv, NEW b \in Batches, NEW r \in DOMAIN batch[b].allocation,
           NEW line, line = batch[b].allocation[r]
    PROVE  /\ r \in Receivables /\ line.amount \in Nat /\ line.at \in Nat /\ line.amount > 0
           /\ receivable[r].state # "none" /\ receivable[r].amount \in Nat
           /\ line.at + line.amount <= receivable[r].amount
<1>1. batch[b].allocation \in PartialFunctions(Receivables, Allocations)
  BY DEF EngineInv, TypeOK, BatchRows
<1>2. r \in Receivables /\ line \in Allocations
  BY <1>1, PartialFunctionsDef
<1>3. line.amount \in Nat /\ line.at \in Nat
  BY <1>2, BoundsAssumption DEF Allocations, Amounts
<1>4. Fits(r, line) /\ line.amount > 0
  BY DEF EngineInv, AllocationsFit, RecoveryInv, LinesTakeSomething
<1>5. receivable[r] \in ReceivableRows
  BY <1>2 DEF EngineInv, TypeOK
<1>6. receivable[r].amount \in Nat
  BY <1>5, BoundsAssumption DEF ReceivableRows, Amounts
<1> QED
  BY <1>2, <1>3, <1>4, <1>6 DEF Fits

\* The state of a receivable says how far its recovery has gone.
LEMMA DebtsKept ==
    ASSUME EngineInv, ClosesInv, RecoveryInv, [Next]_vars, NEW r \in Receivables
    PROVE  DebtFits(r)'
<1>0. RowStep /\ DebtFits(r) /\ receivable[r] \in ReceivableRows
  BY EveryStep DEF RecoveryInv, EngineInv, TypeOK
<1>1. ASSUME receivable'[r].state = receivable[r].state,
             receivable'[r].amount = receivable[r].amount,
             receivable'[r].recovered = receivable[r].recovered,
             receivable[r].state = "none" => receivable'[r].staged = receivable[r].staged
      PROVE  DebtFits(r)'
  BY <1>0, <1>1 DEF DebtFits
<1>2. ASSUME NEW i \in Items, NEW amount \in 1..MaxAmount, NEW q \in Receivables,
             ClawBackStep(i, amount, q)
      PROVE  DebtFits(r)'
  <2>1. CASE q = r
    <3>1. amount \in Nat /\ amount > 0
      BY BoundsAssumption
    <3> QED
      BY <1>2, <2>1, <3>1 DEF ClawBackStep, DebtFits
  <2>2. CASE q # r
    BY <1>1, <1>2, <2>2 DEF ClawBackStep
  <2> QED
    BY <2>1, <2>2
<1>3. ASSUME NEW a \in Actors, NEW b \in Batches, AssemblyStep(a, b) PROVE DebtFits(r)'
  <2>1. CASE r \in DOMAIN plan[a]
    <3>1. receivable[r].state # "none"
      BY <1>3, <2>1 DEF AssemblyStep, Stageable, Recoverable
    <3> QED
      BY <1>1, <1>3, <2>1, <3>1 DEF AssemblyStep
  <2>2. CASE r \notin DOMAIN plan[a]
    BY <1>1, <1>3, <2>2 DEF AssemblyStep
  <2> QED
    BY <2>1, <2>2
<1>4. ASSUME NEW b \in Batches, SupersessionStep(b) PROVE DebtFits(r)'
  <2>1. CASE receivable[r].staged = b
    <3>1. receivable[r].state # "none"
      BY <1>0, <2>1, BoundsAssumption DEF DebtFits, Batches
    <3> QED
      BY <1>1, <1>4, <2>1, <3>1 DEF SupersessionStep
  <2>2. CASE receivable[r].staged # b
    BY <1>1, <1>4, <2>2 DEF SupersessionStep
  <2> QED
    BY <2>1, <2>2
<1>5. ASSUME NEW b \in Batches, CloseStep(b) PROVE DebtFits(r)'
  <2>1. CASE r \notin DOMAIN batch[b].allocation
    BY <1>1, <1>5, <2>1 DEF CloseStep
  <2>2. CASE r \in DOMAIN batch[b].allocation
    <3> DEFINE line == batch[b].allocation[r]
    <3>1. /\ line.amount \in Nat /\ line.at \in Nat /\ line.amount > 0
          /\ receivable[r].state # "none" /\ receivable[r].amount \in Nat
          /\ line.at + line.amount <= receivable[r].amount
      BY <2>2, LineFits
    <3>2. /\ receivable'[r].state = Consumed(r, line)
          /\ receivable'[r].amount = receivable[r].amount
          /\ receivable'[r].recovered = line.at + line.amount
      BY <1>5, <2>2 DEF CloseStep
    <3> HIDE DEF line
    <3> QED
      BY <1>0, <3>1, <3>2 DEF DebtFits, Consumed
  <2> QED
    BY <2>1, <2>2
<1>6. CASE UNCHANGED receivable
  BY <1>1, <1>6
<1> QED
  BY <1>0, <1>2, <1>3, <1>4, <1>5, <1>6 DEF RowStep, rows, UnboundItemStep, StatusStep

\* A receivable that keeps its row stays staged by its batch, when that batch
\* stays live with its lines.
LEMMA StagedStays ==
    ASSUME RecoveryInv, NEW r \in Receivables, receivable'[r] = receivable[r],
           receivable[r].staged # 0 =>
              /\ Live(receivable[r].staged)'
              /\ batch'[receivable[r].staged].allocation = batch[receivable[r].staged].allocation
    PROVE  StagedFits(r)'
<1> SUFFICES ASSUME receivable[r].staged # 0 PROVE StagedFits(r)'
  BY DEF StagedFits
<1> DEFINE b == receivable[r].staged
           line == batch[b].allocation[r]
<1>1. /\ r \in DOMAIN batch[b].allocation /\ Consumable(r, b, line) /\ line.amount <= Balance(r)
  BY DEF RecoveryInv, StagedFits
<1>2. batch'[b].allocation = batch[b].allocation /\ receivable'[r].staged = b
  OBVIOUS
<1> QED
  BY <1>1, <1>2 DEF StagedFits, Consumable, Consumed, Balance, Live, Closed

\* Staged receivables belong to a live batch that can still consume them.
LEMMA StagingKept ==
    ASSUME EngineInv, ClosesInv, RecoveryInv, [Next]_vars, NEW r \in Receivables
    PROVE  StagedFits(r)'
<1>0. /\ RowStep /\ StagedFits(r) /\ receivable[r] \in ReceivableRows /\ DebtFits(r)
      /\ receivable[r].staged \in BatchOrNone
  BY EveryStep DEF RecoveryInv, EngineInv, TypeOK, ReceivableRows
<1>1. receivable[r].staged # 0 =>
         /\ receivable[r].staged \in Batches /\ Live(receivable[r].staged)
         /\ r \in DOMAIN batch[receivable[r].staged].allocation
         /\ batch[receivable[r].staged].status # "none"
         /\ batch[receivable[r].staged].closure = "none"
         /\ ~Posted("superseded", <<receivable[r].staged>>)
  BY <1>0, BoundsAssumption DEF StagedFits, Live, Closed, BatchOrNone, Batches
<1>2. ASSUME receivable'[r] = receivable[r],
             receivable[r].staged # 0 =>
                /\ batch'[receivable[r].staged].status # "none"
                /\ batch'[receivable[r].staged].closure = "none"
                /\ batch'[receivable[r].staged].allocation
                      = batch[receivable[r].staged].allocation
                /\ ~\E p \in ledger' : p.event = "superseded" /\ p.key = <<receivable[r].staged>>
      PROVE  StagedFits(r)'
  <2>1. receivable[r].staged # 0 => Live(receivable[r].staged)'
    BY <1>2 DEF Live, Closed, Posted
  <2> QED
    BY <1>2, <2>1, StagedStays
<1>3. CASE UNCHANGED <<batch, receivable, ledger>>
  BY <1>1, <1>2, <1>3 DEF Posted
<1>4. ASSUME NEW i \in Items, NEW amount \in 1..MaxAmount, NEW q \in Receivables,
             ClawBackStep(i, amount, q)
      PROVE  StagedFits(r)'
  <2>1. CASE q = r
    BY <1>4, <2>1 DEF ClawBackStep, StagedFits
  <2>2. CASE q # r
    <3>1. Posting("accrued", <<q>>, amount).event = "accrued"
      BY DEF Posting
    <3>2. /\ receivable'[r] = receivable[r] /\ UNCHANGED batch
          /\ ledger' = ledger \cup {Posting("accrued", <<q>>, amount)}
      BY <1>4, <2>2 DEF ClawBackStep
    <3> QED
      BY <1>1, <1>2, <3>1, <3>2 DEF Posted
  <2> QED
    BY <2>1, <2>2
<1>5. ASSUME NEW a \in Actors, NEW b \in Batches, AssemblyStep(a, b) PROVE StagedFits(r)'
  <2> DEFINE new == Posting("started", <<b>>, 0)
  <2>1. /\ batch[b].status = "none" /\ batch'[b].status = "ready" /\ batch'[b].closure = "none"
        /\ batch'[b].allocation = plan[a] /\ OthersStay(b) /\ ledger' = ledger \cup {new}
        /\ new.event = "started"
    BY <1>5 DEF AssemblyStep, Posting
  <2> HIDE DEF new
  <2>2. CASE r \notin DOMAIN plan[a]
    <3>1. receivable'[r] = receivable[r] /\ receivable[r].staged # b
      BY <1>1, <1>5, <2>1, <2>2, BoundsAssumption DEF AssemblyStep, Batches
    <3> QED
      BY <1>1, <1>2, <2>1, <3>1 DEF Posted, OthersStay
  <2>3. CASE r \in DOMAIN plan[a]
    <3> DEFINE line == plan[a][r]
    <3>1. /\ receivable[r].state \in {"open", "partially_recovered"}
          /\ receivable[r].recovered = line.at
          /\ receivable'[r].state = receivable[r].state
          /\ receivable'[r].amount = receivable[r].amount
          /\ receivable'[r].recovered = receivable[r].recovered
          /\ receivable'[r].staged = b
      BY <1>5, <2>3 DEF AssemblyStep, Stageable, Recoverable
    <3>2. line.amount \in Nat /\ line.at \in Nat /\ receivable[r].amount \in Nat
      <4>1. plan[a] \in PartialFunctions(Receivables, Allocations)
        BY DEF EngineInv, TypeOK
      <4>2. line \in Allocations
        BY <2>3, <4>1, PartialFunctionsDef
      <4> QED
        BY <1>0, <4>2, BoundsAssumption DEF Allocations, Amounts, ReceivableRows
    <3>3. line.at + line.amount <= receivable[r].amount /\ line.amount > 0
      BY <2>3 DEF EngineInv, AllocationsFit, Fits, RecoveryInv, LinesTakeSomething
    <3>4. r \in DOMAIN batch'[b].allocation /\ batch'[b].allocation[r] = line
      BY <2>1, <2>3
    <3>5. ~Posted("superseded", <<b>>)'
      BY <2>1, PostedAfter DEF EngineInv, UnusedIsUnmarked, Posted
    <3>6. Live(receivable[r].staged)'
      BY <2>1, <3>1, <3>5 DEF Live, Closed
    <3> HIDE DEF line
    <3>7. \/ receivable'[r].state = Consumed(r, batch[b].allocation[r])'
          \/ ReceivableMay(receivable'[r].state, Consumed(r, batch[b].allocation[r])')
      <4>1. Consumed(r, batch[b].allocation[r])' \in {"recovered", "partially_recovered"}
        BY DEF Consumed
      <4> QED
        BY <3>1, <4>1 DEF ReceivableMay, ReceivableTransitions
    <3> QED
      BY <3>1, <3>2, <3>3, <3>4, <3>6, <3>7 DEF StagedFits, Consumable, Balance
  <2> QED
    BY <2>2, <2>3
<1>6. ASSUME NEW b \in Batches, SupersessionStep(b) PROVE StagedFits(r)'
  <2> DEFINE new == Posting("superseded", <<b>>, 0)
  <2>1. ledger' = ledger \cup {new} /\ new.event = "superseded" /\ new.key = <<b>>
    BY <1>6 DEF SupersessionStep, Posting
  <2> HIDE DEF new
  <2>2. CASE receivable[r].staged = b
    BY <1>6, <2>2 DEF SupersessionStep, StagedFits
  <2>3. CASE receivable[r].staged # b
    <3>1. receivable'[r] = receivable[r] /\ OthersStay(b)
      BY <1>6, <2>3 DEF SupersessionStep
    <3>2. <<receivable[r].staged>> # <<b>>
      BY <2>3
    <3> QED
      BY <1>1, <1>2, <2>1, <2>3, <3>1, <3>2 DEF OthersStay, Posted
  <2> QED
    BY <2>2, <2>3
<1>7. ASSUME NEW b \in Batches, CloseStep(b) PROVE StagedFits(r)'
  <2>1. CASE r \in DOMAIN batch[b].allocation
    BY <1>7, <2>1 DEF CloseStep, StagedFits
  <2>2. CASE r \notin DOMAIN batch[b].allocation
    <3>1. receivable'[r] = receivable[r] /\ receivable[r].staged # b /\ OthersStay(b)
      BY <1>1, <1>7, <2>2, BoundsAssumption DEF CloseStep, Batches
    <3>2. \A l : Posted("superseded", l)' <=> Posted("superseded", l)
      BY <1>7, PostedAfterClose
    <3>3. receivable[r].staged # 0 =>
             ~\E p \in ledger' : p.event = "superseded" /\ p.key = <<receivable[r].staged>>
      BY <1>1, <3>2 DEF Posted
    <3> QED
      BY <1>1, <1>2, <3>1, <3>3 DEF OthersStay
  <2> QED
    BY <2>1, <2>2
<1>8. ASSUME NEW b \in Batches, StatusStep(b) PROVE StagedFits(r)'
  <2>1. /\ UNCHANGED <<receivable, ledger>>
        /\ \A c \in Batches : /\ batch'[c].allocation = batch[c].allocation
                              /\ batch'[c].closure = batch[c].closure
                              /\ batch[c].status # "none" => batch'[c].status # "none"
    BY <1>8 DEF StatusStep, OthersStay
  <2> QED
    BY <1>1, <1>2, <2>1 DEF Posted
<1> QED
  BY <1>0, <1>3, <1>4, <1>5, <1>6, <1>7, <1>8 DEF RowStep, rows, UnboundItemStep

\* Nothing has been accrued at the start.
LEMMA InitRecovery == Init => RecoveryInv
<1> SUFFICES ASSUME Init PROVE RecoveryInv
  OBVIOUS
<1>1. /\ \A b \in Batches : batch[b].allocation = <<>>
      /\ \A a \in Actors : plan[a] = <<>>
      /\ \A r \in Receivables : /\ receivable[r].state = "none" /\ receivable[r].recovered = 0
                                /\ receivable[r].staged = 0
      /\ ledger = {}
  BY DEF Init, NoBatchRow, NoReceivable
<1>2. LinesTakeSomething /\ RecoveriesAreOfCloses
  BY <1>1, EmptyIsPartial, FS_EmptySet DEF LinesTakeSomething, RecoveriesAreOfCloses
<1>3. \A r \in Receivables : Recoveries(r) = {}
  BY <1>1 DEF Recoveries
<1> QED
  BY <1>1, <1>2, <1>3, RecoveredOfNone DEF RecoveryInv, DebtFits, StagedFits

\* The books of the recoveries are kept in every reachable state.
LEMMA RecoveryInvariant == Spec => [](EngineInv /\ RecoveryInv)
<1>1. EngineInv /\ ClosesInv /\ RecoveryInv /\ [Next]_vars => RecoveryInv'
  <2> SUFFICES ASSUME EngineInv, ClosesInv, RecoveryInv, [Next]_vars PROVE RecoveryInv'
    OBVIOUS
  <2>1. LinesTakeSomething' /\ RecoveriesAreOfCloses'
    BY LinesKept, RecoveriesKept DEF RecoveryInv
  <2>2. \A r \in Receivables : /\ receivable'[r].recovered = Recovered(Recoveries(r)')
                               /\ DebtFits(r)' /\ StagedFits(r)'
    BY RecoveredKept, DebtsKept, StagingKept
  <2> QED
    BY <2>1, <2>2 DEF RecoveryInv, Recovered
<1> QED
  BY <1>1, InitRecovery, ClosesInvariant, PTL DEF Spec

\* Debts are recovered once: what a receivable shows as recovered is the sum of
\* its postings and never more than was accrued, its state says how far the
\* recovery has gone, and whatever is staged is staged by one live batch that
\* can still consume it.
THEOREM DebtsAreConserved == Spec => []DebtsConserved
<1>1. EngineInv /\ RecoveryInv => DebtsConserved
  <2> SUFFICES ASSUME EngineInv, RecoveryInv PROVE DebtsConserved
    OBVIOUS
  <2>1. StagedByLiveBatch
    BY DEF RecoveryInv, StagedFits, StagedByLiveBatch
  <2>2. ASSUME NEW r \in Receivables, receivable[r].state # "none"
        PROVE  /\ receivable[r].recovered = Recovered(Recoveries(r))
               /\ receivable[r].recovered <= receivable[r].amount
               /\ receivable[r].state = CASE receivable[r].recovered = 0 -> "open"
                     [] receivable[r].recovered = receivable[r].amount -> "recovered"
                     [] OTHER -> "partially_recovered"
    <3>1. DebtFits(r) /\ receivable[r].recovered = Recovered(Recoveries(r))
      BY DEF RecoveryInv
    <3>2. CASE receivable[r].recovered = 0
      BY <2>2, <3>1, <3>2 DEF DebtFits
    <3>3. CASE receivable[r].recovered # 0
      BY <2>2, <3>1, <3>3 DEF DebtFits
    <3> QED
      BY <3>2, <3>3
  <2>3. RecoveryConserved
    BY <2>2 DEF RecoveryConserved, Recovered, Recoveries
  <2> QED
    BY <2>1, <2>3 DEF DebtsConserved
<1> QED
  BY <1>1, RecoveryInvariant, PTL
=============================================================================
