-------------------------- MODULE SettlementEngine --------------------------
(***************************************************************************)
(* The settlement engine (settlement-engine.service.ts) over the tables it *)
(* shares with eligibility and refunds: items, batches, receivables,       *)
(* remittances and the ledger.                                             *)
(*                                                                         *)
(* A request reads rows first and writes in a transaction later, so every  *)
(* request is an actor with a program counter and the values it has read;  *)
(* other requests run between its steps.  A transaction is one step: its   *)
(* guarded updates lock the rows they match until it commits.              *)
(* Money is in minor units of the one currency of the one store modelled;  *)
(* requests for different stores share no row.                             *)
(***************************************************************************)
EXTENDS SettlementStates, FiniteSets, Functions

CONSTANTS
    Items,           \* paid merchant invoices, one settlement item each
    Actors,          \* requests that may be in flight at once
    MaxAmount,       \* bound on the amount of an item, in minor units
    MaxBatches,      \* bound on the batches ever assembled
    MaxReceivables   \* bound on the receivables ever accrued

ASSUME BoundsAssumption == /\ MaxAmount \in Nat \ {0}
                           /\ MaxBatches \in Nat \ {0}
                           /\ MaxReceivables \in Nat

VARIABLES
    item,        \* SettlementItem rows
    batch,       \* SettlementBatch rows; status "none" is no row
    receivable,  \* SettlementReceivable rows; state "none" is no row
    remittance,  \* SettlementRemittance rows: set of [batch, amount]
    ledger,      \* postings: set of [event, key, amount], key is the
                 \* idempotency key
    pc,          \* where each actor's request stands
    target,      \* the batch it works on (0: none)
    seen,        \* the item values it has read: amounts or states
    plan         \* the recovery allocation it has planned

rows == <<item, batch, receivable, remittance, ledger>>
locals == <<pc, target, seen, plan>>
vars == <<item, batch, receivable, remittance, ledger, pc, target, seen, plan>>

Batches == 1..MaxBatches
Receivables == 1..MaxReceivables
Amounts == 0..MaxAmount
PartialFunctions(S, T) == UNION {[D -> T] : D \in SUBSET S}

\* One line of a frozen recovery allocation: what this batch takes from the
\* receivable, and the recovered-so-far it was computed against.
Allocations == [amount : Amounts, at : Amounts]

NoBatchRow == [status |-> "none", composition |-> <<>>, allocation |-> <<>>,
               closure |-> "none", successor |-> 0]
NoReceivable == [state |-> "none", amount |-> 0, recovered |-> 0, staged |-> 0]

Posted(event, key) == \E p \in ledger : p.event = event /\ p.key = key
Posting(event, key, amount) == [event |-> event, key |-> key, amount |-> amount]

\* The items are already paid for: the receipts service creates an item as
\* pending, for the whole amount collected, when its invoice is covered.
Init ==
    /\ item \in [Items -> {[state |-> "pending", batch |-> 0, amount |-> n,
                            collected |-> n, reduced |-> 0, clawed |-> 0] :
                              n \in 1..MaxAmount}]
    /\ batch = [b \in Batches |-> NoBatchRow]
    /\ receivable = [r \in Receivables |-> NoReceivable]
    /\ remittance = {}
    /\ ledger = {}
    /\ pc = [a \in Actors |-> "idle"]
    /\ target = [a \in Actors |-> 0]
    /\ seen = [a \in Actors |-> <<>>]
    /\ plan = [a \in Actors |-> <<>>]

-----------------------------------------------------------------------------
(***************************************************************************)
(* Control of a request.                                                   *)
(***************************************************************************)
Goto(a, label) == pc' = [pc EXCEPT ![a] = label]

Finish(a) ==
    /\ pc' = [pc EXCEPT ![a] = "idle"]
    /\ target' = [target EXCEPT ![a] = 0]
    /\ seen' = [seen EXCEPT ![a] = <<>>]
    /\ plan' = [plan EXCEPT ![a] = <<>>]

\* A refusal, a contended guard that rolls the transaction back, or a crash
\* of the process: the request ends and no row has changed.
GiveUp(a) ==
    /\ pc[a] # "idle"
    /\ Finish(a)
    /\ UNCHANGED rows

-----------------------------------------------------------------------------
(***************************************************************************)
(* Eligibility.  Whether the seven conditions hold is decided by rows this *)
(* module does not hold; the write is guarded on pending and unbound.      *)
(***************************************************************************)
EvaluateEligible(i) ==
    /\ item[i].state = "pending"
    /\ item[i].batch = 0
    /\ item' = [item EXCEPT ![i].state = "eligible"]
    /\ UNCHANGED <<batch, receivable, remittance, ledger, locals>>

-----------------------------------------------------------------------------
(***************************************************************************)
(* Assembly.                                                               *)
(***************************************************************************)
EligibleItems == {i \in Items : item[i].state = "eligible"}

AssembleRead(a) ==
    /\ pc[a] = "idle"
    /\ EligibleItems # {}
    /\ seen' = [seen EXCEPT ![a] = [i \in EligibleItems |-> item[i].amount]]
    /\ Goto(a, "assemble_plan")
    /\ UNCHANGED <<rows, target, plan>>

\* Faulty variant: forgets what earlier batches have recovered.
BalanceIgnoringRecovered(r) == receivable[r].amount

Balance(r) == receivable[r].amount - receivable[r].recovered

Recoverable(r) == /\ receivable[r].state \in {"open", "partially_recovered"}
                  /\ receivable[r].staged = 0

OpenReceivables == {r \in Receivables : Recoverable(r) /\ Balance(r) > 0}

\* planRecovery walks the open receivables oldest first and stops when the
\* budget is spent: one is left with a balance only when it and the older
\* ones have taken the whole budget.
IsRecoveryPlan(take, budget) ==
    /\ \A r \in DOMAIN take : take[r] <= Balance(r)
    /\ SumFunction(take) <= budget
    /\ \A r \in DOMAIN take : take[r] < Balance(r) =>
          SumFunctionOnSet(take, {q \in DOMAIN take : q <= r}) = budget

AssemblePlan(a) ==
    /\ pc[a] = "assemble_plan"
    /\ \E take \in [OpenReceivables -> Amounts] :
          /\ IsRecoveryPlan(take, SumFunction(seen[a]))
          /\ plan' = [plan EXCEPT ![a] =
                [r \in {q \in OpenReceivables : take[q] > 0} |->
                    [amount |-> take[r], at |-> receivable[r].recovered]]]
    /\ Goto(a, "assemble_commit")
    /\ UNCHANGED <<rows, target, seen>>

\* The calculator: net = gross - recovery; no other line is wired yet.
NetAmount(composition, allocation) ==
    SumFunction(composition)
      - SumFunction([r \in DOMAIN allocation |-> allocation[r].amount])

\* grossAmount and netAmount of a batch are frozen with the two snapshots they
\* are computed from, so they are read off them.
Gross(b) == SumFunction(batch[b].composition)
Net(b) == NetAmount(batch[b].composition, batch[b].allocation)

NextBatch(b) == /\ batch[b].status = "none"
                /\ \A c \in Batches : c < b => batch[c].status # "none"

\* Faulty variant: binds by id and amount, whatever the item's state.
BindableAnyState(i, amount) == item[i].amount = amount

\* Faulty variant: drops the amount pin.
BindableUnpinned(i, amount) == item[i].state = "eligible" /\ item[i].batch = 0

Bindable(i, amount) == /\ item[i].state = "eligible"
                       /\ item[i].batch = 0
                       /\ item[i].amount = amount

Stageable(r, at) == Recoverable(r) /\ receivable[r].recovered = at

AssembleCommit(a) ==
    LET composition == seen[a]
        allocation  == plan[a]
    IN  /\ pc[a] = "assemble_commit"
        /\ NetAmount(composition, allocation) >= 0
        /\ \A i \in DOMAIN composition : Bindable(i, composition[i])
        /\ \A r \in DOMAIN allocation : Stageable(r, allocation[r].at)
        /\ \E b \in Batches :
              /\ NextBatch(b)
              /\ batch' = [batch EXCEPT ![b] =
                    [status      |-> "ready",
                     composition |-> composition,
                     allocation  |-> allocation,
                     closure     |-> "none",
                     successor   |-> 0]]
              /\ item' = [i \in Items |->
                    IF i \in DOMAIN composition
                    THEN [item[i] EXCEPT !.state = "ready", !.batch = b]
                    ELSE item[i]]
              /\ receivable' = [r \in Receivables |->
                    IF r \in DOMAIN allocation
                    THEN [receivable[r] EXCEPT !.staged = b]
                    ELSE receivable[r]]
              /\ ledger' = ledger \cup {Posting("started", <<b>>, 0)}
        /\ Finish(a)
        /\ UNCHANGED remittance

-----------------------------------------------------------------------------
(***************************************************************************)
(* The failure lane.  The transition is asserted on the status the request *)
(* read; the update that follows names the row by id only.                 *)
(***************************************************************************)
StatusWrites == [mark_failed |-> "failed", retry |-> "ready", hold |-> "held"]

LoadForStatusWrite(a, b, label) ==
    /\ pc[a] = "idle"
    /\ batch[b].status # "none"
    /\ BatchMay(batch[b].status, StatusWrites[label])
    /\ target' = [target EXCEPT ![a] = b]
    /\ Goto(a, label)
    /\ UNCHANGED <<rows, seen, plan>>

MarkFailed(a, b) == LoadForStatusWrite(a, b, "mark_failed")
Retry(a, b) == LoadForStatusWrite(a, b, "retry")
HoldBatch(a, b) == LoadForStatusWrite(a, b, "hold")

WriteStatus(a) ==
    /\ pc[a] \in DOMAIN StatusWrites
    /\ batch' = [batch EXCEPT ![target[a]].status = StatusWrites[pc[a]]]
    /\ Finish(a)
    /\ UNCHANGED <<item, receivable, remittance, ledger>>

-----------------------------------------------------------------------------
(***************************************************************************)
(* Supersession: load the batch, look for a remittance, read the members,  *)
(* then one transaction that releases items and staged receivables.        *)
(***************************************************************************)
Supersede(a, b) ==
    /\ pc[a] = "idle"
    /\ batch[b].status # "none"
    /\ BatchMay(batch[b].status, "superseded")
    /\ target' = [target EXCEPT ![a] = b]
    /\ Goto(a, "supersede_remitted")
    /\ UNCHANGED <<rows, seen, plan>>

Remitted(b) == \E m \in remittance : m.batch = b

SupersedeCheckRemittance(a) ==
    /\ pc[a] = "supersede_remitted"
    /\ ~Remitted(target[a])
    /\ Goto(a, "supersede_read")
    /\ UNCHANGED <<rows, target, seen, plan>>

SupersedeReadItems(a) ==
    LET members == {i \in Items : item[i].batch = target[a]}
    IN  /\ pc[a] = "supersede_read"
        /\ seen' = [seen EXCEPT ![a] = [i \in members |-> item[i].state]]
        /\ Goto(a, "supersede_commit")
        /\ UNCHANGED <<rows, target, plan>>

\* Faulty variant: releases whatever is bound to the batch, in any state.
ReleasableAnyState(i, b, state, to) == item[i].batch = b

\* The guard of the per-item update and the transition asserted before it.
Releasable(i, b, state, to) == /\ ItemMay(state, to)
                               /\ item[i].batch = b
                               /\ item[i].state = state

\* Faulty variant: supersession leaves the receivables staged.
UnstagedNever(b) == receivable

Unstaged(b) == [r \in Receivables |->
                  IF receivable[r].staged = b
                  THEN [receivable[r] EXCEPT !.staged = 0]
                  ELSE receivable[r]]

\* A second marker for the batch would collide on its idempotency key and
\* roll the transaction back.
SupersedeCommit(a, affected, disposition) ==
    LET b     == target[a]
        To(i) == IF i \in affected THEN disposition ELSE "eligible"
    IN  /\ pc[a] = "supersede_commit"
        /\ affected \subseteq DOMAIN seen[a]
        /\ \A i \in DOMAIN seen[a] : Releasable(i, b, seen[a][i], To(i))
        /\ ~Posted("superseded", <<b>>)
        /\ batch' = [batch EXCEPT ![b].status = "superseded"]
        /\ item' = [i \in Items |->
              IF i \in DOMAIN seen[a]
              THEN [item[i] EXCEPT !.state = To(i), !.batch = 0]
              ELSE item[i]]
        /\ receivable' = Unstaged(b)
        /\ ledger' = ledger \cup {Posting("superseded", <<b>>, 0)}
        /\ Finish(a)
        /\ UNCHANGED remittance

LinkSuccessor(b, c) ==
    /\ b # c
    /\ batch[c].status # "none"
    /\ batch[b].status = "superseded"
    /\ batch[b].successor = 0
    /\ batch' = [batch EXCEPT ![b].successor = c]
    /\ UNCHANGED <<item, receivable, remittance, ledger, locals>>

-----------------------------------------------------------------------------
(***************************************************************************)
(* The two closes: remitted through the bank, or statement-only when the   *)
(* recovery has eaten the whole gross.                                     *)
(***************************************************************************)
LoadForClose(a, b, label) ==
    /\ pc[a] = "idle"
    /\ batch[b].status # "none"
    /\ BatchMay(batch[b].status, "settled")
    /\ target' = [target EXCEPT ![a] = b]
    /\ Goto(a, label)
    /\ UNCHANGED <<rows, seen, plan>>

MarkSettled(a, b) == LoadForClose(a, b, "settle")

MarkSettledZeroNet(a, b) == /\ Net(b) = 0
                            /\ LoadForClose(a, b, "settle_zero_net")

\* Faulty variant: settles without counting the rows it matched.
MembersUncounted(b) == TRUE

MembersReady(b) == \A i \in DOMAIN batch[b].composition :
                      item[i].batch = b /\ item[i].state = "ready"

\* consumeRecoveryAllocation: the state a receivable moves to, and its guard.
Consumed(r, line) == IF receivable[r].amount - line.at - line.amount <= 0
                     THEN "recovered" ELSE "partially_recovered"

Consumable(r, b, line) ==
    /\ \/ receivable[r].state = Consumed(r, line)
       \/ ReceivableMay(receivable[r].state, Consumed(r, line))
    /\ receivable[r].staged = b
    /\ receivable[r].recovered = line.at

CloseBatch(b, closure, remitted) ==
    LET allocation == batch[b].allocation
    IN  /\ batch[b].status = "ready"
        /\ MembersReady(b)
        /\ \A r \in DOMAIN allocation : Consumable(r, b, allocation[r])
        /\ ~Posted("completed", <<b>>)
        /\ batch' = [batch EXCEPT ![b] =
              [batch[b] EXCEPT !.status = "settled", !.closure = closure]]
        /\ item' = [i \in Items |->
              IF i \in DOMAIN batch[b].composition
              THEN [item[i] EXCEPT !.state = "settled"]
              ELSE item[i]]
        /\ remittance' = remittance \cup remitted
        /\ receivable' = [r \in Receivables |->
              IF r \in DOMAIN allocation
              THEN [receivable[r] EXCEPT
                      !.state = Consumed(r, allocation[r]),
                      !.recovered = allocation[r].at + allocation[r].amount,
                      !.staged = 0]
              ELSE receivable[r]]
        /\ ledger' = ledger \cup {Posting("completed", <<b>>, 0)}
              \cup {Posting("recovered", <<r, b>>, allocation[r].amount) :
                      r \in DOMAIN allocation}

SettleCommit(a) ==
    /\ pc[a] = "settle"
    /\ ~Remitted(target[a])
    /\ CloseBatch(target[a], "remitted",
                  {[batch |-> target[a], amount |-> Net(target[a])]})
    /\ Finish(a)

SettleZeroNetCommit(a) ==
    /\ pc[a] = "settle_zero_net"
    /\ CloseBatch(target[a], "zero_net", {})
    /\ Finish(a)

-----------------------------------------------------------------------------
(***************************************************************************)
(* What recording a goods refund does to the item of the invoice, in the   *)
(* refund's own serializable transaction: money that has not left shrinks  *)
(* the item, money that has left makes the merchant a debtor.              *)
(***************************************************************************)
Refunded(i) == item[i].reduced + item[i].clawed

Shrunk(i, amount) == [item[i] EXCEPT !.amount = item[i].amount - amount,
                                     !.reduced = item[i].reduced + amount]

ReduceItem(i, amount) ==
    /\ item[i].state \in {"pending", "eligible", "held"}
    /\ item[i].batch = 0
    /\ item[i].amount - amount >= 0
    /\ item' = [item EXCEPT ![i] = Shrunk(i, amount)]
    /\ UNCHANGED <<batch, receivable, remittance, ledger>>

NextReceivable(r) == /\ receivable[r].state = "none"
                     /\ \A q \in Receivables : q < r => receivable[q].state # "none"

\* Faulty variant: counts refunds that had already shrunk the item.
FullyClawedCountingAll(i, amount) == Refunded(i) + amount >= item[i].amount

\* Only clawbacks after the settlement count towards the reversal.
FullyClawed(i, amount) == item[i].clawed + amount >= item[i].amount

Clawed(i, amount) ==
    [item[i] EXCEPT !.clawed = item[i].clawed + amount,
                    !.state = IF item[i].state = "settled" /\ FullyClawed(i, amount)
                              THEN "reversed" ELSE item[i].state]

ClawBack(i, amount) ==
    /\ item[i].state \in {"settled", "reversed"}
    /\ \E r \in Receivables :
          /\ NextReceivable(r)
          /\ receivable' = [receivable EXCEPT ![r] =
                [state |-> "open", amount |-> amount, recovered |-> 0, staged |-> 0]]
          /\ ledger' = ledger \cup {Posting("accrued", <<r>>, amount)}
    /\ item' = [item EXCEPT ![i] = Clawed(i, amount)]
    /\ UNCHANGED <<batch, remittance>>

RecordRefund(i, amount) ==
    /\ Refunded(i) + amount <= item[i].collected
    /\ ReduceItem(i, amount) \/ ClawBack(i, amount)
    /\ UNCHANGED locals

-----------------------------------------------------------------------------
Assembly(a) == AssembleRead(a) \/ AssemblePlan(a) \/ AssembleCommit(a)

FailureLane(a) ==
    \/ \E b \in Batches : MarkFailed(a, b) \/ Retry(a, b) \/ HoldBatch(a, b)
    \/ WriteStatus(a)

Supersession(a) ==
    \/ \E b \in Batches : Supersede(a, b)
    \/ SupersedeCheckRemittance(a)
    \/ SupersedeReadItems(a)
    \/ \E affected \in SUBSET Items, disposition \in SupersedeDispositions :
          SupersedeCommit(a, affected, disposition)

Closing(a) ==
    \/ \E b \in Batches : MarkSettled(a, b) \/ MarkSettledZeroNet(a, b)
    \/ SettleCommit(a)
    \/ SettleZeroNetCommit(a)

Next ==
    \/ \E i \in Items : EvaluateEligible(i)
    \/ \E i \in Items, amount \in 1..MaxAmount : RecordRefund(i, amount)
    \/ \E b, c \in Batches : LinkSuccessor(b, c)
    \/ \E a \in Actors : \/ Assembly(a) \/ FailureLane(a) \/ Supersession(a)
                         \/ Closing(a) \/ GiveUp(a)

Spec == Init /\ [][Next]_vars

-----------------------------------------------------------------------------
(***************************************************************************)
(* Properties.                                                             *)
(***************************************************************************)
Labels == {"idle", "assemble_plan", "assemble_commit", "mark_failed", "retry",
           "hold", "supersede_remitted", "supersede_read", "supersede_commit",
           "settle", "settle_zero_net"}

BatchOrNone == 0..MaxBatches

ItemRows == [state : ItemStates, batch : BatchOrNone, amount : Amounts,
             collected : Amounts, reduced : Amounts, clawed : Amounts]

BatchRows == [status : BatchStates \cup {"none"},
              composition : PartialFunctions(Items, Amounts),
              allocation : PartialFunctions(Receivables, Allocations),
              closure : {"none", "remitted", "zero_net"},
              successor : BatchOrNone]

ReceivableRows == [state : ReceivableStates \cup {"none"}, amount : Amounts,
                   recovered : Amounts, staged : BatchOrNone]

Assembling(a) == pc[a] \in {"assemble_plan", "assemble_commit"}

\* The shape of the tables and of the requests in flight, with every amount
\* within the amount of one item.
TypeOK ==
    /\ item \in [Items -> ItemRows]
    /\ batch \in [Batches -> BatchRows]
    /\ receivable \in [Receivables -> ReceivableRows]
    /\ pc \in [Actors -> Labels]
    /\ target \in [Actors -> BatchOrNone]
    /\ DOMAIN seen = Actors
    /\ plan \in [Actors -> PartialFunctions(Receivables, Allocations)]
    /\ \A a \in Actors :
          seen[a] \in IF Assembling(a) THEN PartialFunctions(Items, Amounts)
                     ELSE PartialFunctions(Items, ItemStates)

Closed(b) == batch[b].closure # "none"

\* A batch whose items and staged receivables are still bound to it: neither
\* closed nor released by a supersession.
Live(b) == /\ batch[b].status # "none"
           /\ ~Closed(b)
           /\ ~Posted("superseded", <<b>>)

\* The money of one item leaves safeguarding in at most one closed batch,
\* whatever races the assemblies, closes, supersessions and status writes
\* run (the anti-double-pay law of markSettled and supersede).
PaidOnce == \A b, c \in Batches :
    b # c /\ Closed(b) /\ Closed(c) =>
        DOMAIN batch[b].composition \cap DOMAIN batch[c].composition = {}

AccountsFor(b, i) ==
    /\ i \in DOMAIN batch[b].composition
    /\ batch[b].composition[i] = item[i].amount
    /\ IF item[i].state = "ready"
       THEN Live(b) /\ batch[b].status \in {"ready", "failed", "held"}
       ELSE Closed(b) /\ item[i].state \in {"settled", "reversed"}

\* A bound item is accounted for by exactly the batch it names: ready in a
\* live batch that froze it at its present amount, settled or reversed in a
\* closed one.  No ready item is stranded in a batch that can neither settle
\* nor be superseded.
BoundItemsAccountedFor == \A i \in Items :
    /\ item[i].batch = 0 =>
          item[i].state \in {"pending", "eligible", "held", "disputed"}
    /\ \A b \in Batches : item[i].batch = b => AccountsFor(b, i)

\* What a closed batch paid for an item is what was collected for it less
\* what was refunded before the close: a refund that shrinks an item between
\* the assembly's read and its commit never leaves a stale amount frozen.
PaidWhatRemained == \A b \in Batches : Closed(b) =>
    \A i \in DOMAIN batch[b].composition :
        batch[b].composition[i] + item[i].reduced = item[i].collected

\* A started batch is closed by completion or by supersession, never both,
\* and the markers agree with the rows: completed exactly when it closed,
\* remitted exactly when it closed through the bank, for the frozen net.
ClosedOneWay == \A b \in Batches :
    /\ ~(Posted("completed", <<b>>) /\ Posted("superseded", <<b>>))
    /\ Closed(b) <=> Posted("completed", <<b>>)
    /\ batch[b].closure = "remitted" <=>
          \E m \in remittance : m.batch = b /\ m.amount = Net(b)
    /\ Posted("started", <<b>>) <=> batch[b].status # "none"

\* The clawbacks of an item never exceed what the merchant was paid for it,
\* and the item reads reversed exactly when all of it has been clawed back.
ClawbackMatchesPayment == \A i \in Items :
    /\ item[i].clawed <= (IF item[i].batch = 0 THEN 0 ELSE item[i].amount)
    /\ item[i].state \in {"settled", "reversed"} /\ item[i].amount > 0 =>
          (item[i].state = "reversed" <=> item[i].clawed = item[i].amount)

\* How a batch was closed and what was clawed back of it tell one story.
ClosesConsistently == ClosedOneWay /\ ClawbackMatchesPayment

\* Recovery is conserved: what a receivable shows as recovered is the sum of
\* its postings, never more than was accrued, and its state says how far the
\* recovery has gone.
RecoveryConserved == \A r \in Receivables : receivable[r].state # "none" =>
    /\ receivable[r].recovered =
          SumFunction([p \in {q \in ledger : q.event = "recovered" /\ q.key[1] = r}
                         |-> p.amount])
    /\ receivable[r].recovered <= receivable[r].amount
    /\ receivable[r].state = CASE receivable[r].recovered = 0 -> "open"
          [] receivable[r].recovered = receivable[r].amount -> "recovered"
          [] OTHER -> "partially_recovered"

\* A receivable is staged by at most one batch, a live one that planned it
\* against its present recovered-so-far, so the close can always consume it.
StagedByLiveBatch == \A r \in Receivables :
    LET b == receivable[r].staged
    IN  b # 0 => /\ Live(b)
                 /\ r \in DOMAIN batch[b].allocation
                 /\ Consumable(r, b, batch[b].allocation[r])
                 /\ batch[b].allocation[r].amount <= Balance(r)

\* Debts are recovered once: nothing is lost, recovered twice or left staged.
DebtsConserved == RecoveryConserved /\ StagedByLiveBatch

\* A live batch still holds everything it froze: all its items ready and
\* bound, all its receivables staged.  Nothing but a close or a supersession
\* takes a member out.
LiveBatchIsWhole == \A b \in Batches : Live(b) =>
    /\ MembersReady(b)
    /\ \A r \in DOMAIN batch[b].allocation : receivable[r].staged = b

\* Every item moves along the lifecycle table, also the moves the refunds and
\* the eligibility service make.
ItemsMoveLawfully ==
    [][\A i \in Items : item'[i].state # item[i].state =>
          ItemMay(item[i].state, item'[i].state)]_vars

\* The rows as the engine's callers see them.
PhaseOf(b) == CASE batch[b].status = "none" -> "none"
                [] Closed(b) -> "paid"
                [] Posted("superseded", <<b>>) -> "released"
                [] OTHER -> "open"

Contract == INSTANCE SettlementContract WITH
    phase   <- [b \in Batches |-> PhaseOf(b)],
    members <- [b \in Batches |-> DOMAIN batch[b].composition]

\* The engine implements its contract: whatever the requests in flight do, a
\* batch starts with free items, and pays or releases all of them once.
KeepsContract == Contract!Spec

\* Every step moves items along their table and is a step of the contract.
StepsAreLawful == ItemsMoveLawfully /\ KeepsContract

\* "settled and superseded are TERMINAL" (settlement-states.ts): no step takes
\* a batch out of either status.  Not so: a status write by id may follow a
\* close (README, section 6).
TerminalBatchesStay ==
    [][\A b \in Batches : batch[b].status \in {"settled", "superseded"} =>
          batch'[b].status = batch[b].status]_vars

-----------------------------------------------------------------------------
(***************************************************************************)
(* The invariant behind PaidOnce: what the rows and the requests in flight *)
(* must agree on between any two steps.                                    *)
(***************************************************************************)
OnABatch == {"mark_failed", "retry", "hold", "supersede_remitted",
             "supersede_read", "supersede_commit", "settle", "settle_zero_net"}

\* A request that has loaded a batch works on an existing row.
RequestsHoldRows == \A a \in Actors : pc[a] \in OnABatch =>
    target[a] \in Batches /\ batch[target[a]].status # "none"

\* Nothing joins a batch after its assembly, so the members a supersession
\* has read include every item still bound when it commits.
SupersedeSeesMembers == \A a \in Actors : pc[a] = "supersede_commit" =>
    \A i \in Items : item[i].batch = target[a] => i \in DOMAIN seen[a]

\* A planned or frozen allocation takes no more than the receivable holds.
Fits(r, line) == /\ receivable[r].state # "none"
                 /\ line.at + line.amount <= receivable[r].amount

AllocationsFit ==
    /\ \A b \in Batches : \A r \in DOMAIN batch[b].allocation :
          Fits(r, batch[b].allocation[r])
    /\ \A a \in Actors : \A r \in DOMAIN plan[a] : Fits(r, plan[a][r])

\* A batch number not yet used carries no close and no marker.
UnusedIsUnmarked == \A b \in Batches : batch[b].status = "none" =>
    ~Closed(b) /\ ~Posted("superseded", <<b>>)

\* A closed batch keeps its items.
ClosedKeepsItems == \A b \in Batches : Closed(b) =>
    \A i \in DOMAIN batch[b].composition : item[i].batch = b

\* Only refunds before the settlement change the amount of an item.
AmountsAddUp == \A i \in Items : item[i].amount + item[i].reduced = item[i].collected

EngineInv ==
    /\ TypeOK
    /\ RequestsHoldRows
    /\ SupersedeSeesMembers
    /\ AllocationsFit
    /\ UnusedIsUnmarked
    /\ ClosedKeepsItems
    /\ AmountsAddUp
    /\ BoundItemsAccountedFor
    /\ LiveBatchIsWhole

-----------------------------------------------------------------------------
(***************************************************************************)
(* The invariant behind the books: how a batch was closed, what was clawed *)
(* back and what was recovered.                                            *)
(***************************************************************************)
\* Assembly starts from at least one item, so a batch that has been closed or
\* released can be told from its items.
NoEmptyBatch ==
    /\ \A b \in Batches : batch[b].status # "none" => DOMAIN batch[b].composition # {}
    /\ \A a \in Actors : Assembling(a) => DOMAIN seen[a] # {}

\* A remittance is the record of a close through the bank.
RemittancesAreCloses == \A m \in remittance :
    /\ m.batch \in Batches
    /\ batch[m.batch].closure = "remitted"
    /\ m.amount = Net(m.batch)

\* Only money that has left is clawed back.
UnsettledIsUnclawed == \A i \in Items :
    item[i].state \notin {"settled", "reversed"} => item[i].clawed = 0

\* A line of a plan takes something.
LinesTakeSomething ==
    /\ \A b \in Batches : \A r \in DOMAIN batch[b].allocation :
          batch[b].allocation[r].amount > 0
    /\ \A a \in Actors : \A r \in DOMAIN plan[a] : plan[a][r].amount > 0

\* The recovery postings of a receivable, one for each closed batch that took
\* from it.
Recoveries(r) == {q \in ledger : q.event = "recovered" /\ q.key[1] = r}

RecoveriesAreOfCloses ==
    /\ IsFiniteSet(ledger)
    /\ \A p \in ledger : p.event = "recovered" =>
          \E r \in Receivables, b \in Batches, n \in Amounts :
             Closed(b) /\ p = Posting("recovered", <<r, b>>, n)

\* A receivable shows what was posted, also before it is accrued.
RecoveredIsPosted == \A r \in Receivables :
    /\ receivable[r].recovered = SumFunction([p \in Recoveries(r) |-> p.amount])
    /\ receivable[r].state = "none" => receivable[r].recovered = 0 /\ receivable[r].staged = 0
    /\ receivable[r].state # "none" => receivable[r].amount > 0

BooksInv ==
    /\ NoEmptyBatch
    /\ ClosesConsistently
    /\ RemittancesAreCloses
    /\ UnsettledIsUnclawed
    /\ LinesTakeSomething
    /\ RecoveriesAreOfCloses
    /\ RecoveredIsPosted
    /\ DebtsConserved
=============================================================================
