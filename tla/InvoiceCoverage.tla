-------------------------- MODULE InvoiceCoverage ---------------------------
(***************************************************************************)
(* How an invoice gets paid (settlement-receipts.service.ts) while its fee *)
(* may be credited or refunded (recordFeeRefund): receipts and refunds are *)
(* serializable transactions; coverage is derived afterwards from what has *)
(* been committed, in separate statements, by whichever request gets       *)
(* there; a retry of a recorded receipt or refund derives it again.        *)
(*                                                                         *)
(* Invoices share no row, so one is modelled.  A serializable transaction  *)
(* is one step, but for the invoice status: the flip to paid is a plain    *)
(* update that the transactions do not serialise with, so they decide on   *)
(* the status their snapshot showed when they began.                       *)
(***************************************************************************)
EXTENDS VatArithmetic, FiniteSets

CONSTANTS
    Charge,       \* the amount charged, before VAT
    Amounts,      \* amounts a caller may submit
    References,   \* bank references of receipts and evidence of refunds
    Actors,       \* requests that may be in flight at once
    MaxCrashes    \* bound on the requests that die

ASSUME CoverageAssumption == /\ Charge \in Nat \ {0}
                             /\ Amounts \subseteq Nat \ {0}
                             /\ MaxCrashes \in Nat

VARIABLES
    kind,      \* merchant_invoice (goods) or corporate_invoice (the fee)
    status,    \* issued or paid
    balance,   \* balanceStatus of a corporate invoice
    receipt,   \* PaymentReceipt rows: [ref, amount]
    refund,    \* SettlementRefund rows of a fee: [ref, amount, vat, cash]
    revenue,   \* amounts of the revenue posting, keyed by the invoice
    item,      \* whether the settlement item of a goods invoice exists
    audit,     \* keys of the guaranteed audit rows
    request,   \* each actor's request
    crashes

money == <<status, balance, receipt, refund, revenue, item>>
vars == <<kind, status, balance, receipt, refund, revenue, item, audit, request,
          crashes>>

Invoice == Taxed(Charge, FALSE)
Corporate == kind = "corporate_invoice"

Sum(set) == MapThenSumSet(LAMBDA r : r.amount, set)
VatSum(set) == MapThenSumSet(LAMBDA r : r.vat, set)
NetSum(set) == MapThenSumSet(LAMBDA r : r.amount - r.vat, set)

Received == Sum(receipt)
Credits == {r \in refund : ~r.cash}
Credited == Sum(Credits)
CashBack == Sum({r \in refund : r.cash})

NoRequest == [pc |-> "idle", ref |-> "none", amount |-> 0, loaded |-> "none",
              got |-> 0, known |-> FALSE, then |-> "idle"]

Init == /\ kind \in {"merchant_invoice", "corporate_invoice"}
        /\ status = "issued"
        /\ balance = "open"
        /\ receipt = {}
        /\ refund = {}
        /\ revenue = {}
        /\ item = FALSE
        /\ audit = {}
        /\ request = [a \in Actors |-> NoRequest]
        /\ crashes = 0

Goto(a, label) == request' = [request EXCEPT ![a].pc = label]

\* Where a request stands that has nothing left to do.
Done(a) == request' = [request EXCEPT ![a] = NoRequest]

\* After the derivation: the rest of a retried refund, or nothing.
Derived(a) == IF request[a].then = "idle" THEN Done(a)
              ELSE request' = [request EXCEPT ![a].pc = request[a].then,
                                              ![a].then = "idle"]

Keep(unchanged) == UNCHANGED <<kind, crashes>> /\ UNCHANGED unchanged

Recorded(rows, ref) == \E r \in rows : r.ref = ref
SameRow(rows, ref, amount) == \E r \in rows : r.ref = ref /\ r.amount = amount

Begin(a, ref, amount, label, rows) ==
    /\ request[a].pc = "idle"
    /\ request' = [request EXCEPT ![a] =
          [pc |-> label, ref |-> ref, amount |-> amount, loaded |-> status,
           got |-> 0, known |-> Recorded(rows, ref), then |-> "idle"]]
    /\ Keep(<<money, audit>>)

-----------------------------------------------------------------------------
(***************************************************************************)
(* Receipts.                                                               *)
(***************************************************************************)
ReceiptBegin(a, ref, amount) == Begin(a, ref, amount, "receipt", receipt)

\* Faulty variant: the balance forgets the credits.
OwedBeforeCredits == Invoice.total

\* The effective total of the invoice.
Owed == Invoice.total - (IF Corporate THEN Credited ELSE 0)

ReceiptNew(a) ==
    LET r == request[a]
    IN  /\ r.pc = "receipt"
        /\ ~Recorded(receipt, r.ref)
        /\ r.loaded = "issued"
        /\ Received + r.amount <= Owed
        /\ receipt' = receipt \cup {[ref |-> r.ref, amount |-> r.amount]}
        /\ Goto(a, "receipt_audit")
        /\ Keep(<<status, balance, refund, revenue, item, audit>>)

\* The reference exists and means the same transfer.  A transaction that finds
\* the row goes on to the derivation; one whose insert collides with a
\* concurrent one is either retried, and finds it, or delivers the audit first.
ReceiptReplay(a) ==
    LET r == request[a]
    IN  /\ r.pc = "receipt"
        /\ SameRow(receipt, r.ref, r.amount)
        /\ \/ Goto(a, "derive")
           \/ ~r.known /\ Goto(a, "receipt_audit")
        /\ Keep(<<money, audit>>)

ReceiptAudit(a) ==
    /\ request[a].pc = "receipt_audit"
    /\ audit' = audit \cup {<<"receipt", request[a].ref>>}
    /\ Goto(a, "derive")
    /\ Keep(money)

-----------------------------------------------------------------------------
(***************************************************************************)
(* Fee refunds: a credit before payment, cash after it.                    *)
(***************************************************************************)
RefundBegin(a, ref, amount) ==
    /\ Corporate
    /\ Begin(a, ref, amount, "refund", refund)

\* Faulty variant: credits are capped by the total only.
CreditWithinTotal(amount) == TRUE

\* A credit reduces only the unpaid part.
CreditWithinUnpaid(amount) == Sum(refund) + amount <= Invoice.total - Received

\* Cash returned never exceeds what was collected.
CashWithinCollected(amount) == CashBack + amount <= Received

RefundNew(a) ==
    LET r    == request[a]
        cash == r.loaded = "paid"
        vat  == VatComponent(Invoice, Sum(refund), VatSum(refund), r.amount)
    IN  /\ r.pc = "refund"
        /\ ~Recorded(refund, r.ref)
        /\ Sum(refund) + r.amount <= Invoice.total
        /\ IF cash THEN CashWithinCollected(r.amount) ELSE CreditWithinUnpaid(r.amount)
        /\ refund' = refund \cup
              {[ref |-> r.ref, amount |-> r.amount, vat |-> vat, cash |-> cash]}
        /\ Goto(a, "note_audit")
        /\ Keep(<<status, balance, receipt, revenue, item, audit>>)

CreditRef(ref) == \E r \in Credits : r.ref = ref

RefundReplay(a) ==
    LET r == request[a]
    IN  /\ r.pc = "refund"
        /\ SameRow(refund, r.ref, r.amount)
        /\ request' = [request EXCEPT
              ![a].pc = IF CreditRef(r.ref) THEN "derive" ELSE "refund_reaudit",
              ![a].then = IF CreditRef(r.ref) THEN "refund_reaudit" ELSE "idle"]
        /\ Keep(<<money, audit>>)

NoteAudit(a) ==
    /\ request[a].pc = "note_audit"
    /\ audit' = audit \cup {<<"note", request[a].ref>>}
    /\ Goto(a, "refund_audit")
    /\ Keep(money)

RefundAudit(a) ==
    /\ request[a].pc \in {"refund_audit", "refund_reaudit"}
    /\ audit' = audit \cup {<<"refund", request[a].ref>>}
    /\ IF request[a].pc = "refund_audit" /\ CreditRef(request[a].ref)
       THEN Goto(a, "derive") ELSE Done(a)
    /\ Keep(money)

-----------------------------------------------------------------------------
(***************************************************************************)
(* deriveAndApplyCoverage, statement by statement.                         *)
(***************************************************************************)
DeriveLoad(a) ==
    /\ request[a].pc = "derive"
    /\ request' = [request EXCEPT ![a].pc = "receipts", ![a].loaded = status]
    /\ Keep(<<money, audit>>)

DeriveReceipts(a) ==
    /\ request[a].pc = "receipts"
    /\ request' = [request EXCEPT ![a].pc = "credits", ![a].got = Received]
    /\ Keep(<<money, audit>>)

\* Faulty variant: credits alone can pay an invoice.
CoveredByAnything(got) == got >= Owed

\* An amount received is positive: a sum of zero is no receipt.
CoveredByPayment(got) == got > 0 /\ got >= Owed

CoveredByCredit(got) == /\ ~CoveredByPayment(got)
                        /\ Corporate /\ Owed <= 0 /\ Credited > 0

\* Faulty variant: a paid invoice needs nothing more.
BranchPaidDone(loaded, got) ==
    CASE loaded = "paid" -> "idle"
      [] CoveredByCredit(got) -> "credit_close"
      [] OTHER -> IF CoveredByPayment(got) THEN "flip" ELSE "idle"

\* The branch taken, from the receipts read before and the credits read now.
Branch(loaded, got) ==
    CASE CoveredByCredit(got) -> "credit_close"
      [] ~CoveredByCredit(got) /\ Corporate /\ ~CoveredByPayment(got) /\ Credited > 0
           -> "mark_partial"
      [] OTHER -> IF loaded = "paid" THEN "heal_artifacts"
                  ELSE IF CoveredByPayment(got) THEN "flip" ELSE "idle"

DeriveCredits(a) ==
    LET next == Branch(request[a].loaded, request[a].got)
    IN  /\ request[a].pc = "credits"
        /\ IF next = "idle" THEN Derived(a) ELSE Goto(a, next)
        /\ Keep(<<money, audit>>)

\* The audit follows only the write that closed the balance: the invoice this
\* service loads carries no balanceStatus to recognise an earlier one by.
CreditClose(a) ==
    /\ request[a].pc = "credit_close"
    /\ IF status = "issued" /\ balance # "closed_by_credit"
       THEN balance' = "closed_by_credit" /\ Goto(a, "credit_audit")
       ELSE Derived(a) /\ UNCHANGED balance
    /\ Keep(<<status, receipt, refund, revenue, item, audit>>)

CreditAudit(a) ==
    /\ request[a].pc = "credit_audit"
    /\ audit' = audit \cup {<<"closed_by_credit">>}
    /\ Derived(a)
    /\ Keep(money)

MarkPartial(a) ==
    /\ request[a].pc = "mark_partial"
    /\ balance' = IF balance = "open" THEN "partially_credited" ELSE balance
    /\ IF request[a].loaded = "paid" THEN Goto(a, "heal_artifacts") ELSE Derived(a)
    /\ Keep(<<status, receipt, refund, revenue, item, audit>>)

\* The guarded flip; only its winner goes on to the audit.
Flip(a) ==
    /\ request[a].pc = "flip"
    /\ IF status = "issued"
       THEN /\ status' = "paid"
            /\ balance' = IF Corporate THEN "closed_by_payment" ELSE balance
            /\ Goto(a, "paid_audit")
       ELSE UNCHANGED <<status, balance>> /\ Goto(a, "artifacts")
    /\ Keep(<<receipt, refund, revenue, item, audit>>)

PaidAudit(a) ==
    /\ request[a].pc \in {"paid_audit", "heal_audit"}
    /\ audit' = audit \cup {<<"paid">>}
    /\ Goto(a, IF request[a].pc = "paid_audit" THEN "artifacts" ELSE "heal_stamp")
    /\ Keep(money)

\* Revenue is the fee less the net of the credits.
Earned == Max({0, Charge - NetSum(Credits)})

\* ensureCoverageArtifacts: both are created at most once, by their key.
Artifacts(a) ==
    /\ request[a].pc \in {"artifacts", "heal_artifacts"}
    /\ IF Corporate
       THEN /\ revenue' = IF Earned > 0 /\ revenue = {} THEN {Earned} ELSE revenue
            /\ UNCHANGED item
       ELSE item' = TRUE /\ UNCHANGED revenue
    /\ IF request[a].pc = "artifacts" THEN Derived(a) ELSE Goto(a, "heal_audit")
    /\ Keep(<<status, balance, receipt, refund, audit>>)

HealStamp(a) ==
    /\ request[a].pc = "heal_stamp"
    /\ balance' = IF Corporate /\ status = "paid" /\ balance = "open"
                  THEN "closed_by_payment" ELSE balance
    /\ Derived(a)
    /\ Keep(<<status, receipt, refund, revenue, item, audit>>)

-----------------------------------------------------------------------------
\* A transaction whose guards refuse it: no row has changed.
Refuse(a) ==
    /\ request[a].pc \in {"receipt", "refund"}
    /\ Done(a)
    /\ Keep(<<money, audit>>)

Crash(a) ==
    /\ request[a].pc \notin {"idle", "receipt", "refund"}
    /\ crashes < MaxCrashes
    /\ crashes' = crashes + 1
    /\ Done(a)
    /\ UNCHANGED <<kind, money, audit>>

Derivation(a) ==
    \/ DeriveLoad(a) \/ DeriveReceipts(a) \/ DeriveCredits(a)
    \/ CreditClose(a) \/ CreditAudit(a)
    \/ MarkPartial(a) \/ Flip(a) \/ PaidAudit(a) \/ Artifacts(a) \/ HealStamp(a)

Receiving(a) == ReceiptNew(a) \/ ReceiptReplay(a) \/ ReceiptAudit(a)
Refunding(a) == RefundNew(a) \/ RefundReplay(a) \/ NoteAudit(a) \/ RefundAudit(a)

Next ==
    \/ \E a \in Actors, ref \in References, amount \in Amounts :
          ReceiptBegin(a, ref, amount) \/ RefundBegin(a, ref, amount)
    \/ \E a \in Actors : Receiving(a) \/ Refunding(a) \/ Derivation(a)
                       \/ Refuse(a) \/ Crash(a)

Spec == Init /\ [][Next]_vars

\* Operators submit again what they have recorded, every receipt and every
\* refund, by its evidence; a transaction that could commit is not aborted by
\* conflicts for ever, and a request that is not lost runs on.
Retry(ref, rows, label) ==
    \E a \in Actors : \E r \in rows :
        r.ref = ref /\ Begin(a, ref, r.amount, label, rows)

Fairness ==
    /\ \A a \in Actors :
          WF_vars(Receiving(a) \/ Refunding(a) \/ Derivation(a) \/ Refuse(a))
    /\ \A ref \in References :
          /\ SF_vars(\E a \in Actors : request[a].ref = ref /\ Receiving(a))
          /\ SF_vars(\E a \in Actors : request[a].ref = ref /\ Refunding(a))
          /\ SF_vars(Retry(ref, receipt, "receipt"))
          /\ SF_vars(Retry(ref, refund, "refund"))

FairSpec == Spec /\ Fairness

-----------------------------------------------------------------------------
(***************************************************************************)
(* Properties.                                                             *)
(***************************************************************************)
\* The shape of the rows and of the requests in flight.
TypeOK ==
    /\ status \in {"issued", "paid"}
    /\ balance \in {"open", "partially_credited", "closed_by_credit",
                    "closed_by_payment"}
    /\ receipt \subseteq [ref : References, amount : Amounts]
    /\ refund \subseteq [ref : References, amount : Amounts, vat : 0..Invoice.vat,
                         cash : BOOLEAN]
    /\ revenue \subseteq 1..Charge /\ Cardinality(revenue) <= 1
    /\ item \in BOOLEAN
    /\ \A a \in Actors : request[a].pc = "idle" => request[a] = NoRequest

\* Money collected and credit granted together never exceed the invoice, and
\* cash returned never exceeds the cash collected, though receipts and refunds
\* race each other and the flip to paid.
NeverOverCollected ==
    /\ Received + Credited <= Invoice.total
    /\ CashBack <= Received
    /\ \A r, s \in receipt : r.ref = s.ref => r = s

\* Payment and balance are separate facts: paid means receipts reached what is
\* owed; a balance closed by credit is all credit, on an invoice never paid.
PaidByMoneyOnly ==
    /\ status = "paid" => receipt # {} /\ Received >= Owed
    /\ balance = "closed_by_payment" <=> Corporate /\ status = "paid"
    /\ balance = "closed_by_credit" => Credited = Invoice.total /\ receipt = {}

\* The revenue posted is what the credits have left of the fee, for ever: no
\* credit slips in after the recognition.
RevenueIsEarned == revenue # {} => status = "paid" /\ revenue = {Earned}

\* What an invoice's rows say of its money, however receipts, fee refunds and
\* the flip to paid overlap.
CoverageIsEarned ==
    /\ TypeOK
    /\ NeverOverCollected
    /\ PaidByMoneyOnly
    /\ RevenueIsEarned

Settled == /\ status = "paid"
           /\ Corporate => revenue # {} \/ Earned = 0
           /\ ~Corporate => item
           /\ <<"paid">> \in audit

\* A covered invoice is eventually paid with its artifacts and its audit,
\* whichever request dies between the receipt and the end of the derivation.
CoverageCompletes == CoveredByPayment(Received) ~> Settled

\* "the operator's retry replays the receipt by evidence identity and the
\* replay lane heals the audit" (recordReceipt): a recorded receipt is
\* eventually audited.  Not so after a crash (README, section 6).
ReceiptsAudited == \A ref \in References :
    Recorded(receipt, ref) ~> <<"receipt", ref>> \in audit

\* "a lost audit after a committed flip is re-delivered on ANY later
\* re-derive" (deriveAndApplyCoverage): a balance closed by credit is
\* eventually audited.  Not so after a crash (README, section 6).
CreditClosesAudited ==
    balance = "closed_by_credit" ~> <<"closed_by_credit">> \in audit

-----------------------------------------------------------------------------
(***************************************************************************)
(* The inductive invariant.                                                *)
(***************************************************************************)
Labels == {"idle", "receipt", "receipt_audit", "refund", "note_audit", "refund_audit",
           "refund_reaudit", "derive", "receipts", "credits", "credit_close",
           "credit_audit", "mark_partial", "flip", "paid_audit", "artifacts",
           "heal_artifacts", "heal_audit", "heal_stamp"}

RequestRows == [pc : Labels, ref : References \cup {"none"}, amount : Amounts \cup {0},
                loaded : {"none", "issued", "paid"}, got : Nat, known : BOOLEAN,
                then : {"idle", "refund_reaudit"}]

\* What a request has read or done still holds when it acts on it.
StillHolds(r) ==
    /\ r.loaded = "paid" => status = "paid"
    /\ r.pc \in {"receipt", "refund"} =>
          r.ref \in References /\ r.amount \in Amounts /\ r.loaded # "none"
    /\ r.pc = "refund" => Corporate
    /\ r.pc = "credits" => r.got <= Received
    /\ r.pc = "credit_close" => Credited = Invoice.total
    /\ r.pc = "flip" => receipt # {} /\ Received >= Owed
    /\ r.pc \in {"paid_audit", "artifacts", "heal_artifacts"} => status = "paid"

\* Only a fee is refunded here, and no refund carries more VAT than money.
RefundsFit == /\ refund # {} => Corporate
              /\ \A r \in refund : r.vat <= r.amount

CoverageInv ==
    /\ CoverageIsEarned
    /\ IsFiniteSet(receipt) /\ IsFiniteSet(refund)
    /\ RefundsFit
    /\ request \in [Actors -> RequestRows]
    /\ \A a \in Actors : StillHolds(request[a])
=============================================================================
