------------------------- MODULE CorporateInvoicing -------------------------
(***************************************************************************)
(* The two documents of an approved campaign and their ledger entries      *)
(* (invoice.service.ts, merchant-invoice.service.ts, the tail of           *)
(* approveCampaign, ledger-reconciliation.service.ts).                     *)
(*                                                                         *)
(* An approval freezes the price, then issues Qift's service invoice and   *)
(* the merchant's goods invoice, each best effort and followed by its      *)
(* posting.  The two issuers differ only in the QC series the first one    *)
(* draws its number from, so they are one set of actions over `leg'.  An   *)
(* amount is the price it was computed from.                               *)
(***************************************************************************)
EXTENDS Integers, FiniteSets

CONSTANTS
    Deals,       \* campaigns that come up for approval
    Approvals,   \* approvals in flight at once
    Clerks,      \* operators recording the merchant's own invoice number
    Numbers,     \* numbers the merchant may have supplied
    MaxPrice,    \* bound on the changes of the product's price
    MaxFaults    \* bound on failed writes and requests cut off

ASSUME InvoicingAssumption == IsFiniteSet(Deals) /\ MaxPrice \in Nat \ {0} /\ MaxFaults \in Nat

VARIABLES
    deal,        \* GiftCampaign.status as the issuers see it
    price,       \* Product.price
    snapshot,    \* CampaignGiftOption.approvalSnapshot, 0 for none
    series,      \* NumberSequence.lastValue of the QC series
    invoice,     \* the issued documents: number in the series and price
    posted,      \* amount posted under the key of a document, 0 for none
    legal,       \* MerchantInvoice's legal reference fields
    approval,    \* approvals in flight
    clerk,       \* attachments in flight
    sweep,       \* repairAll: what it has found missing, what had been issued
    faults

documents == <<series, invoice, posted>>
invoicingVars == <<deal, price, snapshot, documents, legal, approval, clerk, sweep, faults>>

InvoiceLegs == {"service", "goods"}
Keys == InvoiceLegs \X Deals
NoDocument == [num |-> 0, price |-> 0]
NoApproval == [pc |-> "idle", of |-> "none", leg |-> "service", price |-> 0]
NoReference == [number |-> "none", source |-> "merchant", mandate |-> FALSE]
NoClerk == [of |-> "none", to |-> NoReference]
NoSweep == [pc |-> "idle", missing |-> {}, issued |-> {}]
Issued == {k \in Keys : invoice[k] # NoDocument}
Leg(a) == <<approval[a].leg, approval[a].of>>

InvoicingInit ==
    /\ deal = [d \in Deals |-> "pending"] /\ price = 1
    /\ snapshot = [d \in Deals |-> 0]
    /\ series = 0
    /\ invoice = [k \in Keys |-> NoDocument] /\ posted = [k \in Keys |-> 0]
    /\ legal = [d \in Deals |-> NoReference]
    /\ approval = [a \in Approvals |-> NoApproval] /\ clerk = [c \in Clerks |-> NoClerk]
    /\ sweep = NoSweep /\ faults = 0

Fault == faults < MaxFaults /\ faults' = faults + 1

PriceChanges ==
    /\ price < MaxPrice /\ price' = price + 1
    /\ UNCHANGED <<deal, snapshot, documents, legal, approval, clerk, sweep, faults>>

\* The campaign is dispatched or cancelled.
DealLeaves(d) ==
    /\ deal[d] = "approved" /\ deal' = [deal EXCEPT ![d] = "left"]
    /\ UNCHANGED <<price, snapshot, documents, legal, approval, clerk, sweep, faults>>

ApprovalLoads(a, d) ==
    /\ approval[a] = NoApproval /\ deal[d] = "pending"
    /\ approval' = [approval EXCEPT ![a] = [pc |-> "freeze", of |-> d, leg |-> "service", price |-> price]]
    /\ UNCHANGED <<deal, price, snapshot, documents, legal, clerk, sweep, faults>>

\* Status and snapshot in one transaction, by id.
ApprovalFreezes(a) ==
    /\ approval[a].pc = "freeze"
    /\ deal' = [deal EXCEPT ![approval[a].of] = "approved"]
    /\ snapshot' = [snapshot EXCEPT ![approval[a].of] = approval[a].price]
    /\ approval' = [approval EXCEPT ![a].pc = "ensure"]
    /\ UNCHANGED <<price, documents, legal, clerk, sweep, faults>>

\* A failed issuance is logged; the other leg is tried all the same.
NextLeg(a) ==
    approval' = [approval EXCEPT ![a] =
        IF approval[a].leg = "service" THEN [@ EXCEPT !.pc = "ensure", !.leg = "goods"] ELSE NoApproval]

\* The fast path, the status check and the snapshot the amounts come from.
EnsureReads(a) ==
    /\ approval[a].pc = "ensure"
    /\ IF Leg(a) \notin Issued /\ deal[approval[a].of] = "approved"
       THEN approval' = [approval EXCEPT ![a].pc = "issue", ![a].price = snapshot[approval[a].of]]
       ELSE NextLeg(a)
    /\ UNCHANGED <<deal, price, snapshot, documents, legal, clerk, sweep, faults>>

NumberedOutside(created) == series + 1

\* The number is drawn in the transaction that creates the row: it is given
\* back when the create fails.
SeriesAfter(created) == IF created THEN series + 1 ELSE series

\* One transaction: the row is created, or it exists already (a racing approval
\* was first, whose document is returned), or the write fails.
IssueDocument(a) ==
    /\ approval[a].pc = "issue"
    /\ LET k == Leg(a)
           num == IF approval[a].leg = "service" THEN series + 1 ELSE 0
       IN \/ /\ k \notin Issued
             /\ invoice' = [invoice EXCEPT ![k] = [num |-> num, price |-> approval[a].price]]
             /\ series' = IF approval[a].leg = "service" THEN SeriesAfter(TRUE) ELSE series
             /\ approval' = [approval EXCEPT ![a].pc = "post"]
             /\ faults' = faults
          \/ /\ k \in Issued \/ faults < MaxFaults
             /\ faults' = IF k \in Issued THEN faults ELSE faults + 1
             /\ series' = IF approval[a].leg = "service" THEN SeriesAfter(FALSE) ELSE series
             /\ NextLeg(a) /\ invoice' = invoice
    /\ UNCHANGED <<deal, price, snapshot, posted, legal, clerk, sweep>>

\* FinancialLedgerService.record: a key that exists keeps its entry.
Record(k, amount) == posted' = IF posted[k] = 0 THEN [posted EXCEPT ![k] = amount] ELSE posted

\* recordReceivableLedger and recordGoodsInvoicedLedger swallow a failure.
PostDocument(a) ==
    /\ approval[a].pc = "post"
    /\ \/ Record(Leg(a), invoice[Leg(a)].price) /\ faults' = faults
       \/ Fault /\ posted' = posted
    /\ NextLeg(a)
    /\ UNCHANGED <<deal, price, snapshot, series, invoice, legal, clerk, sweep>>

ApprovalCutOff(a) ==
    /\ approval[a] # NoApproval /\ Fault
    /\ approval' = [approval EXCEPT ![a] = NoApproval]
    /\ UNCHANGED <<deal, price, snapshot, documents, legal, clerk, sweep>>

-----------------------------------------------------------------------------
MissingByDeal == {k \in Issued : \A l \in InvoiceLegs : posted[<<l, k[2]>>] = 0}

\* missingCorporateInvoicePostings and missingMerchantInvoicePostings: each
\* kind of document against the entries of its own reason.
MissingPostings == {k \in Issued : posted[k] = 0}

RepairAll ==
    /\ sweep.pc # "repairing"
    /\ sweep' = [pc |-> "repairing", missing |-> MissingPostings, issued |-> Issued]
    /\ UNCHANGED <<deal, price, snapshot, documents, legal, approval, clerk, faults>>

FromTheSnapshot(k) == snapshot[k[2]]

\* From the persisted document, never from the live campaign.
RepairAmount(k) == invoice[k].price

RepairInvoice(k) ==
    /\ sweep.pc = "repairing" /\ k \in sweep.missing
    /\ Record(k, RepairAmount(k))
    /\ sweep' = [sweep EXCEPT !.missing = @ \ {k}]
    /\ UNCHANGED <<deal, price, snapshot, series, invoice, legal, approval, clerk, faults>>

\* The sweep is done with its list, or a repair throws and the rest is left.
RepairEnds ==
    /\ sweep.pc = "repairing"
    /\ \/ sweep.missing = {} /\ sweep' = [sweep EXCEPT !.pc = "swept"] /\ faults' = faults
       \/ sweep.missing # {} /\ Fault /\ sweep' = NoSweep
    /\ UNCHANGED <<deal, price, snapshot, documents, legal, approval, clerk>>

-----------------------------------------------------------------------------
MandateForgotten(ref) == TRUE

\* An invoice Qift issues on the merchant's behalf names its mandate.
Mandated(ref) == ref.source = "on_behalf" => ref.mandate

\* attachLegalReference: what the row will say, checked against the row as
\* loaded; a number once set is kept with its source.
AttachLoads(c, d, in) ==
    LET row == legal[d]
        to == [number |-> IF row.number = "none" THEN in.number ELSE row.number,
               source |-> in.source, mandate |-> in.mandate \/ row.mandate]
    IN /\ clerk[c] = NoClerk /\ <<"goods", d>> \in Issued
       /\ Mandated(to)
       /\ row.number # "none" => in.number \in {"none", row.number} /\ in.source = row.source
       /\ clerk' = [clerk EXCEPT ![c] = [of |-> d, to |-> to]]
       /\ UNCHANGED <<deal, price, snapshot, documents, legal, approval, sweep, faults>>

AttachWrites(c) ==
    /\ clerk[c] # NoClerk
    /\ legal' = [legal EXCEPT ![clerk[c].of] = clerk[c].to]
    /\ clerk' = [clerk EXCEPT ![c] = NoClerk]
    /\ UNCHANGED <<deal, price, snapshot, documents, approval, sweep, faults>>

References == [number : Numbers \cup {"none"}, source : {"merchant", "on_behalf"}, mandate : BOOLEAN]

InvoicingNext ==
    \/ PriceChanges \/ RepairAll \/ RepairEnds
    \/ \E d \in Deals : DealLeaves(d)
    \/ \E k \in Keys : RepairInvoice(k)
    \/ \E a \in Approvals : \/ \E d \in Deals : ApprovalLoads(a, d)
                            \/ ApprovalFreezes(a) \/ EnsureReads(a) \/ IssueDocument(a)
                            \/ PostDocument(a) \/ ApprovalCutOff(a)
    \/ \E c \in Clerks : \/ \E d \in Deals, in \in References : AttachLoads(c, d, in)
                         \/ AttachWrites(c)

InvoicingSpec == InvoicingInit /\ [][InvoicingNext]_invoicingVars

-----------------------------------------------------------------------------
\* Type invariant of the documents and of the requests.
InvoicingTypeOK ==
    /\ deal \in [Deals -> {"pending", "approved", "left"}]
    /\ price \in 1..MaxPrice /\ snapshot \in [Deals -> 0..MaxPrice]
    /\ series \in 0..Cardinality(Deals) /\ faults \in 0..MaxFaults
    /\ invoice \in [Keys -> [num : Nat, price : 0..MaxPrice]] /\ posted \in [Keys -> 0..MaxPrice]
    /\ legal \in [Deals -> References]
    /\ approval \in [Approvals -> [pc : {"idle", "freeze", "ensure", "issue", "post"},
                                   of : Deals \cup {"none"}, leg : InvoiceLegs, price : 0..MaxPrice]]
    /\ clerk \in [Clerks -> [of : Deals \cup {"none"}, to : References]]
    /\ sweep \in [pc : {"idle", "repairing", "swept"}, missing : SUBSET Keys, issued : SUBSET Keys]

\* The QC numbers in use are exactly 1..n, each on one invoice, whatever the
\* races between approvals and the writes that fail: "the legal series stays
\* gap-free".
SeriesGapFree ==
    LET numbered == {k \in Issued : k[1] = "service"}
    IN /\ {invoice[k].num : k \in numbered} = 1..series
       /\ Cardinality(numbered) = series

\* Whoever posts it, an approval or a repair long after the price has moved,
\* the ledger holds one entry per document and for the document's amount.
PostedAsIssued == \A k \in Keys : posted[k] # 0 => k \in Issued /\ posted[k] = invoice[k].price

\* A sweep that ran to its end has left no document without its posting of
\* those that were issued when it began, of either kind.
SweptMeansPosted == sweep.pc = "swept" => \A k \in sweep.issued : posted[k] # 0

\* Two operators attaching references over each other never leave an on-behalf
\* invoice without its mandate.
OnBehalfIsMandated == \A d \in Deals : legal[d].source = "on_behalf" => legal[d].mandate

\* Documents, series, ledger and mandates agree, through races, faults and
\* repairs.
DocumentsAgree ==
    /\ InvoicingTypeOK
    /\ SeriesGapFree
    /\ PostedAsIssued
    /\ SweptMeansPosted
    /\ OnBehalfIsMandated

\* "merchantInvoiceNumber is IMMUTABLE once set": does not hold, the update is
\* by id and takes the number it loaded (README, section 6).
NumberImmutable ==
    [][\A d \in Deals : legal[d].number # "none" => legal'[d].number = legal[d].number]_invoicingVars

\* The goods invoice reads "the same snapshot the Qift service invoice reads":
\* not when two approvals overlap a price change (README, section 6).
OneSnapshotForBoth ==
    \A d \in Deals : {<<"service", d>>, <<"goods", d>>} \subseteq Issued
                         => invoice[<<"service", d>>].price = invoice[<<"goods", d>>].price

-----------------------------------------------------------------------------
(***************************************************************************)
(* The inductive invariant: prices are frozen before a document is issued, *)
(* a document has an amount, and what the requests and the sweep carry.    *)
(***************************************************************************)
ApprovalFits(a) ==
    /\ approval[a].pc # "idle" => approval[a].of \in Deals
    /\ approval[a].pc \in {"freeze", "issue"} => approval[a].price # 0
    /\ approval[a].pc = "post" => Leg(a) \in Issued

ClerkFits(c) ==
    /\ clerk[c] = NoClerk \/ clerk[c].of \in Deals
    /\ Mandated(clerk[c].to)

RepairFits ==
    /\ sweep.missing \subseteq Issued
    /\ sweep.pc = "repairing" => \A k \in sweep.issued \ sweep.missing : posted[k] # 0

\* The campaigns with a service invoice, counted apart from their invoices.
Invoiced == {d \in Deals : <<"service", d>> \in Issued}

\* DocumentsAgree with what the requests under way carry.
InvoicingInv ==
    /\ DocumentsAgree
    /\ \A d \in Deals : deal[d] # "pending" => snapshot[d] # 0
    /\ \A k \in Issued : invoice[k].price # 0
    /\ Cardinality(Invoiced) = series
    /\ \A a \in Approvals : ApprovalFits(a)
    /\ \A c \in Clerks : ClerkFits(c)
    /\ RepairFits
=============================================================================
