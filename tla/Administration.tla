--------------------------- MODULE Administration ---------------------------
(***************************************************************************)
(* What operators and organisation owners decide (vat-facts.service.ts,    *)
(* ops-roles.service.ts, store-business.service.ts, org.service.ts): the   *)
(* maker and checker of a store's VAT facts, the roles that let somebody   *)
(* be one, the business profile on top of an approved store, and an        *)
(* organisation with its seats.                                            *)
(*                                                                         *)
(* Every handler is a guard, a read and a write.  Only the review of a     *)
(* business profile, and the revocation of a seat, write conditionally.    *)
(***************************************************************************)
EXTENDS Naturals, Sequences, FiniteSets

CONSTANTS
    Staff,          \* people who may be administrators, or members of the organisation
    Founder,        \* the member of Staff who created the organisation
    Desks,          \* requests under way at the same time
    MaxDecisions    \* bound on the requests of a behaviour

ASSUME AdministrationAssumption == Founder \in Staff /\ MaxDecisions \in Nat

VARIABLES
    admins,         \* User.role = 'admin'
    opsRole,        \* OpsRoleAssignment rows, of the one role that has finance.vat_facts
    facts,          \* the store's VAT facts: which proposal is in force, 0 for none
    ownNumber,      \* the vatNumber in force was written by the merchant alone
    proposals,      \* StoreVatFactsProposal rows, in the order of their creation
    business,       \* StoreBusinessProfile.status
    org,            \* Organization.status
    seat,           \* OrgUser rows: [Staff -> role, revoked or none]
    desk,           \* the requests
    decisions,
    cleared,        \* history: who has been administrator and had the role at one time
    checkedBy,      \* history: who put the facts into force
    vetted          \* history: the business application at hand has been approved

adminVars == <<admins, opsRole, facts, ownNumber, proposals, business, org, seat, desk, decisions,
               cleared, checkedBy, vetted>>

NoDesk == [pc |-> "idle", who |-> Founder, on |-> Founder, n |-> 0, to |-> "none"]

AdministrationInit ==
    /\ admins \in SUBSET Staff /\ admins # {}
    /\ opsRole = {} /\ facts = 0 /\ ownNumber = FALSE /\ proposals = <<>> /\ business = "none"
    /\ org = "draft" /\ seat = [p \in Staff |-> IF p = Founder THEN "owner" ELSE "none"]
    /\ desk = [d \in Desks |-> NoDesk] /\ decisions = 0
    /\ cleared = {} /\ checkedBy = Founder /\ vetted = FALSE

Opens(d, r) == /\ desk[d] = NoDesk /\ decisions < MaxDecisions /\ decisions' = decisions + 1
               /\ desk' = [desk EXCEPT ![d] = r]
Closes(d) == desk' = [desk EXCEPT ![d] = NoDesk] /\ UNCHANGED decisions

vatVars == <<facts, ownNumber, proposals, checkedBy>>
roleVars == <<admins, opsRole>>
orgVars == <<org, seat>>
businessVars == <<business, vetted>>

-----------------------------------------------------------------------------
\* grant: the target must be an administrator when it is read.
GrantLoads(d, p) ==
    /\ p \in admins /\ Opens(d, [NoDesk EXCEPT !.pc = "grant", !.on = p])
    /\ UNCHANGED <<roleVars, vatVars, orgVars, businessVars>>

GrantWrites(d) ==
    /\ desk[d].pc = "grant" /\ opsRole' = opsRole \cup {desk[d].on} /\ Closes(d)
    /\ UNCHANGED <<admins, vatVars, orgVars, businessVars>>

RevokeRole(p) ==
    /\ p \in opsRole /\ opsRole' = opsRole \ {p}
    /\ UNCHANGED <<admins, desk, decisions, vatVars, orgVars, businessVars>>

\* setUserRole: the assignments of somebody demoted stay.
SetAdmin(p) ==
    /\ decisions < MaxDecisions /\ decisions' = decisions + 1
    /\ admins' = IF p \in admins THEN admins \ {p} ELSE admins \cup {p}
    /\ UNCHANGED <<opsRole, desk, vatVars, orgVars, businessVars>>

RoleAlone(p) == p \in opsRole

\* AdminGuard, then OpsRoleGuard: a role without the administrator is inert.
MayHandleVat(p) == p \in admins /\ p \in opsRole

\* propose: evidence given, and no proposal pending; then the row is created.
ProposeLoads(d, p) ==
    /\ MayHandleVat(p) /\ ~\E n \in DOMAIN proposals : proposals[n].status = "pending"
    /\ Opens(d, [NoDesk EXCEPT !.pc = "propose", !.who = p])
    /\ UNCHANGED <<roleVars, vatVars, orgVars, businessVars>>

ProposeWrites(d) ==
    /\ desk[d].pc = "propose"
    /\ proposals' = Append(proposals, [by |-> desk[d].who, status |-> "pending", decidedBy |-> desk[d].who])
    /\ Closes(d)
    /\ UNCHANGED <<roleVars, facts, ownNumber, checkedBy, orgVars, businessVars>>

MakerToo(p, n) == TRUE

\* "sod_maker_cannot_approve"
NotTheMaker(p, n) == proposals[n].by # p

\* approve writes the store, then the proposal; reject only the proposal.
DecideLoads(d, p, n, pc) ==
    /\ MayHandleVat(p) /\ proposals[n].status = "pending"
    /\ pc = "approve" => NotTheMaker(p, n)
    /\ Opens(d, [NoDesk EXCEPT !.pc = pc, !.who = p, !.n = n])
    /\ UNCHANGED <<roleVars, vatVars, orgVars, businessVars>>

ApplyFacts(d) ==
    /\ desk[d].pc = "approve"
    /\ facts' = desk[d].n /\ ownNumber' = FALSE /\ checkedBy' = desk[d].who
    /\ desk' = [desk EXCEPT ![d].pc = "approved"] /\ UNCHANGED decisions
    /\ UNCHANGED <<roleVars, proposals, orgVars, businessVars>>

DecideWrites(d) ==
    /\ desk[d].pc \in {"approved", "reject"}
    /\ proposals' = [proposals EXCEPT ![desk[d].n].decidedBy = desk[d].who,
                         ![desk[d].n].status = IF desk[d].pc = "approved" THEN "approved" ELSE "rejected"]
    /\ Closes(d)
    /\ UNCHANGED <<roleVars, facts, ownNumber, checkedBy, orgVars, businessVars>>

\* The owner's PATCH of the store writes its vatNumber as well, with nobody's approval.
PatchVatNumber ==
    /\ ~ownNumber /\ ownNumber' = TRUE
    /\ UNCHANGED <<roleVars, facts, proposals, checkedBy, orgVars, businessVars, desk, decisions>>

-----------------------------------------------------------------------------
\* apply, for a store that is approved: no profile yet, or one that was rejected;
\* the write is by id.
ApplyLoads(d) ==
    /\ business \in {"none", "rejected"} /\ Opens(d, [NoDesk EXCEPT !.pc = "apply", !.to = business])
    /\ UNCHANGED <<roleVars, vatVars, orgVars, businessVars>>

\* The create of a first application runs into the unique store id when there is a profile.
ApplyWrites(d) ==
    /\ desk[d].pc = "apply"
    /\ IF desk[d].to = "none" /\ business # "none" THEN UNCHANGED businessVars
       ELSE business' = "applied" /\ vetted' = FALSE
    /\ Closes(d)
    /\ UNCHANGED <<roleVars, vatVars, orgVars>>

\* TRANSITIONS
ReviewFrom(a) == CASE a \in {"approve", "reject"} -> "applied" [] a = "suspend" -> "approved" [] OTHER -> "suspended"
ReviewTo(a) == CASE a \in {"approve", "reinstate"} -> "approved" [] a = "reject" -> "rejected" [] OTHER -> "suspended"

ReviewLoads(d, a) ==
    /\ business = ReviewFrom(a) /\ Opens(d, [NoDesk EXCEPT !.pc = "business", !.to = a])
    /\ UNCHANGED <<roleVars, vatVars, orgVars, businessVars>>

LosesNot(a) == TRUE

\* "a racing reviewer loses cleanly": the update is conditional on the state.
StillThere(a) == business = ReviewFrom(a)

ReviewWrites(d) ==
    /\ desk[d].pc = "business"
    /\ IF StillThere(desk[d].to)
       THEN business' = ReviewTo(desk[d].to) /\ vetted' = (vetted \/ desk[d].to = "approve")
       ELSE UNCHANGED businessVars
    /\ Closes(d)
    /\ UNCHANGED <<roleVars, vatVars, orgVars>>

-----------------------------------------------------------------------------
\* submitOrg and reviewOrg: a status check, and a write by id.
OrgFrom(to) == IF to = "submitted" THEN {"draft", "changes_requested"} ELSE {"submitted"}

OrgLoads(d, to) ==
    /\ org \in OrgFrom(to)
    /\ Opens(d, [NoDesk EXCEPT !.pc = "org", !.to = to])
    /\ UNCHANGED <<roleVars, vatVars, orgVars, businessVars>>

OrgWrites(d) ==
    /\ desk[d].pc = "org" /\ org' = desk[d].to /\ Closes(d)
    /\ UNCHANGED <<roleVars, vatVars, seat, businessVars>>

AnySeat == {"none", "revoked", "admin", "approver", "owner"}

\* addMember: a seat that is active, whatever its role, is not granted again.
FreeSeats == {"none", "revoked"}

SeatLoads(d, p, role) ==
    /\ seat[p] \in FreeSeats /\ Opens(d, [NoDesk EXCEPT !.pc = "seat", !.on = p, !.to = role,
                                                   !.n = IF seat[p] = "none" THEN 0 ELSE 1])
    /\ UNCHANGED <<roleVars, vatVars, orgVars, businessVars>>

\* A revoked row is revived by id; a second create runs into the unique pair.
SeatWrites(d) ==
    /\ desk[d].pc = "seat"
    /\ IF desk[d].n = 0 /\ seat[desk[d].on] # "none" THEN UNCHANGED seat
       ELSE seat' = [seat EXCEPT ![desk[d].on] = desk[d].to]
    /\ Closes(d)
    /\ UNCHANGED <<roleVars, vatVars, org, businessVars>>

\* revokeMember: never oneself and never the owner; conditional on an active seat.
UnseatLoads(d, actor, p) ==
    /\ actor # p /\ seat[actor] = "owner" /\ seat[p] \notin FreeSeats \cup {"owner"}
    /\ Opens(d, [NoDesk EXCEPT !.pc = "unseat", !.who = actor, !.on = p])
    /\ UNCHANGED <<roleVars, vatVars, orgVars, businessVars>>

UnseatWrites(d) ==
    /\ desk[d].pc = "unseat"
    /\ seat' = [seat EXCEPT ![desk[d].on] = IF @ \in FreeSeats THEN @ ELSE "revoked"] /\ Closes(d)
    /\ UNCHANGED <<roleVars, vatVars, org, businessVars>>

-----------------------------------------------------------------------------
AdministrationStep ==
    \/ \E d \in Desks : \/ GrantWrites(d) \/ ProposeWrites(d) \/ ApplyFacts(d) \/ DecideWrites(d)
                        \/ ApplyLoads(d) \/ ApplyWrites(d) \/ ReviewWrites(d)
                        \/ OrgWrites(d) \/ SeatWrites(d) \/ UnseatWrites(d)
    \/ \E d \in Desks, p \in Staff : GrantLoads(d, p) \/ ProposeLoads(d, p)
    \/ \E d \in Desks, p \in Staff, n \in DOMAIN proposals, pc \in {"approve", "reject"} : DecideLoads(d, p, n, pc)
    \/ \E d \in Desks, a \in {"approve", "reject", "suspend", "reinstate"} : ReviewLoads(d, a)
    \/ \E d \in Desks, to \in {"submitted", "approved", "rejected", "changes_requested"} : OrgLoads(d, to)
    \/ \E d \in Desks, p \in Staff, role \in {"admin", "approver"} : SeatLoads(d, p, role)
    \/ \E d \in Desks, actor, p \in Staff : UnseatLoads(d, actor, p)
    \/ \E p \in Staff : SetAdmin(p) \/ RevokeRole(p)
    \/ PatchVatNumber

AdministrationNext == AdministrationStep /\ cleared' = cleared \cup (admins' \cap opsRole')

AdministrationSpec == AdministrationInit /\ [][AdministrationNext]_adminVars

-----------------------------------------------------------------------------
\* Type invariant of the decisions and the rows they are about.
AdministrationTypeOK ==
    /\ admins \subseteq Staff /\ opsRole \subseteq Staff /\ cleared \subseteq Staff
    /\ facts \in 0..Len(proposals) /\ ownNumber \in BOOLEAN
    /\ \A n \in DOMAIN proposals : proposals[n].by \in Staff /\ proposals[n].status \in {"pending", "approved", "rejected"}
    /\ business \in {"none", "applied", "approved", "rejected", "suspended"} /\ vetted \in BOOLEAN
    /\ org \in {"draft", "submitted", "approved", "rejected", "changes_requested"}
    /\ seat \in [Staff -> AnySeat] /\ decisions \in 0..MaxDecisions

\* The proposal of VAT facts that was last applied was made by one person and
\* approved by another, however decisions overlap.
TwoPeopleSetTheFacts == facts # 0 => proposals[facts].by # checkedBy

\* Both of them were at some time administrators and had the role at once: a
\* role that outlives the administrator, or that lands after the demotion, is inert.
ClearedPeopleSetTheFacts ==
    /\ \A n \in DOMAIN proposals : proposals[n].by \in cleared
    /\ facts # 0 => checkedBy \in cleared

\* A store with a business profile that is approved, or suspended from it, was
\* approved after its last application: two operators, or a late application,
\* never leave it eligible unreviewed.
EligibleWasReviewed == business \in {"approved", "suspended"} => vetted

\* The organisation always has its owner, and no other: an organisation
\* without one "would be unreachable", and the role is never grantable.
OwnerKept == {p \in Staff : seat[p] = "owner"} = {Founder}

\* What was decided was decided by those who may decide it.
DecisionsHold ==
    /\ AdministrationTypeOK
    /\ TwoPeopleSetTheFacts
    /\ ClearedPeopleSetTheFacts
    /\ EligibleWasReviewed
    /\ OwnerKept

\* "no single person silently changes a fee, a tax fact, or a safeguarding account"
\* (vat-facts.service.ts:6-7): once two people have set the facts, only two people
\* change them.  Does not hold: the owner's PATCH writes the vatNumber alone.
TaxFactsNeedTwoPeople == facts # 0 => ~ownNumber

\* The facts in force are those of a proposal on record as approved.  Does not
\* hold: a rejection that read the proposal before writes over the approval.
FactsOnRecord ==
    facts # 0 /\ (\A d \in Desks : desk[d].pc # "approved") => proposals[facts].status = "approved"

\* "One open proposal per store" (vat-facts.service.ts:12).  Does not hold: two
\* operators check at the same time, and no index forbids the second.
OneOpenProposal == Cardinality({n \in DOMAIN proposals : proposals[n].status = "pending"}) <= 1

\* "Only submitted organizations can be reviewed" (org.service.ts:404).  Does not
\* hold: a second review, or a second submit, writes by id over the first.
OrgReviewedOnce == [][(org \in {"approved", "rejected"}) => org' = org]_adminVars

\* "there is deliberately no in-place role change" (org.service.ts:231).  Does not
\* hold: two revivals of a revoked seat overlap, and the second changes the role.
NoRoleChangeInPlace ==
    [][\A p \in Staff : seat[p] \notin FreeSeats /\ seat'[p] \notin FreeSeats => seat'[p] = seat[p]]_adminVars

-----------------------------------------------------------------------------
(***************************************************************************)
(* The inductive invariant: what a request carries from its read to its    *)
(* write, and that nobody may handle VAT who was not seen to.              *)
(***************************************************************************)
ProposalRows == [by : Staff, status : {"pending", "approved", "rejected"}, decidedBy : Staff]

OrgStatuses == {"draft", "submitted", "approved", "rejected", "changes_requested"}

DeskRows == [pc : {"idle", "grant", "propose", "approve", "approved", "reject", "apply", "business", "org",
                   "seat", "unseat"},
             who : Staff, on : Staff, n : Nat,
             to : AnySeat \cup OrgStatuses \cup {"approve", "reject", "suspend", "reinstate"}]

DeskFits(r) ==
    /\ r.pc = "propose" => r.who \in cleared
    /\ r.pc \in {"approve", "approved", "reject"} => r.n \in DOMAIN proposals
    /\ r.pc \in {"approve", "approved"} => r.who \in cleared /\ proposals[r.n].by # r.who
    /\ r.pc = "business" => r.to \in {"approve", "reject", "suspend", "reinstate"}
    /\ r.pc = "org" => r.to \in OrgStatuses
    /\ r.pc \in {"seat", "unseat"} => r.on # Founder
    /\ r.pc = "seat" => r.to \in {"admin", "approver"}

\* DecisionsHold with what the requests under way have read.
DecisionsInv ==
    /\ DecisionsHold
    /\ proposals \in Seq(ProposalRows) /\ desk \in [Desks -> DeskRows]
    /\ admins \cap opsRole \subseteq cleared
    /\ \A d \in Desks : DeskFits(desk[d])
=============================================================================
