---------------------------- MODULE MCCorporate -----------------------------
(***************************************************************************)
(* The corporate side, on small instances: a campaign with its dispatch    *)
(* and claims, the documents of approved campaigns, the treasury desk.     *)
(* They share no row below, so a behaviour works on one of them: `focus'   *)
(* says which, and which of its operations overlap.                        *)
(***************************************************************************)
EXTENDS CorporateCampaign, CorporateInvoicing, Treasury, TLC

CONSTANTS
    Second,      \* the second request of the organisation
    Attester     \* who reads the bank's statements; the others may resolve

VARIABLE focus

corporateSide == <<campaignVars, invoicingVars, treasuryVars, focus>>

\* The configuration uses the same two names for the callers of every
\* component, and the same two for the rows they work on; no definition tells
\* them apart.
MCSymmetry == Permutations(Workers) \cup Permutations(Visits)

MCInit ==
    /\ CampaignInit /\ InvoicingInit /\ TreasuryInit
    /\ focus \in {"office", "claims", "issue", "attach", "books", "runs"}

Used(f, none) == {x \in DOMAIN f : f[x] # none}

\* Two requests of the organisation against each other, the retention and a
\* sweep; then the recipients, the sweeps and an export, the organisation
\* acting one request at a time.
OfficeNext == /\ CampaignNext /\ UNCHANGED <<visit, verified, lapsed, export>>
              /\ Cardinality(Used(work', NoWork)) <= 1
ClaimsNext == /\ CampaignNext
              /\ orgCall'[Second] = NoOrgCall /\ due' = due /\ camp' # "cancelled"

\* Two approvals and the repair; then one approved deal and two clerks who
\* attach official numbers.
Begun == {d \in Deals : deal'[d] # "pending"}
IssueNext == InvoicingNext /\ clerk' = clerk
AttachNext ==
    /\ InvoicingNext /\ UNCHANGED <<sweep, faults, price>>
    /\ Cardinality(Begun) <= 1
    /\ Cardinality({a \in Approvals : approval'[a] # NoApproval}) <= 1

\* The books against transfers; then attestations, runs and their resolution.
BooksNext == /\ TreasuryNext
             /\ attested' = {} /\ Cardinality(Used(recon', NoRecon)) <= 1
             /\ desk'[Attester] = NoTask /\ \A s \in Staff : desk'[s].pc # "resolve"
RunsNext ==
    /\ TreasuryNext
    /\ \A t \in attested' : t[3] = Attester
    /\ (\E s \in Staff : desk'[s].pc = "run") => Cardinality(Used(desk', NoTask)) = 1
    /\ \A s \in Staff : desk'[s].pc # "transfer"
    /\ Cardinality(Used(valued', 0)) <= 1

MCNext ==
    \/ focus = "office" /\ OfficeNext /\ UNCHANGED <<invoicingVars, treasuryVars, focus>>
    \/ focus = "claims" /\ ClaimsNext /\ UNCHANGED <<invoicingVars, treasuryVars, focus>>
    \/ focus = "issue" /\ IssueNext /\ UNCHANGED <<campaignVars, treasuryVars, focus>>
    \/ focus = "attach" /\ AttachNext /\ UNCHANGED <<campaignVars, treasuryVars, focus>>
    \/ focus = "books" /\ BooksNext /\ UNCHANGED <<campaignVars, invoicingVars, focus>>
    \/ focus = "runs" /\ RunsNext /\ UNCHANGED <<campaignVars, invoicingVars, focus>>

MCSpec == MCInit /\ [][MCNext]_corporateSide
=============================================================================
