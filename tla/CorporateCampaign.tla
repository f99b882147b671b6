-------------------------- MODULE CorporateCampaign --------------------------
(***************************************************************************)
(* One corporate gift campaign from draft to completion                    *)
(* (campaign.service.ts, dispatch.service.ts, roster.service.ts,           *)
(* roster-purge.service.ts) over the dispatch queue and the claims.        *)
(*                                                                         *)
(* An organisation's user loads the campaign, is checked against what was  *)
(* loaded, and writes by id; only the dispatch filters on the status.      *)
(* `reviewed' is what the approver was shown: the option and the           *)
(* recipients when the approval loaded the campaign.                       *)
(***************************************************************************)
EXTENDS CorporateDispatch

CONSTANTS
    Users,        \* seats of the organisation
    Creator,      \* the one who made the campaign
    OrgCalls,     \* requests of these users in flight at once
    MaxOptions    \* bound on the changes of the gift option

ASSUME CampaignAssumption == Creator \in Users /\ MaxOptions \in Nat

VARIABLES
    camp,         \* GiftCampaign.status
    option,       \* the number of the campaign's CampaignGiftOption, 0 for none
    invited,      \* the CampaignRecipient rows
    approver,     \* GiftCampaign.approvedBy
    reviewed,     \* the recipients the approver was shown
    orgCall       \* requests in flight

campaignTables == <<camp, option, invited, approver, reviewed>>
campaignVars == <<dispatchVars, campaignTables, orgCall>>

Editable == {"draft", "changes_requested"}
CampaignCancellable == {"draft", "pending_approval", "changes_requested", "approved"}
PurgeProtecting == {"pending_approval", "approved", "dispatching"}
NoOrgCall == [pc |-> "idle", by |-> "none", of |-> "none", opt |-> 0, who |-> {}]

CampaignInit ==
    /\ DispatchInit
    /\ camp = "draft" /\ option = 0 /\ invited = {} /\ approver = "none" /\ reviewed = {}
    /\ orgCall = [c \in OrgCalls |-> NoOrgCall]

\* A request that has passed its checks on the campaign it loaded, with what it
\* still needs of it: the one who approves, the contact, the option, the list.
Loaded(c, pc, u, k, opt, who) ==
    /\ orgCall[c] = NoOrgCall
    /\ orgCall' = [orgCall EXCEPT ![c] = [pc |-> pc, by |-> u, of |-> k, opt |-> opt, who |-> who]]
    /\ UNCHANGED <<dispatchVars, campaignTables>>

Ended(c) == orgCall' = [orgCall EXCEPT ![c] = NoOrgCall]

SetGiftOptionLoad(c) == camp \in Editable /\ Loaded(c, "option", "none", "none", 0, {})
AddRecipientsLoad(c, k) == camp \in Editable /\ contact[k] = "active" /\ Loaded(c, "add", "none", k, 0, {})
RemoveRecipientLoad(c, k) == camp \in Editable /\ k \in invited /\ Loaded(c, "remove", "none", k, 0, {})
SubmitLoad(c) == /\ camp \in Editable /\ option # 0 /\ invited # {}
                 /\ Loaded(c, "submit", "none", "none", 0, {})

AnyoneReviews(u) == TRUE

\* Maker-checker: nobody reviews their own campaign.
MayReview(u) == u # Creator

ApproveLoad(c, u) == /\ camp = "pending_approval" /\ option # 0 /\ MayReview(u)
                     /\ Loaded(c, "approve", u, "none", option, invited)
RequestChangesLoad(c, u) == camp = "pending_approval" /\ MayReview(u) /\ Loaded(c, "changes", "none", "none", 0, {})
CancelCampaignLoad(c) == camp \in CampaignCancellable /\ Loaded(c, "cancel", "none", "none", 0, {})
DispatchLoad(c) == camp = "approved" /\ invited # {} /\ Loaded(c, "dispatch", "none", "none", 0, invited)

-----------------------------------------------------------------------------
\* deleteMany and create in one transaction: the new row has no snapshot.
SetGiftOption(c) ==
    /\ orgCall[c].pc = "option" /\ option < MaxOptions
    /\ option' = option + 1 /\ frozen' = FALSE
    /\ Ended(c)
    /\ UNCHANGED <<contact, due, queueTables, claimTables, procs, camp, invited, approver, reviewed>>

\* createMany skips duplicates and fails for a contact that is gone.
AddRecipients(c) ==
    /\ orgCall[c].pc = "add"
    /\ invited' = IF Reachable(orgCall[c].of) THEN invited \cup {orgCall[c].of} ELSE invited
    /\ Ended(c)
    /\ UNCHANGED <<dispatchVars, camp, option, approver, reviewed>>

RemoveRecipient(c) ==
    /\ orgCall[c].pc = "remove"
    /\ invited' = invited \ {orgCall[c].of}
    /\ Ended(c)
    /\ UNCHANGED <<dispatchVars, camp, option, approver, reviewed>>

SubmitForApproval(c) ==
    /\ orgCall[c].pc = "submit"
    /\ camp' = "pending_approval"
    /\ Ended(c)
    /\ UNCHANGED <<dispatchVars, option, invited, approver, reviewed>>

\* The status and the snapshot in one transaction, which fails when the option
\* row it has read was replaced.
ApproveCampaign(c) ==
    /\ orgCall[c].pc = "approve"
    /\ IF orgCall[c].opt = option
       THEN /\ camp' = "approved" /\ approver' = orgCall[c].by
            /\ reviewed' = orgCall[c].who /\ frozen' = TRUE
       ELSE UNCHANGED <<camp, approver, reviewed, frozen>>
    /\ Ended(c)
    /\ UNCHANGED <<contact, due, queueTables, claimTables, procs, option, invited>>

RequestChanges(c) ==
    /\ orgCall[c].pc = "changes"
    /\ camp' = "changes_requested"
    /\ Ended(c)
    /\ UNCHANGED <<dispatchVars, option, invited, approver, reviewed>>

CancelCampaign(c) ==
    /\ orgCall[c].pc = "cancel"
    /\ camp' = "cancelled"
    /\ Ended(c)
    /\ UNCHANGED <<dispatchVars, option, invited, approver, reviewed>>

FlipAnyState == camp \in CampaignCancellable

\* updateMany where the campaign is approved: two dispatches cannot both win.
Flips == camp = "approved"

DispatchCampaign(c) ==
    /\ orgCall[c].pc = "dispatch"
    /\ IF Flips THEN camp' = "dispatching" /\ Enqueue(orgCall[c].who)
       ELSE UNCHANGED <<camp, queueTables>>
    /\ Ended(c)
    /\ UNCHANGED <<contact, due, frozen, claimTables, procs, option, invited, approver, reviewed>>

\* completeFinishedCampaigns, at the end of a sweep.
CompleteFinished ==
    /\ camp = "dispatching" /\ NoLiveJob
    /\ camp' = "completed"
    /\ UNCHANGED <<dispatchVars, option, invited, approver, reviewed, orgCall>>

-----------------------------------------------------------------------------
ArchiveContact(k) ==
    /\ contact[k] = "active"
    /\ contact' = [contact EXCEPT ![k] = "archived"]
    /\ UNCHANGED <<due, frozen, queueTables, claimTables, procs, campaignTables, orgCall>>

RetentionEnds(k) ==
    /\ Reachable(k) /\ k \notin due
    /\ due' = due \cup {k}
    /\ UNCHANGED <<contact, frozen, queueTables, claimTables, procs, campaignTables, orgCall>>

PurgeUnprotected(k) == k \in due

\* A contact of a submitted, approved or running campaign is protected.
Purgeable(k) == k \in due /\ ~(k \in invited /\ camp \in PurgeProtecting)

\* RosterPurgeService.runOnce: one deleteMany; recipient rows go by cascade.
RosterPurge ==
    LET S == {k \in Contacts : Reachable(k) /\ Purgeable(k)} IN
    /\ S # {}
    /\ contact' = [k \in Contacts |-> IF k \in S THEN "gone" ELSE contact[k]]
    /\ invited' = invited \ S
    /\ UNCHANGED <<due, frozen, queueTables, claimTables, procs, camp, option, approver, reviewed, orgCall>>

CampaignNext ==
    \/ DispatchNext /\ UNCHANGED <<campaignTables, orgCall>>
    \/ \E c \in OrgCalls :
          \/ SetGiftOptionLoad(c) \/ SubmitLoad(c)
          \/ \E k \in Contacts : AddRecipientsLoad(c, k) \/ RemoveRecipientLoad(c, k)
          \/ \E u \in Users : ApproveLoad(c, u) \/ RequestChangesLoad(c, u)
          \/ CancelCampaignLoad(c) \/ DispatchLoad(c)
          \/ SetGiftOption(c) \/ AddRecipients(c) \/ RemoveRecipient(c) \/ SubmitForApproval(c)
          \/ ApproveCampaign(c) \/ RequestChanges(c) \/ CancelCampaign(c) \/ DispatchCampaign(c)
    \/ CompleteFinished
    \/ \E k \in Contacts : ArchiveContact(k) \/ RetentionEnds(k)
    \/ RosterPurge

CampaignSpec == CampaignInit /\ [][CampaignNext]_campaignVars

CampaignFairness == SweepFairness /\ WF_campaignVars(CompleteFinished)

-----------------------------------------------------------------------------
\* Type invariant of the campaign and the requests on it.
CampaignTypeOK ==
    /\ DispatchTypeOK
    /\ camp \in CampaignCancellable \cup {"dispatching", "completed", "cancelled"}
    /\ option \in 0..MaxOptions /\ invited \subseteq Contacts /\ reviewed \subseteq Contacts
    /\ approver \in Users \cup {"none"}
    /\ orgCall \in [OrgCalls -> [pc : {"idle", "option", "add", "remove", "submit", "approve", "changes",
                                       "cancel", "dispatch"},
                                 by : Users \cup {"none"}, of : Contacts \cup {"none"},
                                 opt : 0..MaxOptions, who : SUBSET Contacts]]

\* Nothing is queued, minted or delivered before somebody other than the maker
\* has approved the campaign.
QueuedOnlyIfApproved ==
    (\E k \in Contacts : job[k] # "none" \/ claim[k] # "none") => approver \in Users \ {Creator}

\* A completed campaign has nothing left to deliver: every job is dispatched or
\* has failed for good.
CompletedMeansSettled ==
    camp = "completed" => \A k \in Contacts : job[k] \in {"none", "dispatched", "failed"}

\* What the tables of a campaign, its jobs and its claims agree on, however the
\* organisation, the sweeps, the exports and the recipients overlap.
CampaignAgrees ==
    /\ CampaignTypeOK
    /\ QueuedOnlyIfApproved
    /\ CompletedMeansSettled
    /\ ExportedLinkOpens
    /\ AddressOfClaimedOnly
    /\ DecidedByTheRecipient

\* A wave that is dispatched comes to its end when sweeps do not die.
WaveEnds == camp = "dispatching" ~> camp # "dispatching"

\* The state machine at the head of campaign.service.ts.
CampaignEdges ==
    {<<"draft", "pending_approval">>, <<"changes_requested", "pending_approval">>,
     <<"pending_approval", "approved">>, <<"pending_approval", "changes_requested">>,
     <<"approved", "dispatching">>, <<"dispatching", "completed">>}
    \cup {<<s, "cancelled">> : s \in CampaignCancellable}

\* "draft -> pending_approval -> approved -> dispatching -> completed ..."
\* (campaign.service.ts): a stale approval or cancellation leaves the diagram
\* (README, section 6).
CampaignFollowsItsDiagram ==
    [][camp' # camp => <<camp, camp'>> \in CampaignEdges]_campaignVars

\* "the approver must see exactly what they're approving" (campaign.service.ts):
\* recipients added by a stale edit are dispatched unseen (README, section 6).
DispatchedWereReviewed == \A k \in Contacts : job[k] # "none" => k \in reviewed

\* "a contact selected into a submitted/approved/in-flight campaign must not
\* vanish from under it mid-wave" (roster-purge.service.ts): not so after a stale
\* removal or cancellation (README, section 6).
WaveKeepsItsContacts ==
    \A k \in Contacts : job[k] \in {"pending", "processing"} => Reachable(k)

-----------------------------------------------------------------------------
(***************************************************************************)
(* What keeps the properties: the inductive invariant of the campaign.     *)
(***************************************************************************)
OtherThanMaker == Users \ {Creator}

\* An approval on its way is by somebody else than the maker, and what is
\* added or removed is a contact.
CallFits(c) ==
    /\ orgCall[c].pc = "approve" => orgCall[c].by \in OtherThanMaker
    /\ orgCall[c].pc = "add" => orgCall[c].of \in Contacts

CampaignInv ==
    /\ DispatchInv
    /\ CampaignTypeOK
    /\ \A c \in OrgCalls : CallFits(c)
    /\ camp = "approved" => approver \in OtherThanMaker
    /\ \A k \in Contacts : job[k] # "none" => approver \in OtherThanMaker
    /\ CompletedMeansSettled
=============================================================================
