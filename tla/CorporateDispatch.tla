-------------------------- MODULE CorporateDispatch --------------------------
(***************************************************************************)
(* The dispatch queue of a corporate campaign and the gifts its recipients *)
(* claim (dispatch-worker.service.ts, claim-mint.service.ts,               *)
(* claim.service.ts, claim-export.service.ts, roster.service.ts,           *)
(* roster-purge.service.ts).                                               *)
(*                                                                         *)
(* Sweeps of several replicas, or of one whose timer fires again, work at  *)
(* once; a job is claimed by a conditional update.  A claim token is the   *)
(* number of its minting: only the last one opens the claim.  Names,       *)
(* channels and one-time codes are left out (the codes: OneTimeCodes).     *)
(***************************************************************************)
EXTENDS Naturals, FiniteSets

CONSTANTS
    Contacts,      \* roster rows of the organisation
    Workers,       \* sweeps that may run at the same time
    Visits,        \* requests of recipients in flight at once
    MaxAttempts,   \* MAX_DISPATCH_ATTEMPTS
    MaxTokens,     \* bound on the mintings of one claim
    MaxDeaths      \* bound on the sweeps that die or throw

ASSUME DispatchAssumption == MaxAttempts \in Nat \ {0} /\ MaxTokens \in Nat /\ MaxDeaths \in Nat

VARIABLES
    contact,       \* "active", "archived" or "gone"
    due,           \* the contacts whose purgeAfter has passed
    job,           \* DispatchJob.status, "none" before the dispatch
    attempts,      \* DispatchJob.attempts
    frozen,        \* the campaign's option carries its approval snapshot
    claim,         \* ClaimableGift.status, "none" before the first minting
    token,         \* the current token of the claim
    links,         \* the tokens an export has handed out as links
    verified,      \* a one-time code was verified for the claim
    lapsed,        \* past expiresAt
    delivery,      \* a ClaimAddress row exists
    work,          \* what each sweep is doing
    visit,         \* what each recipient's request is doing
    export,        \* the running export of claim links: its contact, or none
    deaths,
    lost           \* the contacts whose minted link a failed export took along

queueTables == <<job, attempts>>
claimTables == <<claim, token, links, verified, lapsed, delivery>>
procs == <<work, visit, export, deaths, lost>>
dispatchVars == <<contact, due, frozen, queueTables, claimTables, procs>>

NoWork == [pc |-> "idle", of |-> "none", tries |-> 0]
NoVisit == [of |-> "none", to |-> "none"]
NoExport == [pc |-> "idle", of |-> "none"]
Outcomes == {"claimed", "declined", "mismatch"}
Final == Outcomes \cup {"expired"}
Reachable(k) == contact[k] # "gone"

DispatchInit ==
    /\ contact = [k \in Contacts |-> "active"] /\ due = {}
    /\ job = [k \in Contacts |-> "none"] /\ attempts = [k \in Contacts |-> 0]
    /\ frozen = FALSE
    /\ claim = [k \in Contacts |-> "none"] /\ token = [k \in Contacts |-> 0]
    /\ links = [k \in Contacts |-> {}]
    /\ verified = {} /\ lapsed = {} /\ delivery = {}
    /\ work = [w \in Workers |-> NoWork] /\ visit = [v \in Visits |-> NoVisit]
    /\ export = NoExport /\ deaths = 0 /\ lost = {}

\* dispatchCampaign's createMany: one job per contact and campaign, by its key.
Enqueue(S) ==
    /\ job' = [k \in Contacts |-> IF k \in S /\ job[k] = "none" THEN "pending" ELSE job[k]]
    /\ UNCHANGED attempts

LiveNarrow == {"pending"}
LiveWide == {"pending", "processing", "failed"}

\* completeFinishedCampaigns waits for these.
LiveStates == {"pending", "processing"}
NoLiveJob == \A k \in Contacts : job[k] \notin LiveStates

-----------------------------------------------------------------------------
\* The batch read: the job, and the attempts it had then.
SweepReads(w, k) ==
    /\ work[w].pc = "idle" /\ job[k] = "pending"
    /\ work' = [work EXCEPT ![w] = [pc |-> "claim", of |-> k, tries |-> attempts[k]]]
    /\ UNCHANGED <<contact, due, frozen, queueTables, claimTables, visit, export, deaths, lost>>

ClaimedById(k) == TRUE

\* updateMany where the job is still pending.
Unclaimed(k) == job[k] = "pending"

ClaimJob(w) ==
    LET k == work[w].of IN
    /\ work[w].pc = "claim"
    /\ IF Unclaimed(k)
       THEN /\ job' = [job EXCEPT ![k] = "processing"]
            /\ attempts' = [attempts EXCEPT ![k] = @ + 1]
            /\ work' = [work EXCEPT ![w].pc = "mint", ![w].tries = @ + 1]
       ELSE work' = [work EXCEPT ![w] = NoWork] /\ UNCHANGED queueTables
    /\ UNCHANGED <<contact, due, frozen, claimTables, visit, export, deaths, lost>>

\* mintForJob refuses a finalised claim, a purged contact, a missing snapshot.
Mintable(k) == claim[k] \in {"none", "pending"} /\ Reachable(k) /\ frozen

MintCheck(w) ==
    LET k == work[w].of IN
    /\ work[w].pc = "mint"
    /\ IF Mintable(k)
       THEN work' = [work EXCEPT ![w].pc = "write"] /\ job' = job
       ELSE work' = [work EXCEPT ![w] = NoWork] /\ job' = [job EXCEPT ![k] = "failed"]
    /\ UNCHANGED <<contact, due, frozen, attempts, claimTables, visit, export, deaths, lost>>

MintReopens(k) == [claim EXCEPT ![k] = "pending"]

\* The re-mint of an existing claim writes token and expiry by id, and no status.
MintStatus(k) == IF claim[k] = "none" THEN [claim EXCEPT ![k] = "pending"] ELSE claim

Mint(k) ==
    /\ token[k] < MaxTokens
    /\ claim' = MintStatus(k)
    /\ token' = [token EXCEPT ![k] = @ + 1]
    /\ lapsed' = lapsed \ {k}
    /\ UNCHANGED <<verified, delivery>>

MintWrite(w) ==
    /\ work[w].pc = "write" /\ Mint(work[w].of)
    /\ work' = [work EXCEPT ![w].pc = "deliver"]
    /\ UNCHANGED <<contact, due, frozen, queueTables, links, visit, export, deaths, lost>>

\* How a delivery settles its job.
Settled(ok, permanent, tries) ==
    IF ok THEN "dispatched"
    ELSE IF ~permanent /\ tries < MaxAttempts THEN "pending" ELSE "failed"

\* The only registered provider, ManualDispatchProvider, calls nobody and stores
\* nothing: "dispatched" means that the claim is ready, and its raw link is gone
\* with the sweep.  The interface's other answers the sweep handles all the same.
Deliver(w) ==
    /\ work[w].pc = "deliver"
    /\ \E ok, permanent \in BOOLEAN :
          /\ ok => ~permanent
          /\ job' = [job EXCEPT ![work[w].of] = Settled(ok, permanent, work[w].tries)]
    /\ work' = [work EXCEPT ![w] = NoWork]
    /\ UNCHANGED <<contact, due, frozen, attempts, claimTables, visit, export, deaths, lost>>

\* The catch of the loop, or a crash: the job stays as it is.
SweepDies(w) ==
    /\ work[w].pc # "idle" /\ deaths < MaxDeaths
    /\ deaths' = deaths + 1 /\ work' = [work EXCEPT ![w] = NoWork]
    /\ UNCHANGED <<contact, due, frozen, queueTables, claimTables, visit, export, lost>>

-----------------------------------------------------------------------------
\* exportCampaignClaimLinks, "the distribution event": it mints again for every
\* dispatched job and returns the links together at its end.
ExportCheck(k) ==
    /\ export = NoExport /\ job[k] = "dispatched" /\ Mintable(k)
    /\ export' = [pc |-> "write", of |-> k]
    /\ UNCHANGED <<contact, due, frozen, queueTables, claimTables, work, visit, deaths, lost>>

ExportMint ==
    /\ export.pc = "write" /\ Mint(export.of)
    /\ export' = [export EXCEPT !.pc = "return"]
    /\ UNCHANGED <<contact, due, frozen, queueTables, links, work, visit, deaths, lost>>

ExportReturn ==
    /\ export.pc = "return"
    /\ links' = [links EXCEPT ![export.of] = @ \cup {token[export.of]}]
    /\ export' = NoExport /\ lost' = lost \ {export.of}
    /\ UNCHANGED <<contact, due, frozen, queueTables, claim, token, verified, lapsed, delivery, work,
                   visit, deaths>>

ExportFails ==
    /\ export # NoExport
    /\ export' = NoExport
    /\ lost' = IF export.pc = "return" THEN lost \cup {export.of} ELSE lost
    /\ UNCHANGED <<contact, due, frozen, queueTables, claimTables, work, visit, deaths>>

-----------------------------------------------------------------------------
\* loadPending: the holder of the current link opens a pending claim, and the
\* first touch of one past its expiry expires it.
HoldsLink(k) == token[k] \in links[k] /\ claim[k] = "pending"
Opens(k) == HoldsLink(k) /\ k \notin lapsed

LazyExpiry(k) ==
    /\ HoldsLink(k) /\ k \in lapsed
    /\ claim' = [claim EXCEPT ![k] = "expired"]
    /\ UNCHANGED <<contact, due, frozen, queueTables, token, links, verified, lapsed, delivery, procs>>

VerifyOtp(k) ==
    /\ Opens(k)
    /\ verified' = verified \cup {k}
    /\ UNCHANGED <<contact, due, frozen, queueTables, claim, token, links, lapsed, delivery, procs>>

LinkIsEnough(k) == TRUE

\* The claim session that verifyOtp has issued.
HasSession(k) == k \in verified

\* submitAddress, decline and notMe: loadSession, then the conditional update.
VisitLoads(v, k, to) ==
    /\ visit[v] = NoVisit /\ Opens(k) /\ HasSession(k)
    /\ visit' = [visit EXCEPT ![v] = [of |-> k, to |-> to]]
    /\ UNCHANGED <<contact, due, frozen, queueTables, claimTables, work, export, deaths, lost>>

OpenAlways(k) == TRUE

StillOpen(k) == claim[k] = "pending"

VisitWrites(v) ==
    LET k == visit[v].of  to == visit[v].to IN
    /\ visit[v] # NoVisit
    /\ IF StillOpen(k)
       THEN /\ claim' = [claim EXCEPT ![k] = to]
            /\ delivery' = IF to = "claimed" THEN delivery \cup {k} ELSE delivery
       ELSE UNCHANGED <<claim, delivery>>
    /\ visit' = [visit EXCEPT ![v] = NoVisit]
    /\ UNCHANGED <<contact, due, frozen, queueTables, token, links, verified, lapsed, work, export,
                   deaths, lost>>

ClaimLapses(k) ==
    /\ claim[k] = "pending" /\ k \notin lapsed
    /\ lapsed' = lapsed \cup {k}
    /\ UNCHANGED <<contact, due, frozen, queueTables, claim, token, links, verified, delivery, procs>>

-----------------------------------------------------------------------------
DispatchNext ==
    \/ \E w \in Workers : \/ ClaimJob(w) \/ MintCheck(w) \/ MintWrite(w) \/ Deliver(w) \/ SweepDies(w)
                          \/ \E k \in Contacts : SweepReads(w, k)
    \/ \E k \in Contacts : \/ ExportCheck(k) \/ LazyExpiry(k) \/ VerifyOtp(k) \/ ClaimLapses(k)
                           \/ \E v \in Visits, to \in Outcomes : VisitLoads(v, k, to)
    \/ ExportMint \/ ExportReturn \/ ExportFails
    \/ \E v \in Visits : VisitWrites(v)

\* A sweep that runs goes on, and the timer starts another.
SweepFairness ==
    \A w \in Workers :
        /\ WF_dispatchVars(\E k \in Contacts : SweepReads(w, k))
        /\ WF_dispatchVars(ClaimJob(w) \/ MintCheck(w) \/ MintWrite(w) \/ Deliver(w))

-----------------------------------------------------------------------------
\* Type invariant of the queue, the claims and the processes on them.
DispatchTypeOK ==
    /\ contact \in [Contacts -> {"active", "archived", "gone"}] /\ due \subseteq Contacts
    /\ job \in [Contacts -> {"none", "pending", "processing", "dispatched", "failed"}]
    /\ attempts \in [Contacts -> Nat] /\ frozen \in BOOLEAN
    /\ claim \in [Contacts -> Final \cup {"none", "pending"}]
    /\ token \in [Contacts -> 0..MaxTokens] /\ links \in [Contacts -> SUBSET (1..MaxTokens)]
    /\ verified \subseteq Contacts /\ lapsed \subseteq Contacts /\ delivery \subseteq Contacts
    /\ work \in [Workers -> [pc : {"idle", "claim", "mint", "write", "deliver"},
                             of : Contacts \cup {"none"}, tries : Nat]]
    /\ visit \in [Visits -> [of : Contacts \cup {"none"}, to : Outcomes \cup {"none"}]]
    /\ export \in [pc : {"idle", "write", "return"}, of : Contacts \cup {"none"}]
    /\ deaths \in 0..MaxDeaths /\ lost \subseteq Contacts

\* An address is kept for claimed gifts and for no others, however a
\* submission, a decline and a "this isn't me" of one recipient overlap.
AddressOfClaimedOnly == \A k \in Contacts : k \in delivery <=> claim[k] = "claimed"

\* Nobody's claim is decided without the one-time code.
DecidedByTheRecipient == \A k \in Contacts : claim[k] \in Outcomes => k \in verified

\* "claimed gifts are irrevocable": a decided claim keeps its outcome, also when
\* a retry or an export mints it again at the same moment.
DecidedForGood ==
    [][\A k \in Contacts : claim[k] \in Final => claim'[k] = claim[k]]_dispatchVars

\* A link that an export has handed out opens its claim until the claim is
\* decided: no sweep that still holds the job, or retries it, mints over it.
\* Another export does; one that fails behind its minting takes the link along.
ExportedLinkOpens ==
    \A k \in Contacts :
        links[k] # {} /\ claim[k] = "pending"
            => token[k] \in links[k] \/ k \in lost \/ export = [pc |-> "return", of |-> k]

\* "pending again while attempts < MAX, else failed" (dispatch-worker.service.ts):
\* not so when sweeps overlap, because the count compared is the one the batch
\* has read (README, section 6).
AttemptsBounded == \A k \in Contacts : attempts[k] <= MaxAttempts

\* "A finalized claim must never have its token rotated"
\* (claim-mint.service.ts): the check is made before the write (README,
\* section 6).
DecidedTokenKept ==
    [][\A k \in Contacts : claim[k] \in Final => token'[k] = token[k]]_dispatchVars

-----------------------------------------------------------------------------
(***************************************************************************)
(* What keeps the properties: the inductive invariant of the queue and the *)
(* claims.                                                                 *)
(***************************************************************************)
Holding == {"mint", "write", "deliver"}

\* A sweep works on a job of the queue.  From its conditional update until it
\* settles the job nobody else holds it, and no sweep settles it for it; what
\* it delivers has been minted.
SweepFits(w) ==
    work[w].pc # "idle" =>
        /\ work[w].of \in Contacts /\ job[work[w].of] # "none"
        /\ work[w].pc \in Holding => job[work[w].of] = "processing"
        /\ work[w].pc = "deliver" => token[work[w].of] # 0

HeldByOne ==
    \A v, w \in Workers :
        work[v].pc \in Holding /\ work[w].pc \in Holding /\ work[v].of = work[w].of => v = w

\* An export mints for jobs that are dispatched, and returns what it has minted.
ExportFits ==
    export.pc # "idle" =>
        /\ export.of \in Contacts /\ job[export.of] = "dispatched"
        /\ export.pc = "return" => token[export.of] # 0

\* A request of a recipient carries a session.
VisitFits(v) ==
    visit[v] # NoVisit =>
        visit[v].of \in Contacts /\ visit[v].to \in Outcomes /\ visit[v].of \in verified

\* A claim is minted for a job; its links come from exports, so of a job that is
\* done, and the last one is out unless an export has it or has lost it.
ClaimFits(k) ==
    /\ claim[k] # "none" => job[k] # "none"
    /\ links[k] # {} => job[k] = "dispatched"
    /\ links[k] # {} /\ claim[k] = "pending" =>
          token[k] \in links[k] \/ k \in lost \/ export = [pc |-> "return", of |-> k]
    /\ k \in delivery <=> claim[k] = "claimed"
    /\ claim[k] \in Outcomes => k \in verified

DispatchInv ==
    /\ DispatchTypeOK
    /\ \A w \in Workers : SweepFits(w)
    /\ HeldByOne
    /\ ExportFits
    /\ \A v \in Visits : VisitFits(v)
    /\ \A k \in Contacts : ClaimFits(k)
=============================================================================
