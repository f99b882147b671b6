---------------------- MODULE SettlementAuthorization -----------------------
(***************************************************************************)
(* Who may close a settlement batch (settlement-execution.service.ts and   *)
(* the approval policy): the recorded preview, the votes and their lapse,  *)
(* the four-eyes binding and the anti-fragmentation level, up to the       *)
(* engine's atomic close.                                                  *)
(*                                                                         *)
(* The batches are assembled and frozen: their hash, net and proposer do   *)
(* not change, so a caller that quotes a wrong hash is refused and changes *)
(* nothing.  The engine is used through its contract: a batch is ready     *)
(* until it is settled or superseded, once.  Time is counted in ticks, and *)
(* a request keeps the clock value it has read.                            *)
(***************************************************************************)
EXTENDS Integers, FiniteSets, FiniteSetsExt

CONSTANTS
    Users,        \* operators with finance permissions
    Seniors,      \* the ones in QIFT_SETTLEMENT_SENIOR_APPROVERS
    Batches,      \* assembled batches of one store and currency
    Actors,       \* requests that may be in flight at once
    Proposer,     \* assembledBy of each batch
    Magnitude,    \* net of a batch, or gross when its net is zero
    ZeroNet,      \* the batches whose net is zero
    T2,           \* t2Minor: above it two approvals, one of them senior
    TTL,          \* approvalTtlHours
    MaxAge,       \* executedAtMaxAgeHours
    MaxSkew,      \* executedAtMaxSkewHours
    DayLength,    \* ticks in a UTC day
    MaxTime,      \* bound on the clock
    MaxVotes      \* bound on the votes recorded for one batch

ASSUME AuthorizationAssumption ==
    /\ Seniors \subseteq Users
    /\ ZeroNet \subseteq Batches
    /\ Proposer \in [Batches -> Users]
    /\ Magnitude \in [Batches -> Nat \ {0}]
    /\ T2 \in Nat /\ TTL \in Nat /\ MaxAge \in Nat /\ MaxSkew \in Nat
    /\ DayLength \in Nat \ {0} /\ MaxTime \in Nat /\ MaxVotes \in Nat

VARIABLES
    now,       \* the settlement clock
    status,    \* of each batch: ready, settled or superseded
    preview,   \* SettlementExecutionPreview rows: [batch, at]
    vote,      \* SettlementApproval rows: [batch, by, at]
    closing,   \* the closes: the remittance row or the zero-net closure,
               \* with the approvers its audit row lists
    request    \* each actor's request

vars == <<now, status, preview, vote, closing, request>>

Times == 0..MaxTime
ValueTimes == (0 - MaxAge - 1)..(MaxTime + MaxSkew + 1)
Day(t) == t \div DayLength

NoRequest == [pc |-> "idle", user |-> "none", batch |-> "none", began |-> 0,
              valueAt |-> 0, approvals |-> {}]

Init == /\ now = 0
        /\ status = [b \in Batches |-> "ready"]
        /\ preview = {}
        /\ vote = {}
        /\ closing = {}
        /\ request = [a \in Actors |-> NoRequest]

Begin(a, u, b, label, valueAt) ==
    /\ request[a].pc = "idle"
    /\ status[b] = "ready"
    /\ request' = [request EXCEPT ![a] =
          [pc |-> label, user |-> u, batch |-> b, began |-> now,
           valueAt |-> valueAt, approvals |-> {}]]

Finish(a) == request' = [request EXCEPT ![a] = NoRequest]

\* A refusal or a crash before the request's transaction.
GiveUp(a) == /\ request[a].pc # "idle"
             /\ Finish(a)
             /\ UNCHANGED <<now, status, preview, vote, closing>>

Tick == /\ now < MaxTime
        /\ now' = now + 1
        /\ UNCHANGED <<status, preview, vote, closing, request>>

\* The engine's other end of a batch.
Supersede(b) == /\ status[b] = "ready"
                /\ status' = [status EXCEPT ![b] = "superseded"]
                /\ UNCHANGED <<now, preview, vote, closing, request>>

-----------------------------------------------------------------------------
(***************************************************************************)
(* Preview and approval: read, then insert.                                *)
(***************************************************************************)
PreviewRead(a, u, b) == /\ Begin(a, u, b, "preview", 0)
                        /\ UNCHANGED <<now, status, preview, vote, closing>>

PreviewCommit(a) ==
    /\ request[a].pc = "preview"
    /\ preview' = preview \cup {[batch |-> request[a].batch, at |-> now]}
    /\ Finish(a)
    /\ UNCHANGED <<now, status, vote, closing>>

\* A vote or a preview lapses TTL after it was recorded.
Active(row, t) == t - row.at <= TTL

\* Faulty variant: the proposer may approve.
MayApproveAnyone(u, b) ==
    \A v \in vote : v.batch = b /\ v.by = u => ~Active(v, now)

MayApprove(u, b) ==
    /\ u # Proposer[b]
    /\ \A v \in vote : v.batch = b /\ v.by = u => ~Active(v, now)

ApproveRead(a, u, b) ==
    /\ MayApprove(u, b)
    /\ Begin(a, u, b, "approve", 0)
    /\ UNCHANGED <<now, status, preview, vote, closing>>

\* Unique on (settlement, approver, instant): only a double submit within one
\* instant collides.
ApproveCommit(a) ==
    LET row == [batch |-> request[a].batch, by |-> request[a].user, at |-> now]
    IN  /\ request[a].pc = "approve"
        /\ row \notin vote
        /\ Cardinality({v \in vote : v.batch = row.batch}) < MaxVotes
        /\ vote' = vote \cup {row}
        /\ Finish(a)
        /\ UNCHANGED <<now, status, preview, closing>>

-----------------------------------------------------------------------------
(***************************************************************************)
(* Execution and the zero-net close: the same gate, then the atomic close. *)
(***************************************************************************)
\* Faulty variant: any past value date is accepted.
InWindowAnyPast(valueAt) == valueAt - now <= MaxSkew

InWindow(valueAt) == now - valueAt <= MaxAge /\ valueAt - now <= MaxSkew

ExecuteLoad(a, u, b, valueAt) ==
    /\ b \notin ZeroNet
    /\ InWindow(valueAt)
    /\ Begin(a, u, b, "gate", valueAt)
    /\ UNCHANGED <<now, status, preview, vote, closing>>

CloseZeroNetLoad(a, u, b) ==
    /\ b \in ZeroNet
    /\ Begin(a, u, b, "gate", now)
    /\ UNCHANGED <<now, status, preview, vote, closing>>

\* Faulty variant: every unlapsed vote counts, not the latest per identity.
CountedVotesAll(b, t) == {v \in vote : v.batch = b /\ Active(v, t)}

\* latestByApprover, then only the unlapsed.
CountedVotes(b, t) ==
    {v \in vote : /\ v.batch = b
                  /\ Active(v, t)
                  /\ \A w \in vote : w.batch = b /\ w.by = v.by => w.at <= v.at}

\* Faulty variant: an approver may execute.
BindsAnyExecutor(approvals, executor) == approvals # {}

\* assertExecutionBinding: some approval, and none of them the executor's.
Binds(approvals, executor) ==
    approvals # {} /\ \A v \in approvals : v.by # executor

ExecuteGate(a) ==
    LET r         == request[a]
        approvals == CountedVotes(r.batch, r.began)
    IN  /\ r.pc = "gate"
        /\ \E p \in preview : p.batch = r.batch /\ Active(p, r.began)
        /\ Binds(approvals, r.user)
        /\ request' = [request EXCEPT ![a].pc = "level", ![a].approvals = approvals]
        /\ UNCHANGED <<now, status, preview, vote, closing>>

Total(closes) == MapThenSumSet(LAMBDA c : Magnitude[c.batch], closes)

ClosedZeroNet(c) == c.batch \in ZeroNet

\* Faulty variant: closes without a transfer are forgotten.
RecordingDayTotalRemitted(b, t) ==
    Total({c \in closing : c.batch # b /\ ~ClosedZeroNet(c) /\ Day(c.at) = Day(t)})

\* dayAggregateMinor on the recording day, and on the bank value day; a
\* zero-net close counts on its recording day in both.
RecordingDayTotal(b, t) == Total({c \in closing : c.batch # b /\ Day(c.at) = Day(t)})

ValueDayTotal(b, t) ==
    Total({c \in closing : /\ c.batch # b
                           /\ Day(IF ClosedZeroNet(c) THEN c.at ELSE c.valueAt) = Day(t)})

SameDay(r) ==
    IF r.batch \in ZeroNet THEN RecordingDayTotal(r.batch, now)
    ELSE Max({RecordingDayTotal(r.batch, now), ValueDayTotal(r.batch, r.valueAt)})

\* requiredExecutionApproval against the approvals counted: one, or above T2
\* two of which one is senior.
Satisfies(approvals, amount) ==
    /\ Cardinality(approvals) >= IF amount > T2 THEN 2 ELSE 1
    /\ amount > T2 => \E v \in approvals : v.by \in Seniors

ExecuteLevel(a) ==
    LET r == request[a]
    IN  /\ r.pc = "level"
        /\ Satisfies(r.approvals, Magnitude[r.batch] + SameDay(r))
        /\ request' = [request EXCEPT ![a].pc = "close"]
        /\ UNCHANGED <<now, status, preview, vote, closing>>

\* Faulty variant: the status loaded at the start is trusted.
StillReadyAssumed(b) == TRUE

\* The engine's close re-checks the status in its transaction.
StillReady(b) == status[b] = "ready"

\* The drift check and the engine's close.
ExecuteClose(a) ==
    LET r == request[a]
    IN  /\ r.pc = "close"
        /\ StillReady(r.batch)
        /\ status' = [status EXCEPT ![r.batch] = "settled"]
        /\ closing' = closing \cup
              {[batch |-> r.batch, by |-> r.user, at |-> now, valueAt |-> r.valueAt,
                began |-> r.began, approvedBy |-> {v.by : v \in r.approvals}]}
        /\ Finish(a)
        /\ UNCHANGED <<now, preview, vote>>

-----------------------------------------------------------------------------
Next ==
    \/ Tick
    \/ \E b \in Batches : Supersede(b)
    \/ \E a \in Actors, u \in Users, b \in Batches :
          \/ PreviewRead(a, u, b)
          \/ ApproveRead(a, u, b)
          \/ \E valueAt \in ValueTimes : ExecuteLoad(a, u, b, valueAt)
          \/ CloseZeroNetLoad(a, u, b)
    \/ \E a \in Actors : \/ PreviewCommit(a) \/ ApproveCommit(a)
                         \/ ExecuteGate(a) \/ ExecuteLevel(a) \/ ExecuteClose(a)
                         \/ GiveUp(a)

Spec == Init /\ [][Next]_vars

-----------------------------------------------------------------------------
(***************************************************************************)
(* Properties.                                                             *)
(***************************************************************************)
\* The shape of the rows and of the requests in flight.  A bank value date is
\* within the window around the instant its request began.
TypeOK ==
    /\ now \in Times
    /\ status \in [Batches -> {"ready", "settled", "superseded"}]
    /\ preview \subseteq [batch : Batches, at : Times]
    /\ vote \subseteq [batch : Batches, by : Users, at : Times]
    /\ closing \subseteq [batch : Batches, by : Users, at : Times, began : Times,
                          valueAt : ValueTimes, approvedBy : SUBSET Users]
    /\ \A c \in closing : c.valueAt \in (c.began - MaxAge)..(c.began + MaxSkew)
    /\ \A a \in Actors :
          \/ request[a] = NoRequest
          \/ /\ request[a].pc \in {"preview", "approve", "gate", "level", "close"}
             /\ request[a].user \in Users /\ request[a].batch \in Batches
             /\ request[a].began \in 0..now /\ request[a].valueAt \in ValueTimes
             /\ request[a].approvals \subseteq vote

\* Proposing, approving and executing are never one person's: the approvers a
\* close counts hold unlapsed votes for this batch as of the request, and
\* neither the proposer nor the executor is among them.
DutiesSeparated == \A c \in closing :
    /\ c.approvedBy # {}
    /\ c.by \notin c.approvedBy
    /\ Proposer[c.batch] \notin c.approvedBy
    /\ \A u \in c.approvedBy :
          \E v \in vote : v.batch = c.batch /\ v.by = u /\ Active(v, c.began)

\* A batch above T2 closes only on the votes of two different people, one of
\* them senior, even when one identity has got two unlapsed votes recorded by
\* submitting twice.
LargeClosesNeedTwoPeople == \A c \in closing : Magnitude[c.batch] > T2 =>
    Cardinality(c.approvedBy) >= 2 /\ c.approvedBy \cap Seniors # {}

\* A batch closes at most once, and a superseded one never.
ClosesOnce == \A b \in Batches :
    Cardinality({c \in closing : c.batch = b}) = IF status[b] = "settled" THEN 1 ELSE 0

\* Every close has its authority, for any interleaving of previews, votes,
\* lapses, double submits and executions.
ClosesAreAuthorised ==
    /\ TypeOK
    /\ DutiesSeparated
    /\ LargeClosesNeedTwoPeople
    /\ ClosesOnce

AuthorisedFor(c, amount) ==
    amount > T2 => Cardinality(c.approvedBy) >= 2 /\ c.approvedBy \cap Seniors # {}

\* Spreading a payment over several batches, some of them closed without a
\* transfer or dated to another bank day, does not lower the level: a close is
\* authorised for its own magnitude and all that was closed earlier on its
\* recording day, before its request began.
AggregateGoverns == \A c \in closing : Day(c.began) = Day(c.at) =>
    AuthorisedFor(c, Magnitude[c.batch]
                     + Total({d \in closing : d.at < c.began /\ Day(d.at) = Day(c.at)}))

\* "splitting to duck a band applies the aggregate's band to every fragment"
\* (settlement-approval-policy.ts): at the instant of a close, it is authorised
\* for everything closed on this day.  Does not hold (README, section 6): two
\* executions read the aggregate before either closes.
NoFragmentation ==
    [][\A c \in closing' \ closing : Day(c.began) = Day(c.at) =>
          AuthorisedFor(c, Magnitude[c.batch] + RecordingDayTotal(c.batch, c.at))]_vars

\* "the executor appears among NO approvers" (assertExecutionBinding): when a
\* batch closes, its executor has no unlapsed vote for it.  Not so: he may vote
\* after his request has passed the gate (README, section 6).
ExecutorHasNoVote ==
    [][\A c \in closing' \ closing : \A v \in vote :
          v.batch = c.batch /\ Active(v, now) => v.by # c.by]_vars

-----------------------------------------------------------------------------
(***************************************************************************)
(* The invariant behind ClosesAreAuthorised and AggregateGoverns: what a   *)
(* request has been granted by the gate and by the level stays true until  *)
(* it closes, whoever votes, closes or lets time pass in between.          *)
(***************************************************************************)
VoteRows == [batch : Batches, by : Users, at : Times]
Places == {"idle", "preview", "approve", "gate", "level", "close"}
RequestRows == [pc : Places, user : Users \cup {"none"}, batch : Batches \cup {"none"},
                began : Times, valueAt : ValueTimes, approvals : SUBSET VoteRows]

RequestsTyped == request \in [Actors -> RequestRows]

RowsAreFinite == IsFiniteSet(vote) /\ IsFiniteSet(closing)

\* Nobody votes for a batch he has proposed, also not by a vote in flight.
ProposersDoNotVote ==
    /\ \A v \in vote : v.by # Proposer[v.batch]
    /\ \A a \in Actors : request[a].pc = "approve" => request[a].user # Proposer[request[a].batch]

\* A request carries its value date, within the window of its beginning.
ValueDatesInWindow == \A a \in Actors : request[a].pc \in {"gate", "level", "close"} =>
    request[a].valueAt \in (request[a].began - MaxAge)..(request[a].began + MaxSkew)

\* The approvals a request has passed the gate with: one per person, unlapsed
\* when it began, none of them the executor's.
GatedRequestsAreBound == \A a \in Actors : request[a].pc \in {"level", "close"} =>
    /\ request[a].approvals # {}
    /\ \A v \in request[a].approvals :
          v.batch = request[a].batch /\ v.by # request[a].user /\ Active(v, request[a].began)
    /\ \A v, w \in request[a].approvals : v.by = w.by => v = w

ClosesInTime == \A c \in closing : c.began <= c.at /\ c.at <= now

\* What was closed on the day of t before a request for b began.
EarlierCloses(b, began, t) ==
    {d \in closing : d.batch # b /\ d.at < began /\ Day(d.at) = Day(t)}

TwoPeople(approvals) ==
    Cardinality(approvals) >= 2 /\ \E v \in approvals : v.by \in Seniors

\* A request that has passed the level has the votes its batch needs alone, and
\* with all that was closed earlier on this day as long as the day lasts.
LevelledRequestsAreGranted == \A a \in Actors : request[a].pc = "close" =>
    LET r == request[a]
    IN  /\ Magnitude[r.batch] > T2 => TwoPeople(r.approvals)
        /\ Day(r.began) = Day(now)
              /\ Magnitude[r.batch] + Total(EarlierCloses(r.batch, r.began, now)) > T2
              => TwoPeople(r.approvals)

AuthorizationInv ==
    /\ ClosesAreAuthorised
    /\ AggregateGoverns
    /\ RequestsTyped
    /\ RowsAreFinite
    /\ ProposersDoNotVote
    /\ ValueDatesInWindow
    /\ GatedRequestsAreBound
    /\ ClosesInTime
    /\ LevelledRequestsAreGranted
=============================================================================
