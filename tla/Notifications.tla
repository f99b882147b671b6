--------------------------- MODULE Notifications ---------------------------
(***************************************************************************)
(* What one user is told, and when: the reminder worker, the digest        *)
(* worker, the orchestrator both go through, and the operator's cleanup of *)
(* stale claims (occasion-reminder-worker.service.ts,                      *)
(* digest-worker.service.ts, notification-orchestrator.service.ts,         *)
(* notification-budget.ts, occasions.service.ts, occasion-recurrence.ts).  *)
(*                                                                         *)
(* Workers are started by operators and may overlap.  A reminder is        *)
(* claimed, decided, written and then marked, with an await between each;  *)
(* a worker may die at any of them.  Days are numbers; a yearly occasion   *)
(* comes back every Period days.                                           *)
(***************************************************************************)
EXTENDS Integers, Sequences, FiniteSets

CONSTANTS
    Reminders,    \* OccasionReminder rows of the user's occasion
    DaysBefore,   \* how long before the occasion each one fires
    Runners,      \* worker runs in flight at once
    Period,       \* length of a year
    LastDay,      \* bound on the days
    Cap,          \* notifications of a category a day
    MaxRows,      \* bound on the notifications
    MaxDown       \* bound on the workers that die or whose write fails

ASSUME NotificationsAssumption ==
    /\ IsFiniteSet(Runners) /\ "none" \notin Reminders
    /\ DaysBefore \in [Reminders -> Nat] /\ Period \in Nat \ {0}
    /\ LastDay \in Nat /\ Cap \in Nat \ {0} /\ MaxRows \in Nat /\ MaxDown \in Nat

VARIABLES
    today,
    occasion,     \* the occasion: live, its day, whether it comes back
    enabled,      \* the reminders that are on
    optOuts,      \* categories the user has switched off
    digestOn,     \* NotificationPreferences.digestEnabled
    firing,       \* ReminderFiring.status per reminder and occurrence
    releases,     \* how often a claim was deleted by a forced cleanup
    inbox,        \* the Notification rows, in the order they were written
    runner,       \* worker runs in flight
    cleaner,      \* the cleanup: the stale claims it has found
    down

ownerVars == <<occasion, enabled, optOuts, digestOn>>
firingVars == <<firing, releases>>
notificationVars == <<today, ownerVars, firingVars, inbox, runner, cleaner, down>>

Occurrences == 0..(LastDay + Period)
FiringKeys == Reminders \X Occurrences
NoKey == <<"none", 0>>
NoRun == [pc |-> "idle", todo |-> {}, key |-> NoKey, cat |-> "none", rows |-> {}, decision |-> "none"]
NoCleanup == [ids |-> {}, force |-> FALSE]
Positions == 1..Len(inbox)
AsleepAt(w) == runner[w] = NoRun
Step(w, r) == runner' = [runner EXCEPT ![w] = r]

NotificationsInit ==
    /\ today = 0
    /\ occasion \in [live : {TRUE}, on : 0..LastDay, yearly : BOOLEAN]
    /\ enabled = Reminders /\ optOuts = {} /\ digestOn = TRUE
    /\ firing = [k \in FiringKeys |-> "none"]
    /\ releases = [k \in FiringKeys |-> 0]
    /\ inbox = <<>>
    /\ runner = [w \in Runners |-> NoRun] /\ cleaner = NoCleanup /\ down = 0

-----------------------------------------------------------------------------
NextDay ==
    /\ today < LastDay /\ today' = today + 1
    /\ UNCHANGED <<ownerVars, firingVars, inbox, runner, cleaner, down>>

\* update and softDelete of the occasion, upsertReminder, deleteReminder and
\* updateForViewer, at any time; mandatory categories cannot be switched off.
OwnerEdits ==
    /\ \/ \E d \in 0..LastDay : occasion' = [occasion EXCEPT !.on = d] /\ UNCHANGED <<enabled, optOuts, digestOn>>
       \/ occasion' = [occasion EXCEPT !.live = FALSE] /\ UNCHANGED <<enabled, optOuts, digestOn>>
       \/ enabled' \in SUBSET Reminders /\ UNCHANGED <<occasion, optOuts, digestOn>>
       \/ \E c \in {"reminder", "system"} : optOuts' = optOuts \cup {c} /\ UNCHANGED <<occasion, enabled, digestOn>>
       \/ digestOn' = FALSE /\ UNCHANGED <<occasion, enabled, optOuts>>
    /\ occasion.live
    /\ UNCHANGED <<today, firingVars, inbox, runner, cleaner, down>>

\* nextOccurrence: the occasion's day, not before today; -1 when it has passed.
NextOccurrence(d) ==
    IF occasion.on >= d THEN occasion.on
    ELSE IF occasion.yearly THEN occasion.on + Period ELSE -1

\* The candidates of a run whose firing day is today.
InWindow == {<<r, NextOccurrence(today)>> : r \in {x \in enabled :
                /\ occasion.live /\ NextOccurrence(today) # -1
                /\ NextOccurrence(today) - DaysBefore[x] = today}}

ReminderRun(w) ==
    /\ AsleepAt(w) /\ InWindow # {}
    /\ Step(w, [NoRun EXCEPT !.pc = "scan", !.todo = InWindow])
    /\ UNCHANGED <<today, ownerVars, firingVars, inbox, cleaner, down>>

ClaimTaken(k) == TRUE

\* The unique index on reminder and occurrence.
ClaimFree(k) == firing[k] = "none"

\* reminderProcessDecision: the allowlist, the sample and a dry run let a user
\* through or not.
LetThrough == BOOLEAN

\* The claim is inserted before anything is sent; a key that is taken, and a
\* user the rollout leaves out, is passed over.
ClaimReminder(w, k) ==
    /\ runner[w].pc = "scan" /\ k \in runner[w].todo
    /\ \E through \in LetThrough :
          IF through /\ ClaimFree(k)
          THEN /\ firing' = [firing EXCEPT ![k] = "claimed"]
               /\ Step(w, [runner[w] EXCEPT !.pc = "decide", !.todo = @ \ {k}, !.key = k, !.cat = "reminder"])
          ELSE /\ Step(w, [runner[w] EXCEPT !.todo = @ \ {k}])
               /\ firing' = firing
    /\ UNCHANGED <<today, ownerVars, releases, inbox, cleaner, down>>

ReminderRunEnds(w) ==
    /\ runner[w].pc = "scan" /\ runner[w].todo = {}
    /\ Step(w, NoRun)
    /\ UNCHANGED <<today, ownerVars, firingVars, inbox, cleaner, down>>

-----------------------------------------------------------------------------
\* trigger: any service tells the user something.
Trigger(w, cat) ==
    /\ AsleepAt(w)
    /\ Step(w, [NoRun EXCEPT !.pc = "decide", !.cat = cat])
    /\ UNCHANGED <<today, ownerVars, firingVars, inbox, cleaner, down>>

\* Rows of the category written in the last 24 hours, delivered or not.
DailyCount(cat) == Cardinality({i \in Positions : inbox[i].cat = cat /\ inbox[i].on = today})

OverCap(n) == n > Cap

AtCap(n) == n >= Cap

\* inQuietHours: the clock of the user's zone may say either.
QuietHours == BOOLEAN

\* evaluateBudget: opt-out, then the caps, then quiet hours.
Decisions(cat) ==
    IF cat = "security" THEN {"send"}
    ELSE IF cat \in optOuts THEN {"suppress"}
    ELSE {IF quiet \/ AtCap(DailyCount(cat)) THEN "queue" ELSE "send" : quiet \in QuietHours}

Decide(w) ==
    /\ runner[w].pc = "decide"
    /\ \E d \in Decisions(runner[w].cat) : Step(w, [runner[w] EXCEPT !.pc = "write", !.decision = d])
    /\ UNCHANGED <<today, ownerVars, firingVars, inbox, cleaner, down>>

\* What a worker does once the orchestrator has answered.
AfterWrite(w, decision) ==
    IF runner[w].key # NoKey THEN [runner[w] EXCEPT !.pc = "mark", !.decision = decision] ELSE NoRun

\* writeNotificationRow: a failed insert is answered as a suppression.
WriteRow(w) ==
    /\ runner[w].pc = "write"
    /\ \/ /\ runner[w].decision # "suppress" /\ Len(inbox) < MaxRows
          /\ inbox' = Append(inbox, [cat |-> runner[w].cat, key |-> runner[w].key, on |-> today,
                                     summary |-> runner[w].rows, stamps |-> 0,
                                     delivered |-> runner[w].decision = "send"])
          /\ Step(w, AfterWrite(w, runner[w].decision)) /\ down' = down
       \/ /\ runner[w].decision = "suppress"
          /\ Step(w, AfterWrite(w, "suppress")) /\ UNCHANGED <<inbox, down>>
       \/ /\ runner[w].decision # "suppress" /\ down < MaxDown /\ down' = down + 1
          /\ Step(w, AfterWrite(w, "suppress")) /\ inbox' = inbox
    /\ UNCHANGED <<today, ownerVars, firingVars, cleaner>>

SentAnyway(decision) == "sent"

FiringStatus(decision) == IF decision = "suppress" THEN "suppressed" ELSE "sent"

\* The claim gets its outcome by id; an error when a cleanup has deleted it.
MarkFiring(w) ==
    /\ runner[w].pc = "mark"
    /\ LET k == runner[w].key
       IN firing' = IF firing[k] = "none" THEN firing
                    ELSE [firing EXCEPT ![k] = FiringStatus(runner[w].decision)]
    /\ Step(w, [runner[w] EXCEPT !.pc = "scan", !.key = NoKey, !.cat = "none", !.decision = "none"])
    /\ UNCHANGED <<today, ownerVars, releases, inbox, cleaner, down>>

RunnerDies(w) ==
    /\ ~AsleepAt(w) /\ down < MaxDown /\ down' = down + 1
    /\ Step(w, NoRun)
    /\ UNCHANGED <<today, ownerVars, firingVars, inbox, cleaner>>

-----------------------------------------------------------------------------
\* cleanupStaleClaims: the claims older than the hours asked for, one at the
\* least, so of this day or an earlier one: whichever they are.  A dry run writes
\* nothing; the write repeats the status.
CleanupScan(force) ==
    /\ cleaner = NoCleanup
    /\ \E stale \in SUBSET {k \in FiringKeys : firing[k] = "claimed"} :
          stale # {} /\ cleaner' = [ids |-> stale, force |-> force]
    /\ UNCHANGED <<today, ownerVars, firingVars, inbox, runner, down>>

CleanupWrite ==
    /\ cleaner # NoCleanup
    /\ LET hit == {k \in cleaner.ids : firing[k] = "claimed"}
       IN /\ firing' = [k \in FiringKeys |-> IF k \notin hit THEN firing[k]
                                             ELSE IF cleaner.force THEN "none" ELSE "failed"]
          /\ releases' = [k \in FiringKeys |-> IF k \in hit /\ cleaner.force THEN releases[k] + 1 ELSE releases[k]]
    /\ cleaner' = NoCleanup
    /\ UNCHANGED <<today, ownerVars, inbox, runner, down>>

-----------------------------------------------------------------------------
\* The rows that wait for a digest: a queued summary is never among them.
Waiting == {i \in Positions : ~inbox[i].delivered /\ inbox[i].summary = {}}

DigestRun(w) ==
    /\ AsleepAt(w) /\ Waiting # {}
    /\ Step(w, [NoRun EXCEPT !.pc = "digest", !.rows = Waiting])
    /\ UNCHANGED <<today, ownerVars, firingVars, inbox, cleaner, down>>

StampAll(rows) == rows

\* markDelivered: updateMany with the null predicate.
Consumed(rows) == {i \in rows : ~inbox[i].delivered}

Stamped(rows) == [i \in Positions |-> IF i \in rows THEN [inbox[i] EXCEPT !.delivered = TRUE, !.stamps = @ + 1]
                                      ELSE inbox[i]]

\* A user without digests has the rows marked; a user who is not due, and a dry
\* run, is passed over; otherwise the rows are stamped before the summary goes
\* out, and nothing goes out when there was none left to stamp.
DigestStamp(w) ==
    /\ runner[w].pc = "digest"
    /\ LET rows == Consumed(runner[w].rows)
       IN \/ /\ ~digestOn /\ inbox' = Stamped(rows) /\ Step(w, NoRun)
          \/ /\ digestOn /\ inbox' = inbox /\ Step(w, NoRun)
          \/ /\ digestOn /\ inbox' = Stamped(rows)
             /\ Step(w, IF rows = {} THEN NoRun ELSE [runner[w] EXCEPT !.pc = "decide", !.cat = "system"])
    /\ UNCHANGED <<today, ownerVars, firingVars, cleaner, down>>

NotificationsNext ==
    \/ NextDay \/ OwnerEdits \/ CleanupWrite
    \/ \E force \in BOOLEAN : CleanupScan(force)
    \/ \E w \in Runners :
          \/ ReminderRun(w) \/ (\E k \in runner[w].todo : ClaimReminder(w, k)) \/ ReminderRunEnds(w)
          \/ (\E cat \in {"system", "security"} : Trigger(w, cat))
          \/ Decide(w) \/ WriteRow(w) \/ MarkFiring(w) \/ RunnerDies(w)
          \/ DigestRun(w) \/ DigestStamp(w)

NotificationsSpec == NotificationsInit /\ [][NotificationsNext]_notificationVars

-----------------------------------------------------------------------------
\* Type invariant of the notification tables and the runs.
NotificationsTypeOK ==
    /\ today \in 0..LastDay /\ enabled \subseteq Reminders /\ optOuts \subseteq {"reminder", "system"}
    /\ occasion \in [live : BOOLEAN, on : 0..LastDay, yearly : BOOLEAN] /\ digestOn \in BOOLEAN
    /\ firing \in [FiringKeys -> {"none", "claimed", "sent", "suppressed", "failed"}]
    /\ releases \in [FiringKeys -> Nat]
    /\ \A i \in Positions : inbox[i].cat \in {"reminder", "system", "security"}
    /\ \A w \in Runners : runner[w].pc \in {"idle", "scan", "decide", "write", "mark", "digest"}
    /\ cleaner.ids \subseteq FiringKeys /\ down \in 0..MaxDown

ToldOf(k) == {i \in Positions : inbox[i].key = k}

\* "A reminder fires AT MOST ONCE per occasion occurrence", over overlapping
\* runs, workers that die, dates the owner moves and cleanups; each forced
\* cleanup allows one more.
FiresOnce == \A k \in FiringKeys : Cardinality(ToldOf(k)) <= 1 + releases[k]

\* What the audit says of a firing is what happened: sent means the row is in
\* the inbox; suppressed means it is not, unless the claim was once released.
AuditTellsTheTruth ==
    \A k \in FiringKeys : /\ firing[k] = "sent" => ToldOf(k) # {}
                          /\ firing[k] = "suppressed" /\ releases[k] = 0 => ToldOf(k) = {}

\* However many runs decide at once, a day's alerts of an optional category
\* exceed its cap at most by the other runs in flight.
CapHolds ==
    \A cat \in {"reminder", "system"}, d \in 0..LastDay :
        Cardinality({i \in Positions : /\ inbox[i].cat = cat /\ inbox[i].on = d
                                       /\ inbox[i].delivered /\ inbox[i].stamps = 0})
            <= Cap + Cardinality(Runners) - 1

\* "A row's pushDeliveredAt is stamped EXACTLY once": overlapping digests never
\* stamp a row twice, and a row that was pushed at once is in no digest.
StampedOnce == \A i \in Positions : inbox[i].stamps <= 1

\* Nobody is told twice, or told otherwise than the audit says, or beyond the
\* caps, by runs that overlap and die.
ToldAsDecided ==
    /\ NotificationsTypeOK
    /\ FiresOnce
    /\ AuditTellsTheTruth
    /\ CapHolds
    /\ StampedOnce

\* "Skip the push so the user doesn't get two summaries": a row is counted in
\* one summary only.  Not so when the second run has found one row more: its
\* body counts all it had read (README, section 6).
CountedOnce ==
    \A i, j \in Positions : i # j => inbox[i].summary \cap inbox[j].summary = {}

-----------------------------------------------------------------------------
(***************************************************************************)
(* The inductive invariant: the runs in flight count against the limits    *)
(* the rows alone are held to.                                             *)
(***************************************************************************)
Categories == {"reminder", "system", "security"}
Capped == {"reminder", "system"}
InboxRows == [cat : Categories, key : FiringKeys \cup {NoKey}, on : 0..LastDay,
              summary : SUBSET Nat, stamps : Nat, delivered : BOOLEAN]
RunRows == [pc : {"idle", "scan", "decide", "write", "mark", "digest"}, todo : SUBSET FiringKeys,
            key : FiringKeys \cup {NoKey}, cat : Categories \cup {"none"}, rows : SUBSET Nat,
            decision : {"none", "send", "queue", "suppress"}]

\* A run has what its next step reads: its category, its decision, its key.
RunFits(r) ==
    /\ r \in RunRows
    /\ r.pc \in {"decide", "write"} => r.cat \in Categories
    /\ r.pc = "mark" => r.key # NoKey
    /\ r.pc \in {"write", "mark"} => r.decision # "none"
    /\ r.pc \in {"idle", "scan", "digest"} => r.key = NoKey

\* The runs that may still tell of a firing, or will say that nothing was told.
Owing(r, k) == r.key = k /\ (r.pc \in {"decide", "write"} \/ (r.pc = "mark" /\ r.decision = "suppress"))
Owes(k) == {w \in Runners : Owing(runner[w], k)}

\* The runs that have decided to alert at once, and the alerts of a day.
ToSend(r, cat) == r.pc = "write" /\ r.decision = "send" /\ r.cat = cat
Sending(cat) == {w \in Runners : ToSend(runner[w], cat)}
Alerts(cat, d) == {i \in Positions : /\ inbox[i].cat = cat /\ inbox[i].on = d
                                     /\ inbox[i].delivered /\ inbox[i].stamps = 0}

RunsFit ==
    /\ runner \in [Runners -> RunRows] /\ \A w \in Runners : RunFits(runner[w])
    /\ inbox \in Seq(InboxRows) /\ \A i \in Positions : inbox[i].on <= today

\* Only a row that was not delivered is stamped.
StampsTell == \A i \in Positions : inbox[i].stamps <= 1 /\ (~inbox[i].delivered => inbox[i].stamps = 0)

\* The rows of a firing and the runs that owe it are no more than the claims it had.
OwedOrTold ==
    \A k \in FiringKeys :
        Cardinality(ToldOf(k)) + Cardinality(Owes(k)) <= releases[k] + (IF firing[k] = "none" THEN 0 ELSE 1)

\* What a run is about to mark, and what is marked, has happened.
MarkedAsTold ==
    /\ \A w \in Runners, k \in FiringKeys :
          runner[w].pc = "mark" /\ runner[w].decision # "suppress" /\ runner[w].key = k => ToldOf(k) # {}
    /\ \A k \in FiringKeys :
          /\ firing[k] = "sent" => ToldOf(k) # {}
          /\ firing[k] = "suppressed" /\ releases[k] = 0 => ToldOf(k) = {} /\ Owes(k) = {}

\* Today's alerts with those on their way stay within the cap and the other runs.
CapsAhead ==
    /\ \A cat \in Capped :
          Cardinality(Alerts(cat, today)) + Cardinality(Sending(cat)) <= Cap + Cardinality(Runners) - 1
    /\ CapHolds

NotificationsInv ==
    /\ NotificationsTypeOK /\ RunsFit /\ StampsTell
    /\ OwedOrTold /\ MarkedAsTold
    /\ CapsAhead
=============================================================================
