-------------------- MODULE SettlementAuthorizationProofs --------------------
(***************************************************************************)
(* Proofs about who may close a batch, for any operators, batches,         *)
(* requests in flight, thresholds, periods and number of votes.            *)
(***************************************************************************)
EXTENDS SettlementAuthorization, SumTheorems

CloseRows == [batch : Batches, by : Users, at : Times, began : Times,
              valueAt : ValueTimes, approvedBy : SUBSET Users]

Adds(g, S) ==
    g = [s \in SUBSET S |-> IF s = {} THEN 0
                            ELSE Magnitude[Chosen(s).batch] + g[s \ {Chosen(s)}]]

\* The total of some closes is the sum of their magnitudes.
LEMMA TotalIsSum ==
    ASSUME NEW S, IsFiniteSet(S), NEW w, \A c \in S : w[c] = Magnitude[c.batch]
    PROVE  Total(S) = SumOf(w, S)
<1> DEFINE g == CHOOSE h : Adds(h, S)
<1>1. Total(S) = g[S]
  BY DEF Total, MapThenSumSet, MapThenFoldSet, Adds, Chosen
<1>2. ASSUME NEW h PROVE Adds(h, S) <=> Unfolds(h, w, S)
  <2> DEFINE A(s) == IF s = {} THEN 0 ELSE Magnitude[Chosen(s).batch] + h[s \ {Chosen(s)}]
             U(s) == IF s = {} THEN 0 ELSE w[Chosen(s)] + h[s \ {Chosen(s)}]
  <2>1. \A s \in SUBSET S : A(s) = U(s)
    BY ChosenInSet
  <2>2. [s \in SUBSET S |-> A(s)] = [s \in SUBSET S |-> U(s)]
    <3> HIDE DEF A, U
    <3> QED
      BY <2>1
  <2> QED
    BY <2>2 DEF Adds, Unfolds
<1>3. \E h : Adds(h, S)
  BY <1>2, UnfoldsExist
<1>4. Adds(g, S)
  BY <1>3, Zenon
<1> HIDE DEF g
<1> QED
  BY <1>1, <1>2, <1>4, SumIsUnfolded

\* Totals of closes are naturals that grow with the closes.
LEMMA TotalsGrow ==
    ASSUME AuthorizationInv, NEW S \in SUBSET closing, NEW R \in SUBSET S
    PROVE  Total(S) \in Nat /\ Total(R) \in Nat /\ Total(R) <= Total(S)
<1> DEFINE w == [c \in closing |-> Magnitude[c.batch]]
<1>1. IsFiniteSet(S) /\ IsFiniteSet(R)
  BY FS_Subset DEF AuthorizationInv, RowsAreFinite
<1>2. \A c \in closing : w[c] = Magnitude[c.batch] /\ w[c] \in Nat
  BY AuthorizationAssumption DEF AuthorizationInv, ClosesAreAuthorised, TypeOK
<1> HIDE DEF w
<1>3. Total(S) = SumOf(w, S) /\ Total(R) = SumOf(w, R)
  BY <1>1, <1>2, TotalIsSum
<1>4. SumOf(w, S) \in Nat /\ SumOf(w, R) \in Nat
  BY <1>1, <1>2, SumIsNatural
<1>5. SumOf(w, R) <= SumOf(w, S)
  BY <1>1, <1>2, SumMonotone
<1> QED
  BY <1>3, <1>4, <1>5

\* Days pass in order.
LEMMA DaysInOrder ==
    ASSUME NEW s \in Nat, NEW t \in Nat, NEW u \in Nat, s <= t, t <= u, Day(s) = Day(u)
    PROVE  Day(s) = Day(t)
<1>1. Day(s) \in Nat /\ Day(t) \in Nat /\ Day(u) \in Nat
  BY AuthorizationAssumption DEF Day
<1>2. /\ DayLength * Day(s) <= s /\ s < DayLength * Day(s) + DayLength
      /\ DayLength * Day(t) <= t /\ t < DayLength * Day(t) + DayLength
      /\ DayLength * Day(u) <= u /\ u < DayLength * Day(u) + DayLength
  BY AuthorizationAssumption DEF Day
<1>3. ASSUME NEW d \in Nat, NEW i \in Nat, NEW j \in Nat, d * i < d * j + d PROVE i <= j
  <2> SUFFICES ASSUME i >= j + 1 PROVE FALSE
    OBVIOUS
  <2>1. PICK k \in Nat : i = j + 1 + k
    <3>1. i - (j + 1) \in Nat /\ i = j + 1 + (i - (j + 1))
      OBVIOUS
    <3> QED
      BY <3>1
  <2>2. d * i = d * j + d + d * k
    BY <2>1
  <2>3. d * k \in Nat /\ d * j \in Nat
    OBVIOUS
  <2> QED
    BY <1>3, <2>2, <2>3
<1> DEFINE L == DayLength
           ds == Day(s)
           dt == Day(t)
           du == Day(u)
<1>4. L \in Nat /\ L * ds \in Nat /\ L * dt \in Nat /\ L * du \in Nat
  BY <1>1, AuthorizationAssumption
<1>5. L * ds < L * dt + L /\ L * dt < L * du + L
  <2> HIDE DEF ds, dt, du, L
  <2>1. L * ds <= s /\ t < L * dt + L /\ L * dt <= t /\ u < L * du + L
    BY <1>2 DEF ds, dt, du, L
  <2> QED
    BY <1>4, <2>1
<1> HIDE DEF ds, dt, du, L
<1>6. ds \in Nat /\ dt \in Nat /\ du \in Nat /\ ds = du
  BY <1>1 DEF ds, dt, du
<1>7. ds <= dt /\ dt <= du
  BY <1>3, <1>4, <1>5, <1>6
<1> QED
  BY <1>6, <1>7 DEF ds, dt

-----------------------------------------------------------------------------
(***************************************************************************)
(* The invariant in two halves: what the rows say, and what each request   *)
(* in flight may rely on.                                                  *)
(***************************************************************************)
RowsTyped ==
    /\ now \in Times
    /\ status \in [Batches -> {"ready", "settled", "superseded"}]
    /\ preview \subseteq [batch : Batches, at : Times]
    /\ vote \subseteq VoteRows
    /\ closing \subseteq CloseRows
    /\ \A c \in closing : c.valueAt \in (c.began - MaxAge)..(c.began + MaxSkew)

RowsHold ==
    /\ RowsTyped
    /\ RowsAreFinite
    /\ \A v \in vote : v.by # Proposer[v.batch]
    /\ DutiesSeparated /\ LargeClosesNeedTwoPeople /\ ClosesOnce
    /\ AggregateGoverns /\ ClosesInTime

Granted(r) ==
    /\ Magnitude[r.batch] > T2 => TwoPeople(r.approvals)
    /\ Day(r.began) = Day(now)
          /\ Magnitude[r.batch] + Total(EarlierCloses(r.batch, r.began, now)) > T2
          => TwoPeople(r.approvals)

RequestFits(r) ==
    /\ \/ r = NoRequest
       \/ /\ r.pc \in {"preview", "approve", "gate", "level", "close"}
          /\ r.user \in Users /\ r.batch \in Batches
          /\ r.began \in 0..now /\ r.valueAt \in ValueTimes
          /\ r.approvals \subseteq vote
    /\ r.pc = "approve" => r.user # Proposer[r.batch]
    /\ r.pc \in {"gate", "level", "close"} =>
          r.valueAt \in (r.began - MaxAge)..(r.began + MaxSkew)
    /\ r.pc \in {"level", "close"} =>
          /\ r.approvals # {}
          /\ \A v \in r.approvals : v.batch = r.batch /\ v.by # r.user /\ Active(v, r.began)
          /\ \A v, w \in r.approvals : v.by = w.by => v = w
    /\ r.pc = "close" => Granted(r)

\* The two halves are the invariant.
LEMMA InvInHalves ==
    AuthorizationInv <=> /\ RowsHold
                         /\ request \in [Actors -> RequestRows]
                         /\ \A a \in Actors : RequestFits(request[a])
  BY DEF AuthorizationInv, ClosesAreAuthorised, TypeOK, RowsHold, RowsTyped, RequestFits, Granted,
         RequestsTyped, ProposersDoNotVote, ValueDatesInWindow, GatedRequestsAreBound,
         LevelledRequestsAreGranted, CloseRows, VoteRows

\* The same of the next state.
LEMMA HalvesMakeInv ==
    ASSUME RowsHold', request' \in [Actors -> RequestRows],
           \A a \in Actors : RequestFits(request[a])'
    PROVE  AuthorizationInv'
  BY DEF AuthorizationInv, ClosesAreAuthorised, TypeOK, RowsHold, RowsTyped, RequestFits, Granted,
         RequestsTyped, ProposersDoNotVote, ValueDatesInWindow, GatedRequestsAreBound,
         LevelledRequestsAreGranted, CloseRows, VoteRows

\* An ended request relies on nothing.
LEMMA NoRequestFits == NoRequest \in RequestRows /\ RequestFits(NoRequest) /\ RequestFits(NoRequest)'
<1>1. 0 \in Times /\ 0 \in ValueTimes
  BY AuthorizationAssumption DEF Times, ValueTimes
<1>2. NoRequest \in RequestRows
  BY <1>1 DEF NoRequest, RequestRows, Places
<1>3. RequestFits(NoRequest) /\ RequestFits(NoRequest)'
  BY DEF RequestFits, NoRequest
<1> QED
  BY <1>2, <1>3

\* The settlement starts without votes, closes or requests.
LEMMA InitEstablishesInv == Init => AuthorizationInv
<1> SUFFICES ASSUME Init PROVE AuthorizationInv
  OBVIOUS
<1> USE AuthorizationAssumption DEF Init
<1>1. request \in [Actors -> RequestRows] /\ \A a \in Actors : RequestFits(request[a])
  BY NoRequestFits
<1>2. RowsTyped /\ RowsAreFinite /\ \A v \in vote : v.by # Proposer[v.batch]
  BY FS_EmptySet DEF RowsTyped, RowsAreFinite, Times
<1>3. DutiesSeparated /\ LargeClosesNeedTwoPeople /\ AggregateGoverns /\ ClosesInTime
  BY DEF DutiesSeparated, LargeClosesNeedTwoPeople, AggregateGoverns, ClosesInTime
<1>4. ClosesOnce
  <2>1. \A b \in Batches : {c \in closing : c.batch = b} = {}
    OBVIOUS
  <2> QED
    BY <2>1, FS_EmptySet DEF ClosesOnce
<1> QED
  BY <1>1, <1>2, <1>3, <1>4, InvInHalves DEF RowsHold

\* A step that moves one request only.
LEMMA RequestStepKeepsInv ==
    ASSUME AuthorizationInv, NEW a \in Actors, NEW new \in RequestRows, RequestFits(new),
           request' = [request EXCEPT ![a] = new],
           UNCHANGED <<now, status, preview, vote, closing>>
    PROVE  AuthorizationInv'
<1>1. RowsHold /\ request \in [Actors -> RequestRows] /\ \A c \in Actors : RequestFits(request[c])
  BY InvInHalves
<1>2. /\ request' \in [Actors -> RequestRows]
      /\ \A c \in Actors : request'[c] = IF c = a THEN new ELSE request[c]
  BY <1>1
<1>3. \A c \in Actors : RequestFits(request'[c])
  BY <1>1, <1>2
<1>4. \A c \in Actors : RequestFits(request[c])'
  BY <1>3 DEF RequestFits, Granted, EarlierCloses, Active
<1>5. RowsHold'
  BY <1>1 DEF RowsHold, RowsTyped, RowsAreFinite, DutiesSeparated, LargeClosesNeedTwoPeople,
              ClosesOnce, AggregateGoverns, ClosesInTime
<1> QED
  BY <1>2, <1>4, <1>5, HalvesMakeInv

\* What a request relies on survives new votes, new closes and time.
LEMMA FitsSurvives ==
    ASSUME AuthorizationInv, NEW r \in RequestRows, RequestFits(r),
           vote \subseteq vote', now' \in Times, now <= now',
           closing \subseteq closing', \A c \in closing' \ closing : c.at = now
    PROVE  RequestFits(r)'
<1>1. now \in Nat /\ now' \in Nat /\ 0..now \subseteq 0..now'
  BY AuthorizationAssumption, InvInHalves DEF RowsHold, RowsTyped, Times
<1>2. \/ r = NoRequest
      \/ /\ r.pc \in {"preview", "approve", "gate", "level", "close"}
         /\ r.user \in Users /\ r.batch \in Batches
         /\ r.began \in 0..now' /\ r.valueAt \in ValueTimes
         /\ r.approvals \subseteq vote'
  BY <1>1 DEF RequestFits
<1>3. r.pc = "close" => Granted(r)'
  <2> SUFFICES ASSUME r.pc = "close" PROVE Granted(r)'
    OBVIOUS
  <2>1. r.began \in 0..now /\ Granted(r)
    BY DEF RequestFits, NoRequest
  <2> SUFFICES ASSUME Day(r.began) = Day(now')
               PROVE  Magnitude[r.batch] + Total(EarlierCloses(r.batch, r.began, now)') > T2
                         => TwoPeople(r.approvals)
    BY <2>1 DEF Granted
  <2>2. Day(r.began) = Day(now)
    BY <1>1, <2>1, DaysInOrder
  <2>3. EarlierCloses(r.batch, r.began, now)' = EarlierCloses(r.batch, r.began, now)
    BY <1>1, <2>1, <2>2 DEF EarlierCloses
  <2> QED
    BY <2>1, <2>2, <2>3 DEF Granted
<1> QED
  BY <1>2, <1>3 DEF RequestFits, Active

\* A request that begins holds the clock value it has read, and no approval.
LEMMA BeginsKeepInv ==
    ASSUME AuthorizationInv, NEW a \in Actors, NEW u \in Users, NEW b \in Batches,
           \/ PreviewRead(a, u, b)
           \/ ApproveRead(a, u, b)
           \/ \E valueAt \in ValueTimes : ExecuteLoad(a, u, b, valueAt)
           \/ CloseZeroNetLoad(a, u, b)
    PROVE  AuthorizationInv'
<1>1. /\ now \in Times /\ now \in Nat /\ now \in Int /\ now \in 0..now
      /\ now \in ValueTimes /\ 0 \in ValueTimes
  BY AuthorizationAssumption, InvInHalves DEF RowsHold, RowsTyped, Times, ValueTimes
<1>2. PICK l \in {"preview", "approve", "gate"}, t \in ValueTimes :
         /\ Begin(a, u, b, l, t)
         /\ UNCHANGED <<now, status, preview, vote, closing>>
         /\ l = "approve" => u # Proposer[b]
         /\ l = "gate" => now - t <= MaxAge /\ t - now <= MaxSkew
  BY <1>1, AuthorizationAssumption
     DEF PreviewRead, ApproveRead, MayApprove, ExecuteLoad, InWindow, CloseZeroNetLoad
<1> DEFINE new == [pc |-> l, user |-> u, batch |-> b, began |-> now, valueAt |-> t, approvals |-> {}]
<1>3. request' = [request EXCEPT ![a] = new]
  BY <1>2 DEF Begin
<1>4. new \in RequestRows
  BY <1>1, <1>2 DEF RequestRows, Places
<1>5. l = "gate" => t \in (now - MaxAge)..(now + MaxSkew)
  BY <1>1, <1>2, AuthorizationAssumption DEF ValueTimes
<1>6. RequestFits(new)
  BY <1>1, <1>2, <1>5 DEF RequestFits
<1> HIDE DEF new
<1> QED
  BY <1>2, <1>3, <1>4, <1>6, RequestStepKeepsInv

\* The gate: a preview, and approvals that are one per person, unlapsed and
\* not the executor's.
LEMMA GateKeepsInv ==
    ASSUME AuthorizationInv, NEW a \in Actors, ExecuteGate(a)
    PROVE  AuthorizationInv'
<1> DEFINE r == request[a]
           approvals == CountedVotes(r.batch, r.began)
           new == [r EXCEPT !.pc = "level", !.approvals = approvals]
<1>1. r \in RequestRows /\ request \in [Actors -> RequestRows] /\ RequestFits(r) /\ RowsHold
  BY InvInHalves
<1>2. r.pc = "gate" /\ Binds(approvals, r.user) /\ UNCHANGED <<now, status, preview, vote, closing>>
  BY DEF ExecuteGate
<1>3. request' = [request EXCEPT ![a] = new]
  <2>1. request' = [request EXCEPT ![a].pc = "level", ![a].approvals = approvals]
    BY DEF ExecuteGate
  <2> QED
    BY <1>1, <2>1
<1>4. approvals \subseteq vote /\ vote \subseteq VoteRows
  BY <1>1 DEF CountedVotes, RowsHold, RowsTyped
<1>5. /\ new \in RequestRows /\ new.pc = "level" /\ new.approvals = approvals
      /\ new.user = r.user /\ new.batch = r.batch /\ new.began = r.began
      /\ new.valueAt = r.valueAt
  BY <1>1, <1>4 DEF RequestRows, Places
<1>6. /\ approvals # {}
      /\ \A v \in approvals : v.batch = r.batch /\ v.by # r.user /\ Active(v, r.began)
  BY <1>2 DEF Binds, CountedVotes
<1>7. ASSUME NEW v \in approvals, NEW w \in approvals, v.by = w.by PROVE v = w
  <2>1. v \in vote /\ w \in vote /\ v.batch = w.batch /\ w.at <= v.at /\ v.at <= w.at
    BY <1>7 DEF CountedVotes
  <2>2. v \in VoteRows /\ w \in VoteRows /\ v.at \in Nat /\ w.at \in Nat
    BY <1>4, <2>1 DEF VoteRows, Times
  <2>3. v.at = w.at
    BY <2>1, <2>2
  <2> QED
    BY <1>7, <2>1, <2>2, <2>3 DEF VoteRows
<1>8. RequestFits(new)
  <2> HIDE DEF new, approvals
  <2> QED
    BY <1>1, <1>2, <1>4, <1>5, <1>6, <1>7 DEF RequestFits, NoRequest
<1> HIDE DEF new
<1> QED
  BY <1>2, <1>3, <1>5, <1>8, RequestStepKeepsInv

\* The aggregate a level is taken from is at least what was closed earlier on
\* the day, and never negative.
LEMMA AggregateCoversTheDay ==
    ASSUME AuthorizationInv, NEW a \in Actors
    PROVE  LET r == request[a]
           IN  /\ SameDay(r) \in Nat
               /\ Total(EarlierCloses(r.batch, r.began, now)) \in Nat
               /\ Total(EarlierCloses(r.batch, r.began, now)) <= SameDay(r)
<1> DEFINE r == request[a]
           day == {c \in closing : c.batch # r.batch /\ Day(c.at) = Day(now)}
           valueDay == {c \in closing :
              /\ c.batch # r.batch
              /\ Day(IF ClosedZeroNet(c) THEN c.at ELSE c.valueAt) = Day(r.valueAt)}
           earlier == EarlierCloses(r.batch, r.began, now)
           x == RecordingDayTotal(r.batch, now)
           y == ValueDayTotal(r.batch, r.valueAt)
<1>1. x \in Nat /\ Total(earlier) \in Nat /\ Total(earlier) <= x
  <2>1. day \in SUBSET closing /\ earlier \in SUBSET day /\ x = Total(day)
    BY DEF EarlierCloses, RecordingDayTotal
  <2> HIDE DEF day, earlier, x
  <2> QED
    BY <2>1, TotalsGrow
<1>2. y \in Nat
  <2>1. valueDay \in SUBSET closing /\ y = Total(valueDay)
    BY DEF ValueDayTotal
  <2> HIDE DEF valueDay, y
  <2> QED
    BY <2>1, TotalsGrow
<1>3. Max({x, y}) \in {x, y} /\ Max({x, y}) >= x
  <2> HIDE DEF x, y
  <2>1. \E m \in {x, y} : \A n \in {x, y} : m >= n
    BY <1>1, <1>2
  <2> DEFINE P(m) == m \in {x, y} /\ \A n \in {x, y} : m >= n
  <2>2. P(CHOOSE m : P(m))
    <3>1. \E m : P(m)
      BY <2>1
    <3> HIDE DEF P
    <3> QED
      BY <3>1, Zenon
  <2>3. Max({x, y}) = CHOOSE m : P(m)
    BY DEF Max
  <2> QED
    BY <2>2, <2>3
<1>4. SameDay(r) \in {x, Max({x, y})}
  BY DEF SameDay
<1> HIDE DEF x, y, earlier
<1>5. SameDay(r) \in Nat /\ Total(earlier) <= SameDay(r)
  BY <1>1, <1>2, <1>3, <1>4
<1> QED
  BY <1>1, <1>5 DEF earlier

\* The level: one vote, or above T2 two of which one is senior, for the batch
\* and what was closed on its day.
LEMMA LevelKeepsInv ==
    ASSUME AuthorizationInv, NEW a \in Actors, ExecuteLevel(a)
    PROVE  AuthorizationInv'
<1> DEFINE r == request[a]
           new == [r EXCEPT !.pc = "close"]
           own == Magnitude[r.batch]
           earlier == Total(EarlierCloses(r.batch, r.began, now))
           sameDay == SameDay(r)
<1>1. r \in RequestRows /\ request \in [Actors -> RequestRows] /\ RequestFits(r)
  BY InvInHalves
<1>2. /\ r.pc = "level" /\ Satisfies(r.approvals, own + sameDay)
      /\ UNCHANGED <<now, status, preview, vote, closing>>
      /\ request' = [request EXCEPT ![a].pc = "close"]
  BY DEF ExecuteLevel
<1>3. request' = [request EXCEPT ![a] = new]
  BY <1>1, <1>2
<1>4. /\ new \in RequestRows /\ new.pc = "close" /\ new.approvals = r.approvals
      /\ new.user = r.user /\ new.batch = r.batch /\ new.began = r.began
      /\ new.valueAt = r.valueAt
  BY <1>1 DEF RequestRows, Places
<1>5. own \in Nat /\ sameDay \in Nat /\ earlier \in Nat /\ earlier <= sameDay
  <2>1. r.batch \in Batches
    BY <1>1, <1>2 DEF RequestFits, NoRequest
  <2>2. own \in Nat
    BY <2>1, AuthorizationAssumption
  <2> HIDE DEF own
  <2> QED
    BY <2>2, AggregateCoversTheDay
<1>6. own + sameDay > T2 => TwoPeople(r.approvals)
  BY <1>2 DEF Satisfies, TwoPeople
<1>7. (own > T2 => TwoPeople(r.approvals)) /\ (own + earlier > T2 => TwoPeople(r.approvals))
  <2> HIDE DEF own, earlier, sameDay
  <2> QED
    BY <1>5, <1>6, AuthorizationAssumption
<1>8. RequestFits(new)
  <2> HIDE DEF new
  <2>1. Granted(new)
    BY <1>4, <1>7 DEF Granted
  <2> QED
    BY <1>1, <1>2, <1>4, <2>1 DEF RequestFits, NoRequest
<1> HIDE DEF new
<1> QED
  BY <1>2, <1>3, <1>4, <1>8, RequestStepKeepsInv

\* A request that is refused, or cut off.
LEMMA GiveUpKeepsInv ==
    ASSUME AuthorizationInv, NEW a \in Actors, GiveUp(a)
    PROVE  AuthorizationInv'
  BY NoRequestFits, RequestStepKeepsInv DEF GiveUp, Finish

\* Time passes, the engine supersedes a batch, a preview is recorded.
LEMMA QuietStepsKeepInv ==
    ASSUME AuthorizationInv,
           \/ Tick
           \/ \E b \in Batches : Supersede(b)
           \/ \E a \in Actors : PreviewCommit(a)
           \/ UNCHANGED vars
    PROVE  AuthorizationInv'
<1>1. RowsHold /\ request \in [Actors -> RequestRows] /\ \A c \in Actors : RequestFits(request[c])
  BY InvInHalves
<1>2. UNCHANGED <<vote, closing>>
  BY DEF Tick, Supersede, PreviewCommit, vars
<1>3. now \in Nat /\ now' \in Times /\ now <= now' /\ now' \in Nat
  BY <1>1, AuthorizationAssumption
     DEF Tick, Supersede, PreviewCommit, vars, RowsHold, RowsTyped, Times
<1>4. /\ request' \in [Actors -> RequestRows]
      /\ \A c \in Actors : request'[c] \in {request[c], NoRequest}
  BY <1>1, NoRequestFits DEF Tick, Supersede, PreviewCommit, vars, Finish
<1>5. \A c \in Actors : RequestFits(request[c])'
  <2> SUFFICES ASSUME NEW c \in Actors PROVE RequestFits(request[c])'
    OBVIOUS
  <2>1. \A r \in RequestRows : RequestFits(r) => RequestFits(r)'
    BY <1>2, <1>3, FitsSurvives
  <2>2. request'[c] \in RequestRows /\ RequestFits(request'[c])
    BY <1>1, <1>4, NoRequestFits
  <2>3. \A r \in RequestRows : r = request'[c] => RequestFits(request[c])'
    BY <2>1, <2>2 DEF RequestFits, Granted, EarlierCloses, Active
  <2> QED
    BY <2>2, <2>3
<1>6. /\ status' \in [Batches -> {"ready", "settled", "superseded"}]
      /\ \A b \in Batches : status'[b] = "settled" <=> status[b] = "settled"
  BY <1>1 DEF Tick, Supersede, PreviewCommit, vars, RowsHold, RowsTyped
<1>7. preview' \subseteq [batch : Batches, at : Times]
  <2>1. CASE preview' = preview
    BY <1>1, <2>1 DEF RowsHold, RowsTyped
  <2>2. ASSUME NEW a \in Actors, PreviewCommit(a) PROVE preview' \subseteq [batch : Batches, at : Times]
    <3>1. request[a].batch \in Batches /\ now \in Times
      BY <1>1, <2>2 DEF PreviewCommit, RequestFits, NoRequest, RowsHold, RowsTyped
    <3> QED
      BY <1>1, <2>2, <3>1 DEF PreviewCommit, RowsHold, RowsTyped
  <2> QED
    BY <2>1, <2>2 DEF Tick, Supersede, vars
<1>8. RowsTyped'
  BY <1>1, <1>2, <1>3, <1>6, <1>7 DEF RowsHold, RowsTyped
<1>9. ClosesInTime'
  <2>1. \A c \in closing : c.at \in Nat /\ c.began \in Nat
    BY <1>1 DEF RowsHold, RowsTyped, CloseRows, Times
  <2> QED
    BY <1>1, <1>2, <1>3, <2>1 DEF RowsHold, ClosesInTime
<1>10. RowsHold'
  BY <1>1, <1>2, <1>6, <1>8, <1>9
     DEF RowsHold, RowsAreFinite, DutiesSeparated, LargeClosesNeedTwoPeople, ClosesOnce,
         AggregateGoverns
<1> QED
  BY <1>4, <1>5, <1>10, HalvesMakeInv

\* A vote is recorded, of somebody who has not proposed the batch.
LEMMA ApproveKeepsInv ==
    ASSUME AuthorizationInv, NEW a \in Actors, ApproveCommit(a)
    PROVE  AuthorizationInv'
<1> DEFINE row == [batch |-> request[a].batch, by |-> request[a].user, at |-> now]
<1>1. RowsHold /\ request \in [Actors -> RequestRows] /\ \A c \in Actors : RequestFits(request[c])
  BY InvInHalves
<1>2. /\ request[a].pc = "approve" /\ vote' = vote \cup {row}
      /\ request' = [request EXCEPT ![a] = NoRequest]
      /\ UNCHANGED <<now, status, preview, closing>>
  BY DEF ApproveCommit, Finish
<1>3. /\ now \in Times /\ now \in Nat
      /\ request[a].batch \in Batches /\ request[a].user \in Users
      /\ request[a].user # Proposer[request[a].batch]
  BY <1>1, <1>2, AuthorizationAssumption
     DEF RequestFits, NoRequest, RowsHold, RowsTyped, Times
<1>4. row \in VoteRows /\ row.by # Proposer[row.batch]
  BY <1>3 DEF VoteRows
<1> HIDE DEF row
<1>5. /\ request' \in [Actors -> RequestRows]
      /\ \A c \in Actors : request'[c] \in {request[c], NoRequest}
  BY <1>1, <1>2, NoRequestFits
<1>6. \A c \in Actors : RequestFits(request[c])'
  <2> SUFFICES ASSUME NEW c \in Actors PROVE RequestFits(request[c])'
    OBVIOUS
  <2>1. \A r \in RequestRows : RequestFits(r) => RequestFits(r)'
    BY <1>2, <1>3, FitsSurvives
  <2>2. request'[c] \in RequestRows /\ RequestFits(request'[c])
    BY <1>1, <1>5, NoRequestFits
  <2>3. \A r \in RequestRows : r = request'[c] => RequestFits(request[c])'
    BY <2>1, <2>2 DEF RequestFits, Granted, EarlierCloses, Active
  <2> QED
    BY <2>2, <2>3
<1>7. RowsTyped'
  BY <1>1, <1>2, <1>4 DEF RowsHold, RowsTyped
<1>8. RowsAreFinite'
  BY <1>1, <1>2, FS_AddElement DEF RowsHold, RowsAreFinite
<1>9. \A v \in vote' : v.by # Proposer[v.batch]
  BY <1>1, <1>2, <1>4 DEF RowsHold
<1>10. DutiesSeparated'
  BY <1>1, <1>2 DEF RowsHold, DutiesSeparated, Active
<1>11. /\ LargeClosesNeedTwoPeople' /\ ClosesOnce' /\ AggregateGoverns' /\ ClosesInTime'
  BY <1>1, <1>2 DEF RowsHold, LargeClosesNeedTwoPeople, ClosesOnce, AggregateGoverns, ClosesInTime
<1>12. RowsHold'
  BY <1>7, <1>8, <1>9, <1>10, <1>11 DEF RowsHold
<1> QED
  BY <1>5, <1>6, <1>12, HalvesMakeInv

\* As many people as approvals, when no two approvals are one person's.
LEMMA PeopleAreCounted ==
    ASSUME NEW approvals, IsFiniteSet(approvals),
           \A v, w \in approvals : v.by = w.by => v = w, TwoPeople(approvals)
    PROVE  LET people == {v.by : v \in approvals}
           IN  Cardinality(people) >= 2 /\ people \cap Seniors # {}
<1> DEFINE people == {v.by : v \in approvals}
           f == [v \in approvals |-> v.by]
<1>1. f \in [approvals -> people] /\ \A v \in approvals : f[v] = v.by
  OBVIOUS
<1>2. f \in Bijection(approvals, people)
  <2>1. \A v, w \in approvals : f[v] = f[w] => v = w
    BY <1>1
  <2>2. \A p \in people : \E v \in approvals : f[v] = p
    BY <1>1
  <2>3. DOMAIN f = approvals
    OBVIOUS
  <2> HIDE DEF f, people
  <2> QED
    BY <1>1, <2>1, <2>2, <2>3 DEF Bijection, Injection, Surjection, IsInjective
<1>3. Cardinality(people) = Cardinality(approvals)
  <2> HIDE DEF f, people
  <2> QED
    BY <1>2, FS_Bijection DEF ExistsBijection
<1>4. people \cap Seniors # {}
  BY DEF TwoPeople
<1> QED
  BY <1>3, <1>4 DEF TwoPeople

\* The close: a batch that is still ready, on the votes its request was granted.
LEMMA CloseKeepsInv ==
    ASSUME AuthorizationInv, NEW a \in Actors, ExecuteClose(a)
    PROVE  AuthorizationInv'
<1> DEFINE r == request[a]
           b == r.batch
           people == {v.by : v \in r.approvals}
           new == [batch |-> b, by |-> r.user, at |-> now, valueAt |-> r.valueAt,
                   began |-> r.began, approvedBy |-> people]
<1>1. RowsHold /\ request \in [Actors -> RequestRows] /\ \A c \in Actors : RequestFits(request[c])
  BY InvInHalves
<1>2. /\ r.pc = "close" /\ status[b] = "ready"
      /\ status' = [status EXCEPT ![b] = "settled"]
      /\ closing' = closing \cup {new}
      /\ request' = [request EXCEPT ![a] = NoRequest]
      /\ UNCHANGED <<now, preview, vote>>
  BY DEF ExecuteClose, StillReady, Finish
<1>3. /\ b \in Batches /\ r.user \in Users /\ r.began \in 0..now /\ r.valueAt \in ValueTimes
      /\ r.approvals \subseteq vote /\ r.approvals # {}
      /\ r.valueAt \in (r.began - MaxAge)..(r.began + MaxSkew)
      /\ \A v \in r.approvals : v.batch = b /\ v.by # r.user /\ Active(v, r.began)
      /\ \A v, w \in r.approvals : v.by = w.by => v = w
      /\ Granted(r)
  BY <1>1, <1>2 DEF RequestFits, NoRequest
<1>4. /\ now \in Times /\ now \in Nat /\ r.began \in Times /\ r.began \in Nat /\ r.began <= now
      /\ vote \subseteq VoteRows /\ closing \subseteq CloseRows /\ IsFiniteSet(closing)
      /\ IsFiniteSet(vote)
  BY <1>1, <1>3, AuthorizationAssumption DEF RowsHold, RowsTyped, RowsAreFinite, Times
<1>5. people \subseteq Users
  BY <1>3, <1>4 DEF VoteRows
<1>6. /\ new \in CloseRows /\ new.batch = b /\ new.by = r.user /\ new.at = now
      /\ new.began = r.began /\ new.valueAt = r.valueAt /\ new.approvedBy = people
  <2> HIDE DEF people
  <2> QED
    BY <1>3, <1>4, <1>5 DEF CloseRows
<1>7. \A d \in closing : d.batch # b
  <2> DEFINE mine == {d \in closing : d.batch = b}
  <2>1. Cardinality(mine) = 0
    BY <1>1, <1>2, <1>3 DEF RowsHold, ClosesOnce
  <2>2. IsFiniteSet(mine)
    BY <1>4, FS_Subset
  <2>3. mine = {}
    <3> HIDE DEF mine
    <3> QED
      BY <2>1, <2>2, FS_EmptySet
  <2> QED
    BY <2>3
<1>8. /\ request' \in [Actors -> RequestRows]
      /\ \A c \in Actors : request'[c] \in {request[c], NoRequest}
  BY <1>1, <1>2, NoRequestFits
<1>9. \A c \in Actors : RequestFits(request[c])'
  <2> SUFFICES ASSUME NEW c \in Actors PROVE RequestFits(request[c])'
    OBVIOUS
  <2>1. \A d \in closing' \ closing : d.at = now
    <3> HIDE DEF new
    <3> QED
      BY <1>2, <1>6
  <2>2. \A q \in RequestRows : RequestFits(q) => RequestFits(q)'
    BY <1>2, <1>4, <2>1, FitsSurvives
  <2>3. request'[c] \in RequestRows /\ RequestFits(request'[c])
    BY <1>1, <1>8, NoRequestFits
  <2>4. \A q \in RequestRows : q = request'[c] => RequestFits(request[c])'
    BY <2>2, <2>3 DEF RequestFits, Granted, EarlierCloses, Active
  <2> QED
    BY <2>3, <2>4
<1> HIDE DEF new
<1>10. RowsTyped'
  BY <1>1, <1>2, <1>3, <1>6 DEF RowsHold, RowsTyped
<1>11. RowsAreFinite'
  BY <1>2, <1>4, FS_AddElement DEF RowsAreFinite
<1>12. DutiesSeparated'
  <2>1. /\ people # {} /\ r.user \notin people /\ Proposer[b] \notin people
        /\ \A u \in people : \E v \in vote : v.batch = b /\ v.by = u /\ Active(v, r.began)
    BY <1>1, <1>3 DEF RowsHold
  <2> HIDE DEF people, b, r
  <2> QED
    BY <1>1, <1>2, <1>6, <2>1 DEF RowsHold, DutiesSeparated, Active
<1>13. TwoPeople(r.approvals) => Cardinality(people) >= 2 /\ people \cap Seniors # {}
  <2>1. IsFiniteSet(r.approvals)
    BY <1>3, <1>4, FS_Subset
  <2> QED
    BY <1>3, <2>1, PeopleAreCounted
<1>14. LargeClosesNeedTwoPeople'
  <2> HIDE DEF people
  <2> QED
    BY <1>1, <1>2, <1>3, <1>6, <1>13 DEF RowsHold, LargeClosesNeedTwoPeople, Granted
<1>15. ClosesOnce'
  <2> SUFFICES ASSUME NEW c \in Batches
               PROVE  Cardinality({d \in closing' : d.batch = c})
                         = IF status'[c] = "settled" THEN 1 ELSE 0
    BY DEF ClosesOnce
  <2>1. CASE c = b
    <3>1. {d \in closing' : d.batch = c} = {new} /\ status'[c] = "settled"
      BY <1>1, <1>2, <1>3, <1>6, <1>7, <2>1 DEF RowsHold, RowsTyped
    <3> QED
      BY <3>1, FS_Singleton
  <2>2. CASE c # b
    <3>1. {d \in closing' : d.batch = c} = {d \in closing : d.batch = c} /\ status'[c] = status[c]
      BY <1>1, <1>2, <1>3, <1>6, <2>2 DEF RowsHold, RowsTyped
    <3> QED
      BY <1>1, <3>1 DEF RowsHold, ClosesOnce
  <2> QED
    BY <2>1, <2>2
<1>16. ClosesInTime'
  BY <1>1, <1>2, <1>4, <1>6 DEF RowsHold, ClosesInTime
<1>17. AggregateGoverns'
  <2> SUFFICES ASSUME NEW c \in closing', Day(c.began) = Day(c.at)
               PROVE  AuthorisedFor(c, Magnitude[c.batch]
                         + Total({d \in closing' : d.at < c.began /\ Day(d.at) = Day(c.at)}))
    BY DEF AggregateGoverns
  <2>1. c.began <= now /\ c.began \in Nat
    BY <1>1, <1>2, <1>4, <1>6 DEF RowsHold, ClosesInTime, CloseRows, Times
  <2>2. {d \in closing' : d.at < c.began /\ Day(d.at) = Day(c.at)}
           = {d \in closing : d.at < c.began /\ Day(d.at) = Day(c.at)}
    BY <1>2, <1>4, <1>6, <2>1
  <2>3. CASE c \in closing
    BY <1>1, <2>2, <2>3 DEF RowsHold, AggregateGoverns
  <2>4. CASE c = new
    <3>1. {d \in closing : d.at < c.began /\ Day(d.at) = Day(c.at)}
             = EarlierCloses(b, r.began, now)
      BY <1>6, <1>7, <2>4 DEF EarlierCloses
    <3>2. Magnitude[b] + Total(EarlierCloses(b, r.began, now)) > T2 => TwoPeople(r.approvals)
      BY <1>3, <1>6, <2>4 DEF Granted
    <3> HIDE DEF people
    <3> QED
      BY <1>6, <1>13, <2>2, <2>4, <3>1, <3>2 DEF AuthorisedFor
  <2> QED
    BY <1>2, <2>3, <2>4
<1>18. RowsHold'
  BY <1>1, <1>2, <1>10, <1>11, <1>12, <1>14, <1>15, <1>16, <1>17 DEF RowsHold
<1> QED
  BY <1>8, <1>9, <1>18, HalvesMakeInv

\* Every step of the authorisation keeps its invariant.
LEMMA NextKeepsInv == AuthorizationInv /\ [Next]_vars => AuthorizationInv'
<1> SUFFICES ASSUME AuthorizationInv, [Next]_vars PROVE AuthorizationInv'
  OBVIOUS
<1>1. CASE \/ Tick \/ UNCHANGED vars
           \/ \E b \in Batches : Supersede(b)
           \/ \E a \in Actors : PreviewCommit(a)
  BY <1>1, QuietStepsKeepInv
<1>2. ASSUME NEW a \in Actors, NEW u \in Users, NEW b \in Batches,
             \/ PreviewRead(a, u, b)
             \/ ApproveRead(a, u, b)
             \/ \E valueAt \in ValueTimes : ExecuteLoad(a, u, b, valueAt)
             \/ CloseZeroNetLoad(a, u, b)
      PROVE  AuthorizationInv'
  BY <1>2, BeginsKeepInv
<1>3. ASSUME NEW a \in Actors, ApproveCommit(a) PROVE AuthorizationInv'
  BY <1>3, ApproveKeepsInv
<1>4. ASSUME NEW a \in Actors, ExecuteGate(a) PROVE AuthorizationInv'
  BY <1>4, GateKeepsInv
<1>5. ASSUME NEW a \in Actors, ExecuteLevel(a) PROVE AuthorizationInv'
  BY <1>5, LevelKeepsInv
<1>6. ASSUME NEW a \in Actors, ExecuteClose(a) PROVE AuthorizationInv'
  BY <1>6, CloseKeepsInv
<1>7. ASSUME NEW a \in Actors, GiveUp(a) PROVE AuthorizationInv'
  BY <1>7, GiveUpKeepsInv
<1> QED
  BY <1>1, <1>2, <1>3, <1>4, <1>5, <1>6, <1>7 DEF Next

\* What a request was granted stays granted until it closes.
THEOREM AuthorizationInvariant == Spec => []AuthorizationInv
<1>1. Init => AuthorizationInv
  BY InitEstablishesInv
<1>2. AuthorizationInv /\ [Next]_vars => AuthorizationInv'
  BY NextKeepsInv
<1> QED
  BY <1>1, <1>2, PTL DEF Spec

\* Every close has its authority: the duties are separate, a large batch closes
\* on the votes of two people of whom one is senior, and a batch closes once,
\* whatever votes, lapses, double submits and executions overlap.
THEOREM ClosesAuthorised == Spec => []ClosesAreAuthorised
<1>1. AuthorizationInv => ClosesAreAuthorised
  BY DEF AuthorizationInv
<1> QED
  BY <1>1, AuthorizationInvariant, PTL

\* Spreading a payment over several batches does not lower its level: a close is
\* authorised for itself and all that was closed on its day before its request
\* began (dayAggregateMinor).
THEOREM AggregatesGovern == Spec => []AggregateGoverns
<1>1. AuthorizationInv => AggregateGoverns
  BY DEF AuthorizationInv
<1> QED
  BY <1>1, AuthorizationInvariant, PTL
=============================================================================
