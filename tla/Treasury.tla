------------------------------ MODULE Treasury ------------------------------
(***************************************************************************)
(* The safeguarding account: what the ledger says of it, the three-way     *)
(* reconciliation of bank, cash and obligations at a cut date, the         *)
(* lifecycle of a mismatch, and the sweep of money a zero-net close has    *)
(* left there (treasury-reconciliation.service.ts, treasury-snapshot.ts,   *)
(* treasury-internal-transfer.service.ts).                                 *)
(*                                                                         *)
(* A business event is named by the amount it moves; which kind it is, and *)
(* its bank value date, are chosen when it happens, in any order of the    *)
(* dates.  A reconciliation reads the attestation, then the ledger, then   *)
(* the evidence the value dates come from, and then writes its record.     *)
(***************************************************************************)
EXTENDS Integers, FiniteSets, FiniteSetsExt

CONSTANTS
    Events,      \* amounts of the receipts, remittances, refunds and closes
    Days,        \* bank value dates and cut dates, numbers
    BankRefs,    \* references of bank movements
    Runs,        \* reconciliations
    MaxAttested, \* bound on the attestations
    Staff        \* finance operators, each with one request in flight

ASSUME TreasuryAssumption == Days \subseteq Nat \ {0} /\ Events \subseteq Nat \ {0} /\ MaxAttested \in Nat

VARIABLES
    entries,     \* ledger rows <<kind, event>> of the safeguarding account
    valued,      \* value date of an event's evidence row, 0 while there is none
    transfers,   \* TreasuryInternalTransfer rows
    sweptOn,     \* value date in the posting of a completed sweep, 0 for none
    attested,    \* attestations <<day, balance, by>>
    recon,       \* TreasuryReconciliation rows
    desk         \* requests in flight

treasuryTables == <<entries, valued, transfers, sweptOn, attested, recon>>
treasuryVars == <<treasuryTables, desk>>

NoRecon == [status |-> "none", day |-> 0, leg |-> {}, cash |-> 0, delta |-> 0, unresolved |-> FALSE,
            by |-> "none", basis |-> "none"]
NoTask == [pc |-> "idle", run |-> "none", of |-> 0, leg |-> {}, rows |-> {},
           ref |-> "none", ok |-> FALSE, basis |-> "none"]
Free(s) == desk[s] = NoTask
Frees(s) == desk' = [desk EXCEPT ![s] = NoTask]

TreasuryInit ==
    /\ entries = {} /\ valued = [e \in Events |-> 0]
    /\ transfers = {} /\ sweptOn = [e \in Events |-> 0]
    /\ attested = {} /\ recon = [r \in Runs |-> NoRecon]
    /\ desk = [s \in Staff |-> NoTask]

-----------------------------------------------------------------------------
\* What the settlement services post.  A receipt posts its cash and the payable
\* in the transaction of the receipt row; a refund before settlement its one
\* row; a zero-net close its recoveries, dated by the close itself.
PostingsOf == [receipt |-> {"received", "accrued"}, refund |-> {"refunded"}, close |-> {"recovered_no_cash"}]

Evidenced(e, d) == valued[e] = 0 /\ valued' = [valued EXCEPT ![e] = d]

PostEvent(e, kind, d) ==
    /\ Evidenced(e, d)
    /\ entries' = entries \cup (PostingsOf[kind] \X {e})
    /\ UNCHANGED <<transfers, sweptOn, attested, recon, desk>>

\* markSettled creates the remittance row and the recovery draws; the posting
\* of the remittance follows later, in the completion chain.
Remit(e, d) ==
    /\ Evidenced(e, d)
    /\ entries' = entries \cup {<<"recovered", e>>}
    /\ UNCHANGED <<transfers, sweptOn, attested, recon, desk>>

PostRemittance(e) ==
    /\ <<"recovered", e>> \in entries /\ <<"remitted", e>> \notin entries
    /\ entries' = entries \cup {<<"remitted", e>>}
    /\ UNCHANGED <<valued, transfers, sweptOn, attested, recon, desk>>

-----------------------------------------------------------------------------
\* recordInternalTransfer.  A due is a zero-net close; its sweep is checked
\* against the ledger and the completed rows, and then inserted.
Due(e) == <<"recovered_no_cash", e>> \in entries
CompletedFor(e) == {t \in transfers : t.of = e /\ t.ok}

TransferLoad(s, e, ref, ok) ==
    /\ Free(s) /\ Due(e) /\ CompletedFor(e) = {}
    /\ desk' = [desk EXCEPT ![s] = [NoTask EXCEPT !.pc = "transfer", !.of = e, !.ref = ref, !.ok = ok]]
    /\ UNCHANGED treasuryTables

ReferenceOnly(t) == \A u \in transfers : u.ref # t.ref

\* Two unique indexes: the bank reference, and the completed row of a settlement.
Insertable(t) == ReferenceOnly(t) /\ (t.ok => CompletedFor(t.of) = {})

\* The row, the posting and the audit in one transaction.
RecordInternalTransfer(s, d) ==
    /\ desk[s].pc = "transfer"
    /\ LET t == [of |-> desk[s].of, ref |-> desk[s].ref, ok |-> desk[s].ok]
       IN IF ~Insertable(t) THEN UNCHANGED <<entries, transfers, sweptOn>>
          ELSE /\ transfers' = transfers \cup {t}
               /\ entries' = IF t.ok THEN entries \cup {<<"swept", t.of>>} ELSE entries
               /\ sweptOn' = IF t.ok /\ sweptOn[t.of] = 0 THEN [sweptOn EXCEPT ![t.of] = d] ELSE sweptOn
    /\ Frees(s)
    /\ UNCHANGED <<valued, attested, recon>>

-----------------------------------------------------------------------------
RecordAttestation(s, d, b) ==
    /\ Free(s) /\ Cardinality(attested) < MaxAttested
    /\ attested' = attested \cup {<<d, b, s>>}
    /\ UNCHANGED <<entries, valued, transfers, sweptOn, recon, desk>>

\* gatherMovements: which legs a posting belongs to, and with which sign.
CashIn == {"received"}
CashOut == {"remitted", "refunded", "recovered", "swept"}
Obliges == {"accrued"}
Discharges == {"remitted", "refunded", "recovered", "recovered_no_cash"}

\* The evidence rows are looked up after the ledger rows that name them.
EvidenceSeen(s) == {e \in Events : valued[e] # 0}

ValueDate(m) == IF m[1] = "swept" THEN sweptOn[m[2]] ELSE valued[m[2]]

\* splitByAsOf: rows valued at or before the cut; later ones are timing items
\* and rows without evidence are enumerated, neither is netted.
Included(rows, seen, d) == {m \in rows : m[2] \in seen /\ ValueDate(m) <= d}

Total(rows, kinds) == MapThenSumSet(LAMBDA m : m[2], {m \in rows : m[1] \in kinds})
SweepDue == {"recovered_no_cash"}
CompletedSweeps == {"swept"}

DueExplains(rows) == Total(rows, SweepDue)

\* A completed sweep stops explaining anything.
Outstanding(rows) == Total(rows, SweepDue) - Total(rows, CompletedSweeps)

\* An attestation stated at the cut date, none when there is none, and then the
\* ledger.
StatedAt(d) == {t \in attested : t[1] = d}

RunLoad(s, r, d, leg) ==
    /\ leg \subseteq StatedAt(d) /\ Cardinality(leg) = IF StatedAt(d) = {} THEN 0 ELSE 1
    /\ Free(s) /\ recon[r] = NoRecon /\ \A u \in Staff : desk[u].run # r
    /\ desk' = [desk EXCEPT ![s] = [NoTask EXCEPT !.pc = "run", !.run = r, !.of = d,
                   !.leg = leg, !.rows = entries]]
    /\ UNCHANGED treasuryTables

\* buildTreasurySnapshot: the enumerated differences, and the status they make.
Differs(leg, cash, delta, unresolved) ==
    delta # 0 \/ unresolved \/ \E t \in leg : t[2] # cash \/ t[2] < 0

Verdict(leg, differs) == IF differs THEN "mismatched" ELSE IF leg = {} THEN "pending" ELSE "matched"

RunReconciliation(s) ==
    /\ desk[s].pc = "run"
    /\ LET d == desk[s].of
           rows == Included(desk[s].rows, EvidenceSeen(s), d)
           cash == Total(rows, CashIn) - Total(rows, CashOut)
           owed == Total(rows, Obliges) - Total(rows, Discharges)
           delta == cash - owed - Outstanding(rows)
           unresolved == \E m \in desk[s].rows : m[2] \notin EvidenceSeen(s)
           differs == Differs(desk[s].leg, cash, delta, unresolved)
       IN recon' = [recon EXCEPT ![desk[s].run] =
              [NoRecon EXCEPT !.day = d, !.leg = desk[s].leg, !.cash = cash, !.delta = delta,
                   !.unresolved = unresolved,
                   !.status = Verdict(desk[s].leg, differs)]]
    /\ Frees(s)
    /\ UNCHANGED <<entries, valued, transfers, sweptOn, attested>>

\* A one-shot transition: updateMany filters on the status.
Investigate(s, r) ==
    /\ Free(s) /\ recon[r].status = "mismatched"
    /\ recon' = [recon EXCEPT ![r].status = "investigated"]
    /\ UNCHANGED <<entries, valued, transfers, sweptOn, attested, desk>>

\* resolve: the run is investigated, the basis is evidence or a later matched
\* run, and the resolver is not the one who attested the run's bank leg.
ResolveLoads(s, r, basis) ==
    /\ Free(s) /\ recon[r].status = "investigated"
    /\ basis \in Runs => recon[basis].status = "matched" /\ recon[basis].day > recon[r].day
    /\ \A t \in recon[r].leg : t[3] # s
    /\ desk' = [desk EXCEPT ![s] = [NoTask EXCEPT !.pc = "resolve", !.run = r, !.basis = basis]]
    /\ UNCHANGED treasuryTables

ResolvableAlways(r) == TRUE

Resolvable(r) == recon[r].status = "investigated"

Resolve(s) ==
    /\ desk[s].pc = "resolve"
    /\ recon' = IF Resolvable(desk[s].run)
                THEN [recon EXCEPT ![desk[s].run].status = "resolved", ![desk[s].run].by = s,
                                   ![desk[s].run].basis = desk[s].basis]
                ELSE recon
    /\ Frees(s)
    /\ UNCHANGED <<entries, valued, transfers, sweptOn, attested>>

Balances == {0} \cup Events

TreasuryNext ==
    \/ \E e \in Events, d \in Days : Remit(e, d) \/ \E k \in DOMAIN PostingsOf : PostEvent(e, k, d)
    \/ \E e \in Events : PostRemittance(e)
    \/ \E s \in Staff :
          \/ \E e \in Events, ref \in BankRefs, ok \in BOOLEAN : TransferLoad(s, e, ref, ok)
          \/ \E d \in Days : \/ RecordInternalTransfer(s, d)
                             \/ \E b \in Balances : RecordAttestation(s, d, b)
                             \/ \E r \in Runs, leg \in SUBSET StatedAt(d) : RunLoad(s, r, d, leg)
          \/ RunReconciliation(s) \/ Resolve(s)
          \/ \E r \in Runs : Investigate(s, r) \/ \E b \in Runs \cup {"evidence"} : ResolveLoads(s, r, b)

TreasurySpec == TreasuryInit /\ [][TreasuryNext]_treasuryVars

-----------------------------------------------------------------------------
\* Type invariant of the treasury tables.
TreasuryTypeOK ==
    /\ entries \subseteq {"received", "accrued", "refunded", "recovered", "remitted",
                          "recovered_no_cash", "swept"} \X Events
    /\ valued \in [Events -> Days \cup {0}] /\ sweptOn \in [Events -> Days \cup {0}]
    /\ transfers \subseteq [of : Events, ref : BankRefs, ok : BOOLEAN]
    /\ attested \subseteq Days \X Balances \X Staff
    /\ \A r \in Runs : /\ recon[r].status \in {"none", "pending", "matched", "mismatched",
                                               "investigated", "resolved"}
                       /\ recon[r].day \in Days \cup {0} /\ recon[r].leg \subseteq attested
    /\ \A s \in Staff : desk[s].pc \in {"idle", "transfer", "run", "resolve"}

\* Cash and obligations agree at every cut, whichever postings a run catches
\* half way, however sweeps and closes are dated, and no row it reads lacks its
\* evidence: a run is mismatched by what the bank says and by nothing else.
OnlyTheBankDisagrees ==
    \A r \in Runs : recon[r].status # "none" =>
        /\ recon[r].delta = 0 /\ ~recon[r].unresolved
        /\ recon[r].status = "mismatched" => \E t \in recon[r].leg : t[2] # recon[r].cash \/ t[2] < 0

\* A close is swept once: two operators recording the same movement, or two
\* movements for the same close, leave one completed row and its posting, and
\* no bank reference stands for two movements.
SweptOnce ==
    /\ \A e \in Events : /\ Cardinality(CompletedFor(e)) <= 1
                         /\ (CompletedFor(e) # {}) = (<<"swept", e>> \in entries)
    /\ \A t, u \in transfers : t.ref = u.ref => t = u

\* The books of the safeguarding account agree at every cut date.
BooksAgree ==
    /\ TreasuryTypeOK
    /\ OnlyTheBankDisagrees
    /\ SweptOnce

\* A mismatch is closed once: of two resolvers who both found it investigated
\* the second never replaces the name and the basis of the first.
ResolvedOnce ==
    [][\A r \in Runs : recon[r].status = "resolved" => recon'[r] = recon[r]]_treasuryVars

-----------------------------------------------------------------------------
(***************************************************************************)
(* What keeps the properties: the inductive invariant of the treasury.     *)
(***************************************************************************)
EntryRows == {"received", "accrued", "refunded", "recovered", "remitted",
              "recovered_no_cash", "swept"} \X Events
Statements == Days \X Balances \X Staff

ReconRows ==
    [status : {"none", "pending", "matched", "mismatched", "investigated", "resolved"},
     day : Days \cup {0}, leg : SUBSET Statements, cash : Int, delta : Int,
     unresolved : BOOLEAN, by : Staff \cup {"none"}, basis : Runs \cup {"evidence", "none"}]

TaskRows ==
    [pc : {"idle", "transfer", "run", "resolve"}, run : Runs \cup {"none"},
     of : Events \cup Days \cup {0}, leg : SUBSET Statements, rows : SUBSET EntryRows,
     ref : BankRefs \cup {"none"}, ok : BOOLEAN, basis : Runs \cup {"evidence", "none"}]

\* A receipt's cash and its payable are there together or not at all.
Paired(rows) == \A e \in Events : <<"received", e>> \in rows <=> <<"accrued", e>> \in rows

\* What a request holds: a movement of an event that is a due; what a run has
\* read, all of it still there, for a record nobody else writes.
TaskFits(s) ==
    /\ desk[s].pc = "transfer" =>
          desk[s].of \in Events /\ desk[s].ref \in BankRefs /\ valued[desk[s].of] # 0
    /\ desk[s].pc = "run" =>
          /\ desk[s].run \in Runs /\ desk[s].of \in Days
          /\ recon[desk[s].run].status = "none"
          /\ desk[s].leg \subseteq attested /\ desk[s].rows \subseteq entries
          /\ Paired(desk[s].rows)
    /\ desk[s].pc = "resolve" => desk[s].run \in Runs

OneWriter ==
    \A s, u \in Staff :
        desk[s].pc = "run" /\ desk[u].pc = "run" /\ desk[s].run = desk[u].run => s = u

\* Every posting has its evidence, and a sweep its completed transfer.
EntriesFit ==
    /\ IsFiniteSet(entries) /\ Paired(entries)
    /\ \A m \in entries : valued[m[2]] # 0
    /\ \A e \in Events : (<<"swept", e>> \in entries) <=> (CompletedFor(e) # {})

TransfersFit ==
    \A t, u \in transfers : t.ref = u.ref \/ (t.ok /\ u.ok /\ t.of = u.of) => t = u

TreasuryInv ==
    /\ TreasuryTypeOK
    /\ recon \in [Runs -> ReconRows] /\ desk \in [Staff -> TaskRows]
    /\ \A s \in Staff : TaskFits(s)
    /\ OneWriter
    /\ EntriesFit
    /\ TransfersFit
    /\ OnlyTheBankDisagrees
=============================================================================
