--------------------------- MODULE RefundRequests ---------------------------
(***************************************************************************)
(* The maker-checker of refunds (settlement-refunds.service.ts): request,  *)
(* independent approval, evidenced execution behind the executing latch,   *)
(* cancellation.  Every handler loads the row first and writes it later    *)
(* with the state it expects as a guard; the execution writes it twice,    *)
(* around the primitive that moves the money.                              *)
(*                                                                         *)
(* The requests are of one invoice.  The primitive is used through its     *)
(* promise: one refund per evidence, or a typed refusal for a reason of    *)
(* its own.  Rows are not tampered with, so the snapshot always verifies.  *)
(***************************************************************************)
EXTENDS Naturals, FiniteSets

CONSTANTS
    RefundIds,    \* refund requests of the invoice
    Amount,       \* amount of each request
    Operators,    \* who may request, approve and execute
    Evidence,     \* bank evidence an executor may supply
    Actors,       \* calls that may be in flight at once
    Nobody,       \* no operator
    NoRefund,     \* no refund bound
    MaxCrashes    \* bound on the calls that die

ASSUME RequestAssumption ==
    /\ Amount \in [RefundIds -> Nat \ {0}]
    /\ Nobody \notin Operators
    /\ NoRefund \notin Evidence
    /\ MaxCrashes \in Nat

VARIABLES
    row,       \* RefundRequest rows
    refund,    \* SettlementRefund rows, with the request they were posted for
    audit,     \* requests with the executed audit
    call,      \* each actor's call
    crashes

vars == <<row, refund, audit, call, crashes>>

States == {"none", "requested", "approved", "executing", "executed", "cancelled"}

NoCall == [pc |-> "idle", user |-> Nobody, req |-> "none", state |-> "none",
           evidence |-> NoRefund, replayed |-> FALSE]

Init == /\ row = [q \in RefundIds |->
                    [state |-> "none", requestedBy |-> Nobody, approvedBy |-> Nobody,
                     executedBy |-> Nobody, refund |-> NoRefund]]
        /\ refund = {}
        /\ audit = {}
        /\ call = [a \in Actors |-> NoCall]
        /\ crashes = 0

Goto(a, label) == call' = [call EXCEPT ![a].pc = label]
Done(a) == call' = [call EXCEPT ![a] = NoCall]

\* A handler starts by loading the row.
Load(a, u, q, label, evidence) ==
    /\ call[a].pc = "idle"
    /\ call' = [call EXCEPT ![a] =
          [pc |-> label, user |-> u, req |-> q, state |-> row[q].state,
           evidence |-> evidence, replayed |-> FALSE]]
    /\ UNCHANGED <<row, refund, audit, crashes>>

\* A one-shot move guarded by the state it leaves; a loser is refused.
Move(a, from, fields) ==
    /\ row' = IF row[call[a].req].state = from
              THEN [row EXCEPT ![call[a].req] = fields] ELSE row
    /\ Done(a)
    /\ UNCHANGED <<refund, audit, crashes>>

-----------------------------------------------------------------------------
RequestRefund(u, q) ==
    /\ row[q].state = "none"
    /\ row' = [row EXCEPT ![q].state = "requested", ![q].requestedBy = u]
    /\ UNCHANGED <<refund, audit, call, crashes>>

\* Faulty variant: the requester may approve.
MayApproveOwn(u, q) == row[q].state = "requested"

MayApprove(u, q) == row[q].state = "requested" /\ row[q].requestedBy # u

ApproveLoad(a, u, q) == MayApprove(u, q) /\ Load(a, u, q, "approve", NoRefund)

ApproveCommit(a) ==
    /\ call[a].pc = "approve"
    /\ Move(a, "requested", [row[call[a].req] EXCEPT !.state = "approved",
                                                     !.approvedBy = call[a].user])

CancelLoad(a, u, q) ==
    /\ row[q].state \in {"requested", "approved"}
    /\ Load(a, u, q, "cancel", NoRefund)

CancelCommit(a) ==
    /\ call[a].pc = "cancel"
    /\ Move(a, call[a].state, [row[call[a].req] EXCEPT !.state = "cancelled"])

-----------------------------------------------------------------------------
\* Faulty variant: an interrupted execution cannot be resumed.
MayExecuteOnce(u, q) == row[q].state = "approved" /\ row[q].approvedBy # u

MayExecute(u, q) ==
    /\ row[q].approvedBy # u
    /\ \/ row[q].state = "approved"
       \/ row[q].state = "executing" /\ row[q].executedBy = u

ExecuteLoad(a, u, q, e) == MayExecute(u, q) /\ Load(a, u, q, "latch", e)

Latchable(a) ==
    LET r == row[call[a].req]
    IN  /\ r.state = call[a].state
        /\ r.state = "executing" => r.executedBy = call[a].user

Latch(a) ==
    /\ call[a].pc = "latch"
    /\ IF Latchable(a)
       THEN /\ row' = [row EXCEPT ![call[a].req].state = "executing",
                                  ![call[a].req].executedBy = call[a].user]
            /\ Goto(a, "post")
       ELSE Done(a) /\ UNCHANGED row
    /\ UNCHANGED <<refund, audit, crashes>>

Used(e) == \E r \in refund : r.evidence = e

\* recordRefund: a new refund, or the replay of the one this evidence has
\* already paid for the same amount.
Post(a) ==
    LET q == call[a].req
        e == call[a].evidence
    IN  /\ call[a].pc = "post"
        /\ \/ /\ ~Used(e)
              /\ refund' = refund \cup
                    {[evidence |-> e, amount |-> Amount[q], by |-> call[a].user,
                      for |-> q]}
              /\ Goto(a, "finalize")
           \/ /\ \E r \in refund : r.evidence = e /\ r.amount = Amount[q]
              /\ call' = [call EXCEPT ![a].pc = "owner", ![a].replayed = TRUE]
              /\ UNCHANGED refund
        /\ UNCHANGED <<row, audit, crashes>>

\* A typed refusal by the primitive: the evidence paid another amount, a cap,
\* the value-date window, the state of the item.
PostRefused(a) ==
    /\ call[a].pc = "post"
    /\ Goto(a, "unlatch")
    /\ UNCHANGED <<row, refund, audit, crashes>>

OwnedByOther(q, e) == \E p \in RefundIds \ {q} : row[p].refund = e

CheckOwner(a) ==
    /\ call[a].pc = "owner"
    /\ Goto(a, IF OwnedByOther(call[a].req, call[a].evidence)
               THEN "unlatch" ELSE "finalize")
    /\ UNCHANGED <<row, refund, audit, crashes>>

\* Faulty variant: the release writes the row whatever its state is.
ReleasableAlways(q) == TRUE

Releasable(q) == row[q].state = "executing"

Unlatch(a) ==
    /\ call[a].pc = "unlatch"
    /\ row' = IF Releasable(call[a].req)
              THEN [row EXCEPT ![call[a].req].state = "approved",
                               ![call[a].req].executedBy = Nobody]
              ELSE row
    /\ Done(a)
    /\ UNCHANGED <<refund, audit, crashes>>

\* Faulty variant: refundId is not unique.
BindableAlways(q, e) == TRUE

\* The unique index on refundId.
Bindable(q, e) == ~OwnedByOther(q, e)

\* The transaction that ends the execution: the move is guarded by the latch,
\* a collision on refundId releases it, and a replay audits in any case.
Finalize(a) ==
    LET q == call[a].req
        e == call[a].evidence
        latched == row[q].state = "executing"
    IN  /\ call[a].pc = "finalize"
        /\ IF latched /\ ~Bindable(q, e)
           THEN Goto(a, "unlatch") /\ UNCHANGED <<row, audit>>
           ELSE /\ row' = IF latched
                          THEN [row EXCEPT ![q].state = "executed",
                                           ![q].executedBy = call[a].user,
                                           ![q].refund = e]
                          ELSE row
                /\ audit' = IF latched \/ call[a].replayed THEN audit \cup {q}
                            ELSE audit
                /\ Done(a)
        /\ UNCHANGED <<refund, crashes>>

\* The process dies or the database is out of reach: the latch is held.
Crash(a) ==
    /\ call[a].pc # "idle"
    /\ crashes < MaxCrashes
    /\ crashes' = crashes + 1
    /\ Done(a)
    /\ UNCHANGED <<row, refund, audit>>

-----------------------------------------------------------------------------
Executing(a) == Latch(a) \/ Post(a) \/ PostRefused(a) \/ CheckOwner(a)
                \/ Unlatch(a) \/ Finalize(a)

Next ==
    \/ \E u \in Operators, q \in RefundIds : RequestRefund(u, q)
    \/ \E a \in Actors, u \in Operators, q \in RefundIds :
          \/ ApproveLoad(a, u, q) \/ CancelLoad(a, u, q)
          \/ \E e \in Evidence : ExecuteLoad(a, u, q, e)
    \/ \E a \in Actors : \/ ApproveCommit(a) \/ CancelCommit(a) \/ Executing(a)
                         \/ Crash(a)

Spec == Init /\ [][Next]_vars

\* A call that does not die runs on, and whoever holds a latch submits the
\* execution again.
Fairness ==
    /\ \A a \in Actors : WF_vars(Executing(a) \/ ApproveCommit(a) \/ CancelCommit(a))
    /\ \A q \in RefundIds :
          SF_vars(/\ row[q].state = "executing"
                  /\ \E a \in Actors, e \in Evidence :
                        ExecuteLoad(a, row[q].executedBy, q, e))

FairSpec == Spec /\ Fairness

-----------------------------------------------------------------------------
(***************************************************************************)
(* Properties.                                                             *)
(***************************************************************************)
RequestRows == [state : States, requestedBy : Operators \cup {Nobody},
                approvedBy : Operators \cup {Nobody}, executedBy : Operators \cup {Nobody},
                refund : Evidence \cup {NoRefund}]

Labels == {"idle", "approve", "cancel", "latch", "post", "owner", "unlatch", "finalize"}

Calls == [pc : Labels, user : Operators \cup {Nobody}, req : RefundIds \cup {"none"},
          state : States, evidence : Evidence \cup {NoRefund}, replayed : BOOLEAN]

\* The shape of the rows and calls, and the columns the state of a request
\* implies.
TypeOK ==
    /\ row \in [RefundIds -> RequestRows]
    /\ call \in [Actors -> Calls]
    /\ refund \subseteq [evidence : Evidence, amount : Nat, by : Operators, for : RefundIds]
    /\ audit \subseteq RefundIds
    /\ \A q \in RefundIds :
          /\ row[q].requestedBy = Nobody <=> row[q].state = "none"
          /\ row[q].state \in {"approved", "executing", "executed"}
                => row[q].approvedBy # Nobody
          /\ row[q].executedBy # Nobody <=> row[q].state \in {"executing", "executed"}
          /\ row[q].refund # NoRefund <=> row[q].state = "executed"

\* No one moves money alone: whatever was posted for a request was posted by
\* someone other than its approver, after an approval by someone other than
\* its requester.
DutiesSeparated ==
    /\ \A q \in RefundIds : row[q].approvedBy # Nobody
                              => row[q].approvedBy # row[q].requestedBy
    /\ \A r \in refund : row[r.for].approvedBy \notin {Nobody, r.by}

\* "the same bank transfer can never satisfy two requests": an executed
\* request names a refund of its own amount that no other request names.
EvidenceSpentOnce == \A q \in RefundIds : row[q].state = "executed" =>
    /\ \E r \in refund : r.evidence = row[q].refund /\ r.amount = Amount[q]
    /\ \A p \in RefundIds \ {q} : row[p].refund # row[q].refund

\* What a call in flight may rely on: its user still qualifies for the step he
\* is about to take, and the money it binds is there.  With TypeOK and the
\* properties above, inductive.
CallsHoldRows ==
    /\ \A a \in Actors : call[a].pc # "idle" =>
          /\ call[a].req \in RefundIds /\ call[a].user \in Operators
          /\ row[call[a].req].state # "none"
    /\ \A a \in Actors : call[a].pc = "approve" =>
          call[a].user # row[call[a].req].requestedBy
    /\ \A a \in Actors : call[a].pc = "cancel" =>
          call[a].state \in {"requested", "approved"}
    /\ \A a \in Actors : call[a].pc \in {"latch", "post", "owner", "unlatch", "finalize"} =>
          /\ call[a].state \in {"approved", "executing"}
          /\ call[a].evidence \in Evidence
          /\ row[call[a].req].approvedBy \notin {Nobody, call[a].user}
    /\ \A a \in Actors : call[a].pc \in {"owner", "finalize"} =>
          \E r \in refund : /\ r.evidence = call[a].evidence
                             /\ r.amount = Amount[call[a].req]
    /\ \A q \in RefundIds : row[q].state \in {"none", "requested"} =>
          row[q].approvedBy = Nobody

\* Executed and cancelled are final, and the approval of a request is never
\* replaced, however late the writes of a losing call arrive.
EndsStay ==
    [][\A q \in RefundIds :
          /\ row[q].state \in {"executed", "cancelled"} => row'[q] = row[q]
          /\ row[q].approvedBy # Nobody => row'[q].approvedBy = row[q].approvedBy]_vars

\* A latch is not held for ever: a request whose execution died is resumed by
\* its executor and ends, or is released.
LatchReleased == \A q \in RefundIds :
    row[q].state = "executing" ~> row[q].state # "executing"

\* "CANCEL RACE is impossible: the latch claims the row BEFORE any cash
\* moves": nothing is ever posted for a cancelled request.  Does not hold
\* (README, section 6): two executions of one operator share the latch.
CancelledMovesNoMoney == \A r \in refund : row[r.for].state # "cancelled"

\* "a crash between cash posting and finalize leaves the EXECUTING latch ...
\* money posts once": one approval posts at most one refund.
ApprovalPaysOnce == \A r, s \in refund : r.for = s.for => r = s

=============================================================================
