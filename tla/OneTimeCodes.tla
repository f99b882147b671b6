---------------------------- MODULE OneTimeCodes ----------------------------
(***************************************************************************)
(* One-time codes (otp.service.ts).  A code is a row of a target (a phone  *)
(* number or an address); a verification reads the target's wrong guesses  *)
(* of the last quarter of an hour, then the latest row, then compares and  *)
(* writes, with an await between each.  The request goes on at the step    *)
(* named by its field next, or, for the plain endpoint, ends.              *)
(*                                                                         *)
(* A row is fresh for five minutes, then expired, and leaves the lockout   *)
(* window ten minutes later; rows age in the order they were made.  The    *)
(* send limiter's window is the five minutes in which a row is fresh, so   *)
(* its hits are the fresh rows, spent or not.                              *)
(***************************************************************************)
EXTENDS Integers, Sequences, FiniteSets, FiniteSetsExt

CONSTANTS
    Phones, Emails,   \* targets
    Requests,         \* requests in flight at once
    MaxVerifyAttempts, MaxTargetAttempts, SendLimit,
    MaxCodes,         \* bound on the rows
    MaxLost           \* bound on the best-effort writes that fail

ASSUME OneTimeCodesAssumption ==
    /\ Phones \cap Emails = {} /\ "no target" \notin Phones \cup Emails
    /\ IsFiniteSet(Requests) /\ Requests # {}
    /\ MaxVerifyAttempts \in Nat \ {0} /\ MaxTargetAttempts \in Nat \ {0}
    /\ SendLimit \in Nat \ {0} /\ MaxCodes \in Nat /\ MaxLost \in Nat

VARIABLES
    otp,              \* the Otp rows
    request,
    lost

codeVars == <<otp, request, lost>>

Targets == Phones \cup Emails
NoTarget == "no target"
NoOne == "no one"
Idle == [pc |-> "idle", target |-> NoTarget, code |-> 0, row |-> 0, consume |-> TRUE, next |-> "end",
         who |-> NoOne, extra |-> NoTarget, flag |-> FALSE, kind |-> "none"]
CodeRows == 1..Len(otp)
Goes(r, q) == request' = [request EXCEPT ![r] = q]
Becomes(r, pc) == Goes(r, [request[r] EXCEPT !.pc = pc])
Over(r) == Goes(r, Idle)

CodesInit == otp = <<>> /\ request = [r \in Requests |-> Idle] /\ lost = 0

\* send: the row is written before the code is dispatched, whatever comes of it.
SendCode(t, arrives) ==
    /\ Cardinality({i \in CodeRows : otp[i].target = t /\ otp[i].age = "fresh"}) < SendLimit
    /\ Len(otp) < MaxCodes
    /\ otp' = Append(otp, [target |-> t, attempts |-> 0, age |-> "fresh", live |-> TRUE,
                           arrived |-> arrives, uses |-> 0])

Send(t, arrives) == SendCode(t, arrives) /\ UNCHANGED <<request, lost>>

Older(age) == IF age = "fresh" THEN "expired" ELSE "old"

CodesAge(i) ==
    /\ otp[i].age # "old" /\ \A j \in 1..(i - 1) : otp[j].age # otp[i].age
    /\ otp' = [otp EXCEPT ![i].age = Older(@)]
    /\ UNCHANGED <<request, lost>>

\* The codes a caller may type for a target: one that arrived, or a wrong one.
Typed(t) == {0} \cup {i \in CodeRows : otp[i].arrived /\ otp[i].target = t}

-----------------------------------------------------------------------------
Windowed(t) == {i \in CodeRows : otp[i].target = t /\ otp[i].live /\ otp[i].age # "old"}

LatestOnly(t) == IF Windowed(t) = {} THEN 0 ELSE otp[CHOOSE i \in Windowed(t) : \A j \in Windowed(t) : j <= i].attempts

\* The resend-safe sum over all of a target's rows in the window.
WindowAttempts(t) == MapThenSumSet(LAMBDA i : otp[i].attempts, Windowed(t))

VerifyWindow(r) ==
    /\ request[r].pc = "verify"
    /\ IF WindowAttempts(request[r].target) >= MaxTargetAttempts THEN Over(r) ELSE Becomes(r, "row")
    /\ UNCHANGED <<otp, lost>>

\* The latest row of the target; none, a locked one and an expired one end it.
VerifyRow(r) ==
    /\ request[r].pc = "row"
    /\ LET rows == {i \in CodeRows : otp[i].target = request[r].target /\ otp[i].live}
           i == Max(rows)
       IN IF rows = {} \/ otp[i].attempts >= MaxVerifyAttempts \/ otp[i].age # "fresh" THEN Over(r)
          ELSE Goes(r, [request[r] EXCEPT !.pc = "compare", !.row = i])
    /\ UNCHANGED <<otp, lost>>

\* The increment is by id; a failed one, as on a row deleted since, is swallowed.
VerifyWrong(r) ==
    /\ request[r].pc = "compare" /\ request[r].code # request[r].row
    /\ \/ /\ otp[request[r].row].live
          /\ otp' = [otp EXCEPT ![request[r].row].attempts = @ + 1] /\ lost' = lost
       \/ /\ ~otp[request[r].row].live /\ UNCHANGED <<otp, lost>>
       \/ /\ otp[request[r].row].live /\ lost < MaxLost /\ lost' = lost + 1 /\ otp' = otp
    /\ Over(r)

KeepsRow(row, spend) == [row EXCEPT !.uses = @ + 1]

\* The best-effort delete that makes a code single-use.
Spent(row, spend) == [row EXCEPT !.uses = @ + 1, !.live = @ /\ ~spend]

SpendCode(i) ==
    \/ otp' = [otp EXCEPT ![i] = Spent(@, TRUE)] /\ lost' = lost
    \/ lost < MaxLost /\ lost' = lost + 1 /\ otp' = [otp EXCEPT ![i] = Spent(@, FALSE)]

\* A caller with more to do first leaves the row in place.
VerifyRight(r) ==
    /\ request[r].pc = "compare" /\ request[r].code = request[r].row
    /\ \/ ~request[r].consume /\ UNCHANGED <<otp, lost>>
       \/ request[r].consume /\ SpendCode(request[r].row)
    /\ IF request[r].next = "end" THEN Over(r) ELSE Becomes(r, request[r].next)

\* POST /otp/verify.
VerifyEndpoint(r, t) ==
    /\ request[r] = Idle
    /\ \E c \in Typed(t) : Goes(r, [Idle EXCEPT !.pc = "verify", !.target = t, !.code = c])
    /\ UNCHANGED <<otp, lost>>

VerifyNext(r) ==
    \/ VerifyWindow(r) \/ VerifyRow(r) \/ VerifyWrong(r) \/ VerifyRight(r)

CodesNext ==
    \/ \E t \in Targets, arrives \in BOOLEAN : Send(t, arrives)
    \/ \E i \in CodeRows : CodesAge(i)
    \/ \E r \in Requests : VerifyNext(r) \/ \E t \in Targets : VerifyEndpoint(r, t)

-----------------------------------------------------------------------------
\* Type invariant of the code rows and the requests.
CodesTypeOK ==
    /\ \A i \in CodeRows : /\ otp[i].target \in Targets /\ otp[i].age \in {"fresh", "expired", "old"}
                       /\ otp[i].attempts \in Nat /\ otp[i].uses \in Nat /\ otp[i].live \in BOOLEAN
    /\ \A r \in Requests : request[r].row \in 0..Len(otp) /\ request[r].target \in Targets \cup {NoTarget}
    /\ lost \in 0..MaxLost

\* "requesting a fresh code does NOT reset it": over all the codes a target was
\* sent in the window, the counted wrong guesses pass the cap by no more than
\* the other requests that were verifying at the time.
LockoutHolds ==
    \A t \in Targets : MapThenSumSet(LAMBDA i : otp[i].attempts, Windowed(t))
                          <= MaxTargetAttempts + Cardinality(Requests) - 1

\* A code opens something at most once for every request that was comparing it
\* before the first had spent it; a spent code is never found again, unless the
\* delete, which is best effort, was lost.
SpentOnce == \A i \in CodeRows : otp[i].uses <= Cardinality(Requests) * (1 + lost)

\* A code admits no more guesses and opens no more than its limits say.
CodesHold == CodesTypeOK /\ LockoutHolds /\ SpentOnce
=============================================================================
