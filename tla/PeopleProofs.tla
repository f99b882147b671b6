---------------------------- MODULE PeopleProofs ----------------------------
(***************************************************************************)
(* Proofs about what people ask for and decide: the maker-checker of       *)
(* refunds, the decisions of staff and owners, a storefront, what people   *)
(* may read of each other, and accounts with their codes.                  *)
(***************************************************************************)
EXTENDS RefundRequests, Accounts, SocialGraph, Administration, Storefront, SumTheorems

-----------------------------------------------------------------------------
(***************************************************************************)
(* Refund requests: the maker-checker, for any operators, requests,        *)
(* evidence and number of calls in flight.                                 *)
(***************************************************************************)

RequestInv == TypeOK /\ DutiesSeparated /\ EvidenceSpentOnce /\ CallsHoldRows

\* The workflow starts in its invariant.
LEMMA InitEstablishesInv == Init => RequestInv
<1> SUFFICES ASSUME Init PROVE RequestInv
  OBVIOUS
<1> USE RequestAssumption DEF Init, NoCall
<1>1. TypeOK
  BY DEF TypeOK, RequestRows, Calls, Labels, States
<1>2. DutiesSeparated
  BY DEF DutiesSeparated
<1>3. EvidenceSpentOnce
  BY DEF EvidenceSpentOnce
<1>4. CallsHoldRows
  BY DEF CallsHoldRows
<1> QED
  BY <1>1, <1>2, <1>3, <1>4 DEF RequestInv

\* What the money properties say depends on rows and refunds only.
LEMMA SameMoney ==
    ASSUME RequestInv, UNCHANGED <<row, refund>>
    PROVE  DutiesSeparated' /\ EvidenceSpentOnce'
  BY DEF RequestInv, DutiesSeparated, EvidenceSpentOnce

\* Loading a row puts a call in flight that qualifies for its next step.
LEMMA LoadsKeepInv ==
    ASSUME RequestInv, NEW a \in Actors, NEW u \in Operators, NEW q \in RefundIds,
           \/ ApproveLoad(a, u, q)
           \/ CancelLoad(a, u, q)
           \/ \E e \in Evidence : ExecuteLoad(a, u, q, e)
    PROVE  RequestInv'
<1> USE DEF RequestInv
<1>1. PICK label \in Labels, e \in Evidence \cup {NoRefund} :
         /\ Load(a, u, q, label, e)
         /\ \/ label = "approve" /\ MayApprove(u, q)
            \/ label = "cancel" /\ row[q].state \in {"requested", "approved"}
            \/ label = "latch" /\ MayExecute(u, q) /\ e \in Evidence
  BY DEF ApproveLoad, CancelLoad, ExecuteLoad, Labels
<1>2. /\ UNCHANGED <<row, refund, audit, crashes>>
      /\ call' = [call EXCEPT ![a] =
            [pc |-> label, user |-> u, req |-> q, state |-> row[q].state,
             evidence |-> e, replayed |-> FALSE]]
  BY <1>1 DEF Load
<1>3. row[q] \in RequestRows /\ row[q].state \in States
  BY DEF TypeOK, RequestRows
<1>4. TypeOK'
  BY <1>2, <1>3 DEF TypeOK, Calls
<1>5. CallsHoldRows'
  BY <1>1, <1>2, <1>3, RequestAssumption
     DEF CallsHoldRows, TypeOK, MayApprove, MayExecute, RequestRows
<1> QED
  BY <1>2, <1>4, <1>5, SameMoney

\* A new request is nobody's yet.
LEMMA RequestKeepsInv ==
    ASSUME RequestInv, NEW u \in Operators, NEW q \in RefundIds, RequestRefund(u, q)
    PROVE  RequestInv'
<1> USE RequestAssumption DEF RequestInv, RequestRefund
<1>1. row[q] \in RequestRows /\ row'[q] \in RequestRows
  BY DEF TypeOK, RequestRows, States
<1>2. TypeOK'
  BY <1>1 DEF TypeOK, RequestRows
<1>3. DutiesSeparated'
  BY <1>1 DEF DutiesSeparated, TypeOK, RequestRows, CallsHoldRows
<1>4. EvidenceSpentOnce'
  BY <1>1 DEF EvidenceSpentOnce, TypeOK, RequestRows
<1>5. CallsHoldRows'
  BY <1>1 DEF CallsHoldRows, TypeOK, RequestRows
<1> QED
  BY <1>2, <1>3, <1>4, <1>5

\* A guarded one-shot move, of approval or cancellation.
LEMMA MovesKeepInv ==
    ASSUME RequestInv, NEW a \in Actors, ApproveCommit(a) \/ CancelCommit(a)
    PROVE  RequestInv'
<1> USE RequestAssumption DEF RequestInv
<1> DEFINE q == call[a].req
           u == call[a].user
<1>1. /\ q \in RefundIds /\ u \in Operators
      /\ row[q] \in RequestRows /\ call[a] \in Calls /\ row[q].state # "none"
  BY DEF ApproveCommit, CancelCommit, CallsHoldRows, TypeOK
<1>2. /\ call' = [call EXCEPT ![a] = NoCall]
      /\ UNCHANGED <<refund, audit, crashes>>
  BY DEF ApproveCommit, CancelCommit, Move, Done
<1>3. CASE row' = row
  <2>1. TypeOK'
    BY <1>2, <1>3 DEF TypeOK, Calls, NoCall, Labels, States
  <2>2. CallsHoldRows'
    BY <1>2, <1>3 DEF CallsHoldRows, TypeOK, NoCall
  <2> QED
    BY <1>2, <1>3, <2>1, <2>2, SameMoney
<1>4. CASE /\ call[a].pc = "approve"
           /\ row[q].state = "requested"
           /\ row' = [row EXCEPT ![q] = [row[q] EXCEPT !.state = "approved",
                                                       !.approvedBy = u]]
  <2>1. row'[q] \in RequestRows /\ row[q].approvedBy = Nobody /\ u # row[q].requestedBy
    <3>1. row'[q] = [row[q] EXCEPT !.state = "approved", !.approvedBy = u]
      BY <1>1, <1>4 DEF TypeOK
    <3>2. row'[q] \in RequestRows
      BY <1>1, <3>1 DEF RequestRows, States
    <3> QED
      BY <1>1, <1>4, <3>2 DEF CallsHoldRows
  <2>2. TypeOK'
    BY <1>1, <1>2, <1>4, <2>1 DEF TypeOK, RequestRows, Calls, NoCall, Labels, States
  <2>3. DutiesSeparated'
    BY <1>1, <1>2, <1>4, <2>1 DEF DutiesSeparated, TypeOK, RequestRows
  <2>4. EvidenceSpentOnce'
    BY <1>1, <1>2, <1>4, <2>1 DEF EvidenceSpentOnce, TypeOK, RequestRows
  <2>5. CallsHoldRows'
    BY <1>1, <1>2, <1>4, <2>1 DEF CallsHoldRows, TypeOK, RequestRows, NoCall
  <2> QED
    BY <2>2, <2>3, <2>4, <2>5
<1>5. CASE /\ call[a].pc = "cancel"
           /\ row[q].state = call[a].state
           /\ row' = [row EXCEPT ![q] = [row[q] EXCEPT !.state = "cancelled"]]
  <2>1. row'[q] \in RequestRows /\ row[q].state \in {"requested", "approved"}
    BY <1>1, <1>5 DEF RequestRows, States, TypeOK, CallsHoldRows
  <2>2. TypeOK'
    BY <1>1, <1>2, <1>5, <2>1 DEF TypeOK, RequestRows, Calls, NoCall, Labels, States
  <2>3. DutiesSeparated'
    BY <1>1, <1>2, <1>5, <2>1 DEF DutiesSeparated, TypeOK, RequestRows
  <2>4. EvidenceSpentOnce'
    BY <1>1, <1>2, <1>5, <2>1 DEF EvidenceSpentOnce, TypeOK, RequestRows
  <2>5. CallsHoldRows'
    BY <1>1, <1>2, <1>5, <2>1 DEF CallsHoldRows, TypeOK, RequestRows, NoCall
  <2> QED
    BY <2>2, <2>3, <2>4, <2>5
<1> QED
  BY <1>3, <1>4, <1>5 DEF ApproveCommit, CancelCommit, Move

\* The calls of an execution, between its latch and its end.
ExecutingLabels == {"latch", "post", "owner", "unlatch", "finalize"}

\* A call of an execution: its request is approved, by someone else.
LEMMA ExecutionFacts ==
    ASSUME RequestInv, NEW a \in Actors, call[a].pc \in ExecutingLabels
    PROVE  /\ call[a] \in Calls
           /\ call[a].req \in RefundIds /\ call[a].user \in Operators
           /\ call[a].evidence \in Evidence
           /\ row[call[a].req] \in RequestRows
           /\ row[call[a].req].state # "none"
           /\ row[call[a].req].approvedBy \notin {Nobody, call[a].user}
  BY DEF RequestInv, CallsHoldRows, TypeOK, ExecutingLabels

\* A step that only moves a call along an execution, or ends it.
LEMMA CallStepKeepsInv ==
    ASSUME RequestInv, NEW a \in Actors, UNCHANGED <<row, refund>>,
           audit' \subseteq RefundIds,
           \/ call' = [call EXCEPT ![a] = NoCall]
           \/ /\ call[a].pc \in ExecutingLabels
              /\ call' = [call EXCEPT ![a].pc = "unlatch"]
           \/ /\ call[a].pc = "owner"
              /\ call' = [call EXCEPT ![a].pc = "finalize"]
    PROVE  RequestInv'
<1> USE RequestAssumption DEF RequestInv
<1>1. TypeOK'
  <2>1. NoCall \in Calls
    BY DEF NoCall, Calls, Labels, States
  <2>2. call[a] \in Calls /\ call \in [Actors -> Calls]
    BY DEF TypeOK
  <2>3. \A l \in Labels : [call[a] EXCEPT !.pc = l] \in Calls
    BY <2>2 DEF Calls
  <2>4. call' \in [Actors -> Calls]
    BY <2>1, <2>2, <2>3 DEF Labels
  <2> QED
    BY <2>4 DEF TypeOK
<1>2. CallsHoldRows'
  <2>1. CASE call' = [call EXCEPT ![a] = NoCall]
    BY <2>1 DEF CallsHoldRows, TypeOK, NoCall
  <2>2. CASE /\ call[a].pc \in ExecutingLabels
             /\ call' = [call EXCEPT ![a].pc = "unlatch"]
    BY <2>2, ExecutionFacts DEF CallsHoldRows, TypeOK, Calls, ExecutingLabels
  <2>3. CASE call[a].pc = "owner" /\ call' = [call EXCEPT ![a].pc = "finalize"]
    BY <2>3, ExecutionFacts DEF CallsHoldRows, TypeOK, Calls, ExecutingLabels
  <2> QED
    BY <2>1, <2>2, <2>3
<1> QED
  BY <1>1, <1>2, SameMoney

\* What the state of a row implies about its other columns.
Columns(r) ==
    /\ r.requestedBy = Nobody <=> r.state = "none"
    /\ r.state \in {"approved", "executing", "executed"} => r.approvedBy # Nobody
    /\ r.executedBy # Nobody <=> r.state \in {"executing", "executed"}
    /\ r.refund # NoRefund <=> r.state = "executed"

\* A write of an approved row that leaves the requester and the approver alone
\* keeps the duties separate and every other row as it was.
LEMMA RowWrite ==
    ASSUME RequestInv, NEW q \in RefundIds, NEW new \in RequestRows,
           row' = [row EXCEPT ![q] = new], UNCHANGED refund,
           new.requestedBy = row[q].requestedBy, new.approvedBy = row[q].approvedBy,
           Columns(new)
    PROVE  /\ row' \in [RefundIds -> RequestRows]
           /\ row'[q] = new
           /\ \A p \in RefundIds : p # q => row'[p] = row[p]
           /\ \A p \in RefundIds : /\ row'[p].requestedBy = row[p].requestedBy
                                   /\ row'[p].approvedBy = row[p].approvedBy
                                   /\ Columns(row'[p])
           /\ DutiesSeparated'
<1> USE DEF RequestInv
<1>1. row \in [RefundIds -> RequestRows] /\ \A p \in RefundIds : Columns(row[p])
  BY DEF TypeOK, Columns
<1>2. /\ row' \in [RefundIds -> RequestRows] /\ row'[q] = new
      /\ \A p \in RefundIds : p # q => row'[p] = row[p]
  BY <1>1
<1>3. \A p \in RefundIds : /\ row'[p].requestedBy = row[p].requestedBy
                           /\ row'[p].approvedBy = row[p].approvedBy
  BY <1>2
<1>4. \A p \in RefundIds : Columns(row'[p])
  BY <1>1, <1>2
<1>5. \A r \in refund : r.for \in RefundIds
  BY DEF TypeOK
<1>6. DutiesSeparated'
  BY <1>3, <1>5 DEF DutiesSeparated
<1> QED
  BY <1>2, <1>3, <1>4, <1>6

\* The latch: the row is marked, the call goes on to the primitive.
LEMMA LatchKeepsInv ==
    ASSUME RequestInv, NEW a \in Actors, Latch(a)
    PROVE  RequestInv'
<1> USE RequestAssumption DEF RequestInv
<1> DEFINE q == call[a].req
           u == call[a].user
<1>1. call[a].pc = "latch" /\ call[a].pc \in ExecutingLabels
  BY DEF Latch, ExecutingLabels
<1>2. CASE ~Latchable(a)
  BY <1>2, CallStepKeepsInv DEF Latch, Done, TypeOK
<1>3. CASE Latchable(a)
  <2>1. /\ row' = [row EXCEPT ![q].state = "executing", ![q].executedBy = u]
        /\ call' = [call EXCEPT ![a].pc = "post"]
        /\ UNCHANGED <<refund, audit, crashes>>
    BY <1>3 DEF Latch, Goto
  <2>2. row[q].state \in {"approved", "executing"}
    BY <1>1, <1>3 DEF Latchable, CallsHoldRows, ExecutingLabels
  <2> DEFINE new == [row[q] EXCEPT !.state = "executing", !.executedBy = u]
  <2>3. row' = [row EXCEPT ![q] = new]
    BY <1>1, <2>1, ExecutionFacts DEF TypeOK
  <2>4. /\ new \in RequestRows /\ new.state = "executing" /\ new.executedBy = u
        /\ new.requestedBy = row[q].requestedBy /\ new.approvedBy = row[q].approvedBy
        /\ new.refund = row[q].refund
    BY <1>1, ExecutionFacts DEF RequestRows, States
  <2>5. Columns(new)
    BY <1>1, <2>2, <2>4, ExecutionFacts DEF Columns, TypeOK
  <2> HIDE DEF new
  <2>6. /\ row' \in [RefundIds -> RequestRows] /\ row'[q] = new
        /\ \A p \in RefundIds : p # q => row'[p] = row[p]
        /\ \A p \in RefundIds : /\ row'[p].requestedBy = row[p].requestedBy
                                /\ row'[p].approvedBy = row[p].approvedBy
                                /\ Columns(row'[p])
        /\ DutiesSeparated'
    BY <1>1, <2>1, <2>3, <2>4, <2>5, ExecutionFacts, RowWrite
  <2>7. TypeOK' /\ EvidenceSpentOnce'
    <3>1. call' \in [Actors -> Calls]
      BY <1>1, <2>1, ExecutionFacts DEF TypeOK, Calls, Labels
    <3>2. TypeOK'
      BY <2>1, <2>6, <3>1 DEF TypeOK, Columns
    <3>3. \A p \in RefundIds :
             /\ row'[p].refund = row[p].refund
             /\ row'[p].state = "executed" => row[p].state = "executed"
      BY <2>4, <2>6
    <3>4. EvidenceSpentOnce'
      <4>1. refund' = refund
        BY <2>1
      <4> QED
        BY <3>3, <4>1 DEF EvidenceSpentOnce
    <3> QED
      BY <3>2, <3>4
  <2>8. CallsHoldRows'
    <3>1. \A c \in Actors : c # a => call'[c] = call[c]
      BY <2>1 DEF TypeOK
    <3>2. /\ call'[a].pc = "post" /\ call'[a].evidence = call[a].evidence
          /\ call'[a].req = q /\ call'[a].user = u
          /\ call'[a].state = call[a].state
      BY <1>1, <2>1, ExecutionFacts DEF TypeOK, Calls
    <3>3. /\ \A p \in RefundIds : p # q => row'[p] = row[p]
          /\ row'[q].state = "executing"
          /\ row'[q].approvedBy = row[q].approvedBy
          /\ row'[q].requestedBy = row[q].requestedBy
      BY <2>4, <2>6
    <3>4. \A p \in RefundIds : /\ row'[p].approvedBy = row[p].approvedBy
                               /\ row'[p].requestedBy = row[p].requestedBy
                               /\ row[p].state # "none" => row'[p].state # "none"
      BY <3>3
    <3>5. call[a].state \in {"approved", "executing"}
      BY <1>1 DEF CallsHoldRows
    <3>a. /\ q \in RefundIds /\ u \in Operators /\ row[q].state # "none"
          /\ call[a].evidence \in Evidence /\ row[q].approvedBy \notin {Nobody, u}
      BY <1>1, ExecutionFacts
    <3> HIDE DEF q, u
    <3>6. \A c \in Actors : call'[c].pc # "idle" =>
             /\ call'[c].req \in RefundIds /\ call'[c].user \in Operators
             /\ row'[call'[c].req].state # "none"
      <4> TAKE c \in Actors
      <4>1. CASE c = a
        BY <4>1, <3>2, <3>4, <3>a
      <4>2. CASE c # a
        BY <4>2, <3>1, <3>4 DEF CallsHoldRows
      <4> QED
        BY <4>1, <4>2
    <3>7. \A c \in Actors :
             /\ call'[c].pc = "approve" => call'[c].user # row'[call'[c].req].requestedBy
             /\ call'[c].pc = "cancel" => call'[c].state \in {"requested", "approved"}
      <4> TAKE c \in Actors
      <4>1. CASE c = a
        BY <4>1, <3>2
      <4>2. CASE c # a
        BY <4>2, <3>1, <3>4 DEF CallsHoldRows
      <4> QED
        BY <4>1, <4>2
    <3>8. \A c \in Actors : call'[c].pc \in ExecutingLabels =>
             /\ call'[c].state \in {"approved", "executing"}
             /\ call'[c].evidence \in Evidence
             /\ row'[call'[c].req].approvedBy \notin {Nobody, call'[c].user}
      <4> TAKE c \in Actors
      <4>1. CASE c = a
        BY <4>1, <3>2, <3>4, <3>5, <3>a
      <4>2. CASE c # a
        BY <4>2, <3>1, <3>4 DEF CallsHoldRows, ExecutingLabels
      <4> QED
        BY <4>1, <4>2
    <3>9. \A c \in Actors : call'[c].pc \in {"owner", "finalize"} =>
             \E r \in refund' : /\ r.evidence = call'[c].evidence
                                /\ r.amount = Amount[call'[c].req]
      BY <2>1, <3>1, <3>2 DEF CallsHoldRows
    <3>10. \A p \in RefundIds : row'[p].state \in {"none", "requested"} =>
              row'[p].approvedBy = Nobody
      BY <3>3 DEF CallsHoldRows
    <3> QED
      BY <3>6, <3>7, <3>8, <3>9, <3>10 DEF CallsHoldRows, ExecutingLabels
  <2> QED
    BY <2>6, <2>7, <2>8
<1> QED
  BY <1>2, <1>3

\* The primitive: a refund is posted by the executor, or found.
LEMMA PostKeepsInv ==
    ASSUME RequestInv, NEW a \in Actors, Post(a)
    PROVE  RequestInv'
<1> USE RequestAssumption DEF RequestInv
<1> DEFINE q == call[a].req
           e == call[a].evidence
           new == [evidence |-> e, amount |-> Amount[q], by |-> call[a].user, for |-> q]
<1>1. call[a].pc = "post" /\ call[a].pc \in ExecutingLabels
  BY DEF Post, ExecutingLabels
<1>2. UNCHANGED <<row, audit, crashes>>
  BY DEF Post
<1>3. CASE refund' = refund \cup {new} /\ call' = [call EXCEPT ![a].pc = "finalize"]
  <2>1. new \in [evidence : Evidence, amount : Nat, by : Operators, for : RefundIds]
    BY <1>1, ExecutionFacts
  <2>2. TypeOK'
    BY <1>1, <1>2, <1>3, <2>1 DEF TypeOK, Calls, Labels
  <2>3. DutiesSeparated'
    BY <1>1, <1>2, <1>3, ExecutionFacts DEF DutiesSeparated
  <2>4. EvidenceSpentOnce'
    BY <1>2, <1>3 DEF EvidenceSpentOnce
  <2>5. CallsHoldRows'
    <3>1. \A c \in Actors : c # a => call'[c] = call[c]
      BY <1>3 DEF TypeOK
    <3>2. /\ call'[a].pc = "finalize" /\ call'[a].evidence = e
          /\ call'[a].req = q /\ call'[a].user = call[a].user
          /\ call'[a].state = call[a].state
      BY <1>1, <1>3, ExecutionFacts DEF TypeOK, Calls
    <3>3. \A c \in Actors : call'[c].pc \in {"owner", "finalize"} =>
             \E r \in refund' : /\ r.evidence = call'[c].evidence
                                /\ r.amount = Amount[call'[c].req]
      <4>1. new \in refund' /\ new.evidence = e /\ new.amount = Amount[q]
        BY <1>3
      <4>2. \E r \in refund' : r.evidence = call'[a].evidence /\ r.amount = Amount[call'[a].req]
        BY <3>2, <4>1
      <4>3. ASSUME NEW c \in Actors, c # a, call[c].pc \in {"owner", "finalize"}
            PROVE  \E r \in refund' : /\ r.evidence = call[c].evidence
                                       /\ r.amount = Amount[call[c].req]
        BY <1>3, <4>3 DEF CallsHoldRows
      <4> QED
        BY <3>1, <4>2, <4>3
    <3>4. call[a].state \in {"approved", "executing"}
      BY <1>1 DEF CallsHoldRows
    <3>5. \A c \in Actors : call'[c].pc # "idle" =>
             /\ call'[c].req \in RefundIds /\ call'[c].user \in Operators
             /\ row[call'[c].req].state # "none"
      BY <1>1, <3>1, <3>2, ExecutionFacts DEF CallsHoldRows
    <3>6. /\ \A c \in Actors : call'[c].pc = "approve" =>
                call'[c].user # row[call'[c].req].requestedBy
          /\ \A c \in Actors : call'[c].pc = "cancel" =>
                call'[c].state \in {"requested", "approved"}
      BY <3>1, <3>2 DEF CallsHoldRows
    <3>7. \A c \in Actors : call'[c].pc \in ExecutingLabels =>
             /\ call'[c].state \in {"approved", "executing"}
             /\ call'[c].evidence \in Evidence
             /\ row[call'[c].req].approvedBy \notin {Nobody, call'[c].user}
      BY <1>1, <3>1, <3>2, <3>4, ExecutionFacts DEF CallsHoldRows, ExecutingLabels
    <3> QED
      BY <1>2, <3>3, <3>5, <3>6, <3>7 DEF CallsHoldRows, ExecutingLabels
  <2> QED
    BY <2>2, <2>3, <2>4, <2>5
<1>4. CASE /\ \E r \in refund : r.evidence = e /\ r.amount = Amount[q]
           /\ call' = [call EXCEPT ![a].pc = "owner", ![a].replayed = TRUE]
           /\ UNCHANGED refund
  <2>1. TypeOK'
    <3>1. [call[a] EXCEPT !.pc = "owner", !.replayed = TRUE] \in Calls
      BY <1>1, ExecutionFacts DEF Calls, Labels
    <3>2. call' = [call EXCEPT ![a] = [call[a] EXCEPT !.pc = "owner", !.replayed = TRUE]]
      BY <1>4 DEF TypeOK
    <3>3. call' \in [Actors -> Calls]
      BY <3>1, <3>2 DEF TypeOK
    <3> QED
      BY <1>2, <1>4, <3>3 DEF TypeOK
  <2>2. CallsHoldRows'
    BY <1>1, <1>2, <1>4, ExecutionFacts DEF CallsHoldRows, TypeOK, Calls, ExecutingLabels
  <2> QED
    BY <1>2, <1>4, <2>1, <2>2, SameMoney
<1> QED
  BY <1>3, <1>4 DEF Post, Goto

\* The release of the latch leaves the approval as it was.
LEMMA UnlatchKeepsInv ==
    ASSUME RequestInv, NEW a \in Actors, Unlatch(a)
    PROVE  RequestInv'
<1> USE RequestAssumption DEF RequestInv
<1> DEFINE q == call[a].req
<1>1. call[a].pc = "unlatch" /\ call[a].pc \in ExecutingLabels
  BY DEF Unlatch, ExecutingLabels
<1>2. CASE ~Releasable(q)
  BY <1>2, CallStepKeepsInv DEF Unlatch, Done, TypeOK
<1>3. CASE Releasable(q)
  <2>1. /\ row' = [row EXCEPT ![q].state = "approved", ![q].executedBy = Nobody]
        /\ call' = [call EXCEPT ![a] = NoCall]
        /\ UNCHANGED <<refund, audit, crashes>>
    BY <1>3 DEF Unlatch, Done
  <2>2. row[q].state = "executing"
    BY <1>3 DEF Releasable
  <2> DEFINE new == [row[q] EXCEPT !.state = "approved", !.executedBy = Nobody]
  <2>3. row' = [row EXCEPT ![q] = new]
    BY <1>1, <2>1, ExecutionFacts DEF TypeOK
  <2>4. /\ new \in RequestRows /\ new.state = "approved" /\ new.executedBy = Nobody
        /\ new.requestedBy = row[q].requestedBy /\ new.approvedBy = row[q].approvedBy
        /\ new.refund = row[q].refund
    BY <1>1, ExecutionFacts DEF RequestRows, States
  <2>5. Columns(new)
    BY <1>1, <2>2, <2>4, ExecutionFacts DEF Columns, TypeOK
  <2> HIDE DEF new
  <2>6. /\ row' \in [RefundIds -> RequestRows] /\ row'[q] = new
        /\ \A p \in RefundIds : p # q => row'[p] = row[p]
        /\ \A p \in RefundIds : /\ row'[p].requestedBy = row[p].requestedBy
                                /\ row'[p].approvedBy = row[p].approvedBy
                                /\ Columns(row'[p])
        /\ DutiesSeparated'
    BY <1>1, <2>1, <2>3, <2>4, <2>5, ExecutionFacts, RowWrite
  <2>7. TypeOK' /\ EvidenceSpentOnce'
    <3>1. NoCall \in Calls
      BY DEF NoCall, Calls, Labels, States
    <3>2. TypeOK'
      BY <2>1, <2>6, <3>1 DEF TypeOK, Columns
    <3>3. \A p \in RefundIds :
             /\ row'[p].refund = row[p].refund
             /\ row'[p].state = "executed" => row[p].state = "executed"
      BY <2>4, <2>6
    <3>4. EvidenceSpentOnce'
      <4>1. refund' = refund
        BY <2>1
      <4> QED
        BY <3>3, <4>1 DEF EvidenceSpentOnce
    <3> QED
      BY <3>2, <3>4
  <2>8. CallsHoldRows'
    <3>1. /\ \A c \in Actors : c # a => call'[c] = call[c]
          /\ call'[a].pc = "idle"
      BY <2>1 DEF TypeOK, NoCall
    <3>2. \A p \in RefundIds : /\ row'[p].requestedBy = row[p].requestedBy
                               /\ row'[p].approvedBy = row[p].approvedBy
                               /\ row'[p].state \in {row[p].state, "approved"}
      BY <2>4, <2>6
    <3>3. ASSUME NEW c \in Actors, call'[c].pc # "idle"
          PROVE  /\ call'[c] = call[c] /\ call[c].req \in RefundIds
                 /\ call[c].user \in Operators /\ row[call[c].req].state # "none"
      BY <3>1, <3>3 DEF CallsHoldRows
    <3>4. \A c \in Actors : call'[c].pc # "idle" =>
             /\ call'[c].req \in RefundIds /\ call'[c].user \in Operators
             /\ row'[call'[c].req].state # "none"
      BY <3>2, <3>3
    <3>5. \A c \in Actors : call'[c].pc = "approve" =>
             call'[c].user # row'[call'[c].req].requestedBy
      BY <3>2, <3>3 DEF CallsHoldRows
    <3>6. \A c \in Actors : call'[c].pc \in ExecutingLabels =>
             /\ call'[c].state \in {"approved", "executing"}
             /\ call'[c].evidence \in Evidence
             /\ row'[call'[c].req].approvedBy \notin {Nobody, call'[c].user}
      BY <3>2, <3>3 DEF CallsHoldRows, ExecutingLabels
    <3>7. /\ \A c \in Actors : call'[c].pc = "cancel" =>
                call'[c].state \in {"requested", "approved"}
          /\ \A c \in Actors : call'[c].pc \in {"owner", "finalize"} =>
                \E r \in refund : /\ r.evidence = call'[c].evidence
                                  /\ r.amount = Amount[call'[c].req]
      BY <3>3 DEF CallsHoldRows
    <3>8. \A p \in RefundIds : row'[p].state \in {"none", "requested"} =>
             row'[p].approvedBy = Nobody
      BY <3>2 DEF CallsHoldRows
    <3> QED
      BY <2>1, <3>4, <3>5, <3>6, <3>7, <3>8 DEF CallsHoldRows, ExecutingLabels
  <2> QED
    BY <2>6, <2>7, <2>8
<1> QED
  BY <1>2, <1>3

\* The end of an execution binds a refund no other request has bound.
LEMMA FinalizeKeepsInv ==
    ASSUME RequestInv, NEW a \in Actors, Finalize(a)
    PROVE  RequestInv'
<1> USE RequestAssumption DEF RequestInv
<1> DEFINE q == call[a].req
           e == call[a].evidence
           u == call[a].user
<1>1. call[a].pc = "finalize" /\ call[a].pc \in ExecutingLabels
  BY DEF Finalize, ExecutingLabels
<1>2. CASE row' = row
  BY <1>1, <1>2, CallStepKeepsInv, ExecutionFacts DEF Finalize, Goto, Done, TypeOK
<1>3. CASE row' # row
  <2>1. /\ row' = [row EXCEPT ![q].state = "executed", ![q].executedBy = u,
                              ![q].refund = e]
        /\ call' = [call EXCEPT ![a] = NoCall]
        /\ audit' \subseteq audit \cup {q}
        /\ UNCHANGED <<refund, crashes>>
        /\ row[q].state = "executing" /\ Bindable(q, e)
    BY <1>3 DEF Finalize, Done, Goto
  <2>2. \A p \in RefundIds \ {q} : row[p].refund # e
    BY <2>1 DEF Bindable, OwnedByOther
  <2> DEFINE new == [row[q] EXCEPT !.state = "executed", !.executedBy = u, !.refund = e]
  <2>3. row' = [row EXCEPT ![q] = new]
    BY <1>1, <2>1, ExecutionFacts DEF TypeOK
  <2>4. /\ new \in RequestRows /\ new.state = "executed" /\ new.executedBy = u
        /\ new.requestedBy = row[q].requestedBy /\ new.approvedBy = row[q].approvedBy
        /\ new.refund = e
    BY <1>1, ExecutionFacts DEF RequestRows, States
  <2>5. Columns(new)
    BY <1>1, <2>1, <2>4, ExecutionFacts DEF Columns, TypeOK
  <2> HIDE DEF new
  <2>6. /\ row' \in [RefundIds -> RequestRows] /\ row'[q] = new
        /\ \A p \in RefundIds : p # q => row'[p] = row[p]
        /\ \A p \in RefundIds : /\ row'[p].requestedBy = row[p].requestedBy
                                /\ row'[p].approvedBy = row[p].approvedBy
                                /\ Columns(row'[p])
        /\ DutiesSeparated'
    BY <1>1, <2>1, <2>3, <2>4, <2>5, ExecutionFacts, RowWrite
  <2>7. TypeOK'
    <3>1. NoCall \in Calls
      BY DEF NoCall, Calls, Labels, States
    <3>2. audit' \subseteq RefundIds
      BY <1>1, <2>1, ExecutionFacts DEF TypeOK
    <3> QED
      BY <2>1, <2>6, <3>1, <3>2 DEF TypeOK, Columns
  <2>8. EvidenceSpentOnce'
    <3>1. \E r \in refund : r.evidence = e /\ r.amount = Amount[q]
      BY <1>1 DEF CallsHoldRows
    <3>2. row'[q].refund = e /\ refund' = refund
      BY <2>1, <2>4, <2>6
    <3>3. ASSUME NEW p \in RefundIds, p # q, row'[p].state = "executed"
          PROVE  /\ \E r \in refund : r.evidence = row'[p].refund /\ r.amount = Amount[p]
                 /\ \A o \in RefundIds \ {p} : row'[o].refund # row'[p].refund
      <4>1. row'[p] = row[p]
        BY <2>6, <3>3
      <4>2. \A o \in RefundIds \ {p} : o # q => row'[o].refund # row'[p].refund
        BY <2>6, <3>3, <4>1 DEF EvidenceSpentOnce
      <4> QED
        BY <2>2, <3>2, <3>3, <4>1, <4>2 DEF EvidenceSpentOnce
    <3>4. \A o \in RefundIds \ {q} : row'[o].refund # row'[q].refund
      BY <2>2, <2>6, <3>2
    <3> QED
      BY <3>1, <3>2, <3>3, <3>4 DEF EvidenceSpentOnce
  <2>9. CallsHoldRows'
    <3>1. /\ \A c \in Actors : c # a => call'[c] = call[c]
          /\ call'[a].pc = "idle"
      BY <2>1 DEF TypeOK, NoCall
    <3>2. \A p \in RefundIds : /\ row'[p].requestedBy = row[p].requestedBy
                               /\ row'[p].approvedBy = row[p].approvedBy
                               /\ row'[p].state \in {row[p].state, "executed"}
      BY <2>4, <2>6
    <3>3. ASSUME NEW c \in Actors, call'[c].pc # "idle"
          PROVE  /\ c # a /\ call'[c] = call[c] /\ call[c].req \in RefundIds
                 /\ call[c].user \in Operators /\ row[call[c].req].state # "none"
      BY <3>1, <3>3 DEF CallsHoldRows
    <3>4. \A p \in RefundIds : row'[p].state \in {"none", "requested"} =>
             row'[p].approvedBy = Nobody
      BY <3>2 DEF CallsHoldRows
    <3>5. \A c \in Actors : call'[c].pc # "idle" =>
             /\ call'[c].req \in RefundIds /\ call'[c].user \in Operators
             /\ row'[call'[c].req].state # "none"
      BY <3>2, <3>3
    <3>6. \A c \in Actors : call'[c].pc = "approve" =>
             call'[c].user # row'[call'[c].req].requestedBy
      BY <3>2, <3>3 DEF CallsHoldRows
    <3>7. \A c \in Actors : call'[c].pc \in ExecutingLabels =>
             /\ call'[c].state \in {"approved", "executing"}
             /\ call'[c].evidence \in Evidence
             /\ row'[call'[c].req].approvedBy \notin {Nobody, call'[c].user}
      BY <3>2, <3>3 DEF CallsHoldRows, ExecutingLabels
    <3>8. /\ \A c \in Actors : call'[c].pc = "cancel" =>
                call'[c].state \in {"requested", "approved"}
          /\ \A c \in Actors : call'[c].pc \in {"owner", "finalize"} =>
                \E r \in refund : /\ r.evidence = call'[c].evidence
                                  /\ r.amount = Amount[call'[c].req]
      BY <3>3 DEF CallsHoldRows
    <3> QED
      BY <2>1, <3>4, <3>5, <3>6, <3>7, <3>8 DEF CallsHoldRows, ExecutingLabels
  <2> QED
    BY <2>6, <2>7, <2>8, <2>9
<1> QED
  BY <1>2, <1>3

\* Every step keeps the invariant.
LEMMA NextKeepsInv == RequestInv /\ [Next]_vars => RequestInv'
<1> SUFFICES ASSUME RequestInv, [Next]_vars PROVE RequestInv'
  OBVIOUS
<1>1. CASE \E u \in Operators, q \in RefundIds : RequestRefund(u, q)
  BY <1>1, RequestKeepsInv
<1>2. CASE \E a \in Actors, u \in Operators, q \in RefundIds :
             \/ ApproveLoad(a, u, q) \/ CancelLoad(a, u, q)
             \/ \E e \in Evidence : ExecuteLoad(a, u, q, e)
  BY <1>2, LoadsKeepInv
<1>3. ASSUME NEW a \in Actors, ApproveCommit(a) \/ CancelCommit(a)
      PROVE  RequestInv'
  BY <1>3, MovesKeepInv
<1>4. ASSUME NEW a \in Actors, Executing(a)
      PROVE  RequestInv'
  <2>1. CASE PostRefused(a) \/ CheckOwner(a)
    <3>1. /\ call[a].pc \in ExecutingLabels
          /\ UNCHANGED <<row, refund, audit>>
      BY <2>1 DEF PostRefused, CheckOwner, ExecutingLabels
    <3>2. audit \subseteq RefundIds
      BY DEF RequestInv, TypeOK
    <3> QED
      BY <2>1, <3>1, <3>2, CallStepKeepsInv DEF PostRefused, CheckOwner, Goto
  <2> QED
    BY <1>4, <2>1, LatchKeepsInv, PostKeepsInv, UnlatchKeepsInv, FinalizeKeepsInv
       DEF Executing
<1>5. ASSUME NEW a \in Actors, Crash(a)
      PROVE  RequestInv'
  BY <1>5, CallStepKeepsInv DEF Crash, Done, RequestInv, TypeOK
<1>6. CASE UNCHANGED vars
  BY <1>6 DEF vars, RequestInv, TypeOK, DutiesSeparated, EvidenceSpentOnce, CallsHoldRows
<1> QED
  BY <1>1, <1>2, <1>3, <1>4, <1>5, <1>6 DEF Next

-----------------------------------------------------------------------------
\* The invariant holds in every reachable state of the workflow.
THEOREM RequestInvariant == Spec => []RequestInv
<1> QED
  BY InitEstablishesInv, NextKeepsInv, PTL DEF Spec

\* Every row, call and refund keeps its type, and the columns of a request row
\* agree with its state: an approved row names its approver, exactly the rows
\* being or already executed name an executor, exactly the executed ones carry
\* their refund.
THEOREM RequestTypeCorrect == Spec => []TypeOK
<1>1. RequestInv => TypeOK
  BY DEF RequestInv
<1> QED
  BY <1>1, RequestInvariant, PTL

\* Whatever the interleaving of approvals, executions, resumptions and
\* cancellations, nobody moves money he approved, and nobody approves what he
\* requested.
THEOREM RefundDutiesSeparated == Spec => []DutiesSeparated
<1>1. RequestInv => DutiesSeparated
  BY DEF RequestInv
<1> QED
  BY <1>1, RequestInvariant, PTL

\* One bank transfer satisfies at most one request, for exactly its amount,
\* however many executions race to bind it.
THEOREM RefundEvidenceSpentOnce == Spec => []EvidenceSpentOnce
<1>1. RequestInv => EvidenceSpentOnce
  BY DEF RequestInv
<1> QED
  BY <1>1, RequestInvariant, PTL

\* A row that is final stays, and an approval is not replaced.
KeepsEnd(q) ==
    /\ row[q].state \in {"executed", "cancelled"} => row'[q] = row[q]
    /\ row[q].approvedBy # Nobody => row'[q].approvedBy = row[q].approvedBy

\* A step leaves the rows alone or writes one of them that is not final.
LEMMA NextKeepsEnds ==
    ASSUME RequestInv, [Next]_vars
    PROVE  \A q \in RefundIds : KeepsEnd(q)
<1> USE RequestAssumption DEF RequestInv
<1>1. ASSUME UNCHANGED row PROVE \A q \in RefundIds : KeepsEnd(q)
  BY <1>1 DEF KeepsEnd
<1>2. ASSUME NEW p \in RefundIds, row[p] \in RequestRows,
             row[p].state \notin {"executed", "cancelled"},
             \A q \in RefundIds : q # p => row'[q] = row[q],
             row'[p].approvedBy = row[p].approvedBy \/ row[p].approvedBy = Nobody
      PROVE  \A q \in RefundIds : KeepsEnd(q)
  BY <1>2 DEF KeepsEnd
<1>3. ASSUME NEW u \in Operators, NEW p \in RefundIds, RequestRefund(u, p)
      PROVE  \A q \in RefundIds : KeepsEnd(q)
  <2>1. row[p] \in RequestRows /\ row[p].state = "none"
    BY <1>3 DEF RequestRefund, TypeOK
  <2>2. /\ \A q \in RefundIds : q # p => row'[q] = row[q]
        /\ row'[p].approvedBy = row[p].approvedBy
    BY <1>3, <2>1 DEF RequestRefund, TypeOK, RequestRows
  <2> QED
    BY <1>2, <2>1, <2>2
<1>4. ASSUME NEW a \in Actors, ApproveCommit(a) \/ CancelCommit(a)
      PROVE  \A q \in RefundIds : KeepsEnd(q)
  <2> DEFINE p == call[a].req
  <2>1. p \in RefundIds /\ row[p] \in RequestRows
    BY <1>4 DEF ApproveCommit, CancelCommit, CallsHoldRows, TypeOK
  <2>2. CASE row' # row /\ ApproveCommit(a)
    <3>1. row[p].state = "requested" /\ row[p].approvedBy = Nobody
      BY <2>1, <2>2 DEF ApproveCommit, Move, CallsHoldRows
    <3>2. \A q \in RefundIds : q # p => row'[q] = row[q]
      BY <2>1, <2>2 DEF ApproveCommit, Move, TypeOK
    <3> QED
      BY <1>2, <2>1, <3>1, <3>2
  <2>3. CASE row' # row /\ CancelCommit(a)
    <3>1. row[p].state \in {"requested", "approved"}
      BY <2>1, <2>3 DEF CancelCommit, Move, CallsHoldRows
    <3>2. /\ \A q \in RefundIds : q # p => row'[q] = row[q]
          /\ row'[p] = [row[p] EXCEPT !.state = "cancelled"]
      BY <2>1, <2>3 DEF CancelCommit, Move, TypeOK
    <3>3. row'[p].approvedBy = row[p].approvedBy
      BY <2>1, <3>2 DEF RequestRows
    <3> QED
      BY <1>2, <2>1, <3>1, <3>2, <3>3
  <2> QED
    BY <1>1, <1>4, <2>2, <2>3
<1>5. ASSUME NEW a \in Actors, Latch(a) \/ Unlatch(a) \/ Finalize(a)
      PROVE  \A q \in RefundIds : KeepsEnd(q)
  <2> DEFINE p == call[a].req
  <2>1. call[a].pc \in ExecutingLabels
    BY <1>5 DEF Latch, Unlatch, Finalize, ExecutingLabels
  <2>2. p \in RefundIds /\ row[p] \in RequestRows
    BY <2>1, ExecutionFacts
  <2>3. CASE row' # row
    <3>1. row[p].state \in {"approved", "executing"}
      BY <1>5, <2>1, <2>3
         DEF Latch, Latchable, Unlatch, Releasable, Finalize, CallsHoldRows, ExecutingLabels
    <3>2. /\ \A q \in RefundIds : q # p => row'[q] = row[q]
          /\ row'[p].approvedBy = row[p].approvedBy
      BY <1>5, <2>2, <2>3 DEF Latch, Unlatch, Finalize, TypeOK, RequestRows
    <3> QED
      BY <1>2, <2>2, <3>1, <3>2
  <2> QED
    BY <1>1, <2>3
<1> QED
  BY <1>1, <1>3, <1>4, <1>5
     DEF Next, vars, ApproveLoad, CancelLoad, ExecuteLoad, Load, Executing, Post,
         PostRefused, CheckOwner, Crash

\* Executed and cancelled requests never change again, and no second approver
\* replaces the first, however late a losing call writes.
THEOREM RefundEndsStay == Spec => EndsStay
<1>1. RequestInv /\ [Next]_vars =>
        [\A q \in RefundIds :
            /\ row[q].state \in {"executed", "cancelled"} => row'[q] = row[q]
            /\ row[q].approvedBy # Nobody => row'[q].approvedBy = row[q].approvedBy]_vars
  BY NextKeepsEnds DEF KeepsEnd
<1> QED
  BY <1>1, RequestInvariant, PTL DEF Spec, EndsStay

-----------------------------------------------------------------------------
(***************************************************************************)
(* The decisions of staff and owners, for any people and any number of     *)
(* requests under way.                                                     *)
(***************************************************************************)

\* The history of who was cleared, as every step writes it.
Clears == cleared' = cleared \cup (admins' \cap opsRole')

\* What the rows say, without the requests.
DecisionTables ==
    /\ DecisionsHold /\ proposals \in Seq(ProposalRows) /\ admins \cap opsRole \subseteq cleared

\* What no step takes back: clearances, proposals and who made them.
ProposalsKept ==
    /\ cleared \subseteq cleared' /\ DOMAIN proposals \subseteq DOMAIN proposals'
    /\ \A n \in DOMAIN proposals : proposals'[n].by = proposals[n].by

\* The other requests fit the rows a step leaves, when it takes nothing back.
LEMMA OtherDesksFit ==
    ASSUME DecisionsInv, ProposalsKept, NEW d \in Desks, DeskFits(desk[d])',
           \A e \in Desks \ {d} : desk'[e] = desk[e]
    PROVE  \A e \in Desks : DeskFits(desk[e])'
<1> TAKE e \in Desks
<1>1. CASE e = d
  BY <1>1
<1>2. CASE e # d
  <2>1. desk'[e] = desk[e] /\ DeskFits(desk[e]) /\ desk[e] \in DeskRows
    BY <1>2 DEF DecisionsInv
  <2> QED
    BY <2>1 DEF DeskFits, ProposalsKept
<1> QED
  BY <1>1, <1>2

\* A request opens and writes nothing else.
LEMMA OpensKeepsInv ==
    ASSUME DecisionsInv, NEW d \in Desks, NEW r \in DeskRows, Opens(d, r), DeskFits(r), Clears,
           UNCHANGED <<roleVars, vatVars, orgVars, businessVars>>
    PROVE  DecisionsInv'
<1> USE AdministrationAssumption
<1>1. /\ UNCHANGED <<admins, opsRole, facts, ownNumber, proposals, checkedBy, org, seat, business, vetted>>
      /\ cleared' = cleared
  BY DEF roleVars, vatVars, orgVars, businessVars, Clears, DecisionsInv
<1>2. /\ desk' \in [Desks -> DeskRows] /\ desk'[d] = r /\ \A e \in Desks \ {d} : desk'[e] = desk[e]
      /\ decisions' \in 0..MaxDecisions
  BY DEF Opens, DecisionsInv, DecisionsHold, AdministrationTypeOK
<1>3. DeskFits(desk[d])'
  BY <1>1, <1>2 DEF DeskFits
<1>4. \A e \in Desks : DeskFits(desk[e])'
  BY <1>1, <1>2, <1>3, OtherDesksFit DEF ProposalsKept
<1>5. DecisionsHold'
  BY <1>1, <1>2 DEF DecisionsInv, DecisionsHold, AdministrationTypeOK, TwoPeopleSetTheFacts,
     ClearedPeopleSetTheFacts, EligibleWasReviewed, OwnerKept
<1> QED
  BY <1>1, <1>2, <1>4, <1>5 DEF DecisionsInv

\* A request ends; what it wrote is in the tables.
LEMMA ClosesKeepsInv ==
    ASSUME DecisionsInv, NEW d \in Desks, Closes(d), ProposalsKept, DecisionTables'
    PROVE  DecisionsInv'
<1>1. /\ desk' \in [Desks -> DeskRows] /\ desk'[d] = NoDesk /\ \A e \in Desks \ {d} : desk'[e] = desk[e]
  <2>1. NoDesk \in DeskRows
    BY AdministrationAssumption DEF NoDesk, DeskRows, AnySeat
  <2> QED
    BY <2>1 DEF Closes, DecisionsInv
<1>2. DeskFits(desk[d])'
  BY <1>1 DEF DeskFits, NoDesk
<1>3. \A e \in Desks : DeskFits(desk[e])'
  BY <1>1, <1>2, OtherDesksFit
<1> QED
  BY <1>1, <1>3 DEF DecisionsInv, DecisionTables

\* The records the requests open with are such records.
LEMMA OpenedRows ==
    ASSUME NEW p \in Staff, NEW q \in Staff, NEW n \in Nat
    PROVE  /\ [NoDesk EXCEPT !.pc = "grant", !.on = p] \in DeskRows
           /\ [NoDesk EXCEPT !.pc = "propose", !.who = p] \in DeskRows
           /\ \A pc \in {"approve", "reject"} : [NoDesk EXCEPT !.pc = pc, !.who = p, !.n = n] \in DeskRows
           /\ \A to \in {"none", "rejected"} : [NoDesk EXCEPT !.pc = "apply", !.to = to] \in DeskRows
           /\ \A a \in {"approve", "reject", "suspend", "reinstate"} :
                 [NoDesk EXCEPT !.pc = "business", !.to = a] \in DeskRows
           /\ \A to \in {"submitted", "approved", "rejected", "changes_requested"} :
                 [NoDesk EXCEPT !.pc = "org", !.to = to] \in DeskRows
           /\ \A role \in {"admin", "approver"} :
                 [NoDesk EXCEPT !.pc = "seat", !.on = p, !.to = role, !.n = n] \in DeskRows
           /\ [NoDesk EXCEPT !.pc = "unseat", !.who = p, !.on = q] \in DeskRows
  BY AdministrationAssumption DEF NoDesk, DeskRows, AnySeat, OrgStatuses

\* Who may handle VAT has been cleared, and the founder's seat is not free.
LEMMA GuardsHold ==
    ASSUME DecisionsInv
    PROVE  /\ \A p \in Staff : MayHandleVat(p) => p \in cleared
           /\ seat \in [Staff -> AnySeat] /\ seat[Founder] = "owner"
           /\ \A p \in Staff : seat[p] = "owner" => p = Founder
  BY AdministrationAssumption DEF DecisionsInv, DecisionsHold, AdministrationTypeOK, OwnerKept, MayHandleVat

\* Every read that opens a request.
LEMMA DeskLoadsKeepInv ==
    ASSUME DecisionsInv, Clears, NEW d \in Desks,
           \/ \E p \in Staff : GrantLoads(d, p) \/ ProposeLoads(d, p)
           \/ \E p \in Staff, n \in DOMAIN proposals, pc \in {"approve", "reject"} : DecideLoads(d, p, n, pc)
           \/ ApplyLoads(d)
           \/ \E a \in {"approve", "reject", "suspend", "reinstate"} : ReviewLoads(d, a)
           \/ \E to \in {"submitted", "approved", "rejected", "changes_requested"} : OrgLoads(d, to)
           \/ \E p \in Staff, role \in {"admin", "approver"} : SeatLoads(d, p, role)
           \/ \E actor, p \in Staff : UnseatLoads(d, actor, p)
    PROVE  DecisionsInv'
<1> DEFINE Opened(r) == /\ r \in DeskRows /\ Opens(d, r) /\ DeskFits(r)
                        /\ UNCHANGED <<roleVars, vatVars, orgVars, businessVars>>
<1> SUFFICES \E r \in DeskRows : Opened(r)
  BY OpensKeepsInv
<1>1. ASSUME NEW p \in Staff, GrantLoads(d, p) PROVE \E r \in DeskRows : Opened(r)
  <2> DEFINE r == [NoDesk EXCEPT !.pc = "grant", !.on = p]
  <2>1. r \in DeskRows
    BY OpenedRows
  <2>2. DeskFits(r)
    BY DEF DeskFits, NoDesk
  <2> QED
    BY <1>1, <2>1, <2>2 DEF GrantLoads
<1>2. ASSUME NEW p \in Staff, ProposeLoads(d, p) PROVE \E r \in DeskRows : Opened(r)
  <2> DEFINE r == [NoDesk EXCEPT !.pc = "propose", !.who = p]
  <2>1. r \in DeskRows
    BY OpenedRows
  <2>2. DeskFits(r)
    BY <1>2, GuardsHold DEF DeskFits, NoDesk, ProposeLoads
  <2> QED
    BY <1>2, <2>1, <2>2 DEF ProposeLoads
<1>3. ASSUME NEW p \in Staff, NEW n \in DOMAIN proposals, NEW pc \in {"approve", "reject"},
             DecideLoads(d, p, n, pc)
      PROVE  \E r \in DeskRows : Opened(r)
  <2> DEFINE r == [NoDesk EXCEPT !.pc = pc, !.who = p, !.n = n]
  <2>1. r \in DeskRows
    <3>1. n \in Nat
      BY DEF DecisionsInv
    <3> QED
      BY <3>1, OpenedRows
  <2>2. DeskFits(r)
    BY <1>3, GuardsHold DEF DeskFits, NoDesk, DecideLoads, NotTheMaker
  <2> QED
    BY <1>3, <2>1, <2>2 DEF DecideLoads
<1>4. ASSUME ApplyLoads(d) PROVE \E r \in DeskRows : Opened(r)
  <2> DEFINE r == [NoDesk EXCEPT !.pc = "apply", !.to = business]
  <2>1. r \in DeskRows
    BY <1>4, AdministrationAssumption, OpenedRows DEF ApplyLoads
  <2>2. DeskFits(r)
    BY DEF DeskFits, NoDesk
  <2> QED
    BY <1>4, <2>1, <2>2 DEF ApplyLoads
<1>5. ASSUME NEW a \in {"approve", "reject", "suspend", "reinstate"}, ReviewLoads(d, a)
      PROVE  \E r \in DeskRows : Opened(r)
  <2> DEFINE r == [NoDesk EXCEPT !.pc = "business", !.to = a]
  <2>1. r \in DeskRows
    BY AdministrationAssumption, OpenedRows
  <2>2. DeskFits(r)
    BY DEF DeskFits, NoDesk
  <2> QED
    BY <1>5, <2>1, <2>2 DEF ReviewLoads
<1>6. ASSUME NEW to \in {"submitted", "approved", "rejected", "changes_requested"}, OrgLoads(d, to)
      PROVE  \E r \in DeskRows : Opened(r)
  <2> DEFINE r == [NoDesk EXCEPT !.pc = "org", !.to = to]
  <2>1. r \in DeskRows
    BY AdministrationAssumption, OpenedRows
  <2>2. DeskFits(r)
    BY DEF DeskFits, NoDesk, OrgStatuses
  <2> QED
    BY <1>6, <2>1, <2>2 DEF OrgLoads
<1>7. ASSUME NEW p \in Staff, NEW role \in {"admin", "approver"}, SeatLoads(d, p, role)
      PROVE  \E r \in DeskRows : Opened(r)
  <2> DEFINE n == IF seat[p] = "none" THEN 0 ELSE 1
             r == [NoDesk EXCEPT !.pc = "seat", !.on = p, !.to = role, !.n = n]
  <2>1. r \in DeskRows
    BY OpenedRows
  <2>2. DeskFits(r)
    BY <1>7, GuardsHold DEF DeskFits, NoDesk, SeatLoads, FreeSeats
  <2> QED
    BY <1>7, <2>1, <2>2 DEF SeatLoads
<1>8. ASSUME NEW actor \in Staff, NEW p \in Staff, UnseatLoads(d, actor, p)
      PROVE  \E r \in DeskRows : Opened(r)
  <2> DEFINE r == [NoDesk EXCEPT !.pc = "unseat", !.who = actor, !.on = p]
  <2>1. r \in DeskRows
    BY OpenedRows
  <2>2. DeskFits(r)
    BY <1>8, GuardsHold DEF DeskFits, NoDesk, UnseatLoads
  <2> QED
    BY <1>8, <2>1, <2>2 DEF UnseatLoads
<1> QED
  BY <1>1, <1>2, <1>3, <1>4, <1>5, <1>6, <1>7, <1>8

\* A write to a business profile, to the organisation, to a seat or to the
\* roles leaves the VAT facts alone.
LEMMA TablesWithSameFacts ==
    ASSUME DecisionsInv, Clears, UNCHANGED vatVars, UNCHANGED decisions,
           admins' \subseteq Staff, opsRole' \subseteq Staff,
           business' \in {"none", "applied", "approved", "rejected", "suspended"}, vetted' \in BOOLEAN,
           EligibleWasReviewed', org' \in OrgStatuses, seat' \in [Staff -> AnySeat], OwnerKept'
    PROVE  ProposalsKept /\ DecisionTables'
<1>1. /\ facts' = facts /\ ownNumber' = ownNumber /\ proposals' = proposals /\ checkedBy' = checkedBy
      /\ decisions' = decisions /\ cleared \subseteq cleared' /\ cleared' \subseteq Staff
  BY DEF vatVars, Clears, DecisionsInv, DecisionsHold, AdministrationTypeOK
<1>2. AdministrationTypeOK'
  BY <1>1 DEF DecisionsInv, DecisionsHold, AdministrationTypeOK, OrgStatuses
<1>3. TwoPeopleSetTheFacts' /\ ClearedPeopleSetTheFacts'
  BY <1>1 DEF DecisionsInv, DecisionsHold, TwoPeopleSetTheFacts, ClearedPeopleSetTheFacts
<1> QED
  BY <1>1, <1>2, <1>3 DEF DecisionsInv, DecisionsHold, DecisionTables, ProposalsKept, Clears

\* The rows around a write of one kind.
LEMMA DecisionTypes ==
    ASSUME DecisionsInv
    PROVE  /\ admins \subseteq Staff /\ opsRole \subseteq Staff /\ cleared \subseteq Staff
           /\ facts \in 0..Len(proposals) /\ ownNumber \in BOOLEAN /\ proposals \in Seq(ProposalRows)
           /\ business \in {"none", "applied", "approved", "rejected", "suspended"} /\ vetted \in BOOLEAN
           /\ org \in OrgStatuses /\ seat \in [Staff -> AnySeat] /\ decisions \in 0..MaxDecisions
           /\ desk \in [Desks -> DeskRows] /\ \A d \in Desks : DeskFits(desk[d])
           /\ TwoPeopleSetTheFacts /\ ClearedPeopleSetTheFacts /\ EligibleWasReviewed /\ OwnerKept
           /\ admins \cap opsRole \subseteq cleared
  BY DEF DecisionsInv, DecisionsHold, AdministrationTypeOK, OrgStatuses

\* grant, and the roles that are set and revoked at once.
LEMMA RolesKeepInv ==
    ASSUME DecisionsInv, Clears,
           \/ \E d \in Desks : GrantWrites(d)
           \/ \E p \in Staff : SetAdmin(p) \/ RevokeRole(p)
    PROVE  DecisionsInv'
<1> USE AdministrationAssumption
<1>1. ASSUME NEW d \in Desks, GrantWrites(d) PROVE DecisionsInv'
  <2>1. desk[d].on \in Staff
    BY DecisionTypes DEF DeskRows
  <2>2. UNCHANGED <<admins, decisions, vatVars, business, vetted, org, seat>> /\ opsRole' \subseteq Staff
    BY <1>1, <2>1, DecisionTypes DEF GrantWrites, Closes, orgVars, businessVars
  <2>3. EligibleWasReviewed' /\ OwnerKept'
    BY <2>2, DecisionTypes DEF EligibleWasReviewed, OwnerKept
  <2>4. ProposalsKept /\ DecisionTables'
    BY <2>2, <2>3, DecisionTypes, TablesWithSameFacts
  <2> QED
    BY <1>1, <2>4, ClosesKeepsInv DEF GrantWrites
<1>2. ASSUME NEW p \in Staff, SetAdmin(p) \/ RevokeRole(p) PROVE DecisionsInv'
  <2>1. /\ UNCHANGED <<desk, facts, ownNumber, proposals, checkedBy, business, vetted, org, seat>>
        /\ opsRole' \subseteq Staff /\ admins' \subseteq Staff /\ decisions' \in 0..MaxDecisions
    BY <1>2, DecisionTypes DEF SetAdmin, RevokeRole, vatVars, orgVars, businessVars
  <2>2. cleared \subseteq cleared' /\ cleared' \subseteq Staff /\ (admins \cap opsRole \subseteq cleared)'
    BY <2>1, DecisionTypes DEF Clears
  <2>3. AdministrationTypeOK'
    BY <2>1, <2>2 DEF DecisionsInv, DecisionsHold, AdministrationTypeOK
  <2>4. TwoPeopleSetTheFacts' /\ ClearedPeopleSetTheFacts' /\ EligibleWasReviewed' /\ OwnerKept'
    BY <2>1, <2>2, DecisionTypes
       DEF TwoPeopleSetTheFacts, ClearedPeopleSetTheFacts, EligibleWasReviewed, OwnerKept
  <2>5. \A d \in Desks : DeskFits(desk[d])'
    BY <2>1, <2>2, DecisionTypes DEF DeskFits
  <2> QED
    BY <2>1, <2>2, <2>3, <2>4, <2>5, DecisionTypes DEF DecisionsInv, DecisionsHold
<1> QED
  BY <1>1, <1>2

\* A proposal is added, by somebody cleared.
LEMMA ProposeKeepsInv ==
    ASSUME DecisionsInv, Clears, NEW d \in Desks, ProposeWrites(d)
    PROVE  DecisionsInv'
<1> DEFINE new == [by |-> desk[d].who, status |-> "pending", decidedBy |-> desk[d].who]
<1>1. new \in ProposalRows /\ new.by \in cleared
  BY DecisionTypes DEF ProposeWrites, DeskFits, DeskRows, ProposalRows
<1>2. /\ UNCHANGED <<admins, opsRole, facts, ownNumber, checkedBy, org, seat, business, vetted, decisions>>
      /\ proposals' = Append(proposals, new) /\ cleared' = cleared
  BY DecisionTypes DEF ProposeWrites, Closes, roleVars, orgVars, businessVars, Clears
<1> HIDE DEF new
<1>3. /\ proposals' \in Seq(ProposalRows) /\ Len(proposals') = Len(proposals) + 1
      /\ DOMAIN proposals = 1..Len(proposals) /\ DOMAIN proposals' = 1..(Len(proposals) + 1)
      /\ \A n \in 1..Len(proposals) : proposals'[n] = proposals[n]
      /\ proposals'[Len(proposals) + 1] = new
  BY <1>1, <1>2, DecisionTypes
<1>4. ProposalsKept
  BY <1>2, <1>3 DEF ProposalsKept
<1>5. AdministrationTypeOK'
  <2>1. \A n \in DOMAIN proposals' : proposals'[n] \in ProposalRows
    BY <1>3
  <2>2. facts' \in 0..Len(proposals')
    BY <1>2, <1>3, DecisionTypes
  <2> QED
    BY <1>2, <2>1, <2>2, DecisionTypes DEF AdministrationTypeOK, ProposalRows, OrgStatuses
<1>6. TwoPeopleSetTheFacts'
  BY <1>2, <1>3, DecisionTypes DEF TwoPeopleSetTheFacts
<1>7. ClearedPeopleSetTheFacts'
  <2>1. \A n \in DOMAIN proposals' : proposals'[n].by \in cleared'
    <3> TAKE n \in DOMAIN proposals'
    <3>1. CASE n \in 1..Len(proposals)
      BY <1>2, <1>3, <3>1, DecisionTypes DEF ClearedPeopleSetTheFacts
    <3>2. CASE n = Len(proposals) + 1
      BY <1>1, <1>2, <1>3, <3>2
    <3> QED
      BY <1>3, <3>1, <3>2
  <2> QED
    BY <1>2, <2>1, DecisionTypes DEF ClearedPeopleSetTheFacts
<1>8. EligibleWasReviewed' /\ OwnerKept'
  BY <1>2, DecisionTypes DEF EligibleWasReviewed, OwnerKept
<1>9. DecisionTables'
  BY <1>2, <1>3, <1>5, <1>6, <1>7, <1>8, DecisionTypes DEF DecisionTables, DecisionsHold
<1> QED
  BY <1>4, <1>9, ClosesKeepsInv DEF ProposeWrites

\* approve puts the facts of another person's proposal into force.
LEMMA ApplyFactsKeepsInv ==
    ASSUME DecisionsInv, Clears, NEW d \in Desks, ApplyFacts(d)
    PROVE  DecisionsInv'
<1>1. /\ desk[d] \in DeskRows /\ desk[d].n \in DOMAIN proposals /\ desk[d].who \in cleared
      /\ proposals[desk[d].n].by # desk[d].who
  BY DecisionTypes DEF ApplyFacts, DeskFits
<1>2. /\ facts' = desk[d].n /\ ownNumber' = FALSE /\ checkedBy' = desk[d].who /\ cleared' = cleared
      /\ UNCHANGED <<admins, opsRole, proposals, org, seat, business, vetted, decisions>>
  BY DecisionTypes DEF ApplyFacts, roleVars, orgVars, businessVars, Clears
<1>3. /\ desk' \in [Desks -> DeskRows] /\ desk'[d] = [desk[d] EXCEPT !.pc = "approved"]
      /\ \A e \in Desks \ {d} : desk'[e] = desk[e]
  BY <1>1, DecisionTypes DEF ApplyFacts, DeskRows
<1>4. DeskFits(desk[d])'
  BY <1>1, <1>2, <1>3 DEF DeskFits, DeskRows
<1>5. \A e \in Desks : DeskFits(desk[e])'
  BY <1>2, <1>3, <1>4, OtherDesksFit DEF ProposalsKept
<1>6. facts' \in 0..Len(proposals)
  BY <1>1, <1>2, DecisionTypes
<1>7. DecisionsHold'
  BY <1>1, <1>2, <1>6 DEF DecisionsInv, DecisionsHold, AdministrationTypeOK, TwoPeopleSetTheFacts,
     ClearedPeopleSetTheFacts, EligibleWasReviewed, OwnerKept
<1> QED
  BY <1>2, <1>3, <1>5, <1>7, DecisionTypes DEF DecisionsInv

\* A decision stamps the proposal; its maker stays.
LEMMA DecideKeepsInv ==
    ASSUME DecisionsInv, Clears, NEW d \in Desks, DecideWrites(d)
    PROVE  DecisionsInv'
<1> DEFINE n == desk[d].n
           s == IF desk[d].pc = "approved" THEN "approved" ELSE "rejected"
<1>1. n \in DOMAIN proposals /\ desk[d].who \in Staff /\ proposals[n] \in ProposalRows
  BY DecisionTypes DEF DecideWrites, DeskFits, DeskRows
<1>2. /\ UNCHANGED <<admins, opsRole, facts, ownNumber, checkedBy, org, seat, business, vetted, decisions>>
      /\ proposals' = [proposals EXCEPT ![n].decidedBy = desk[d].who, ![n].status = s] /\ cleared' = cleared
  BY DecisionTypes DEF DecideWrites, Closes, roleVars, orgVars, businessVars, Clears
<1>3. s \in {"approved", "rejected"}
  OBVIOUS
<1>4. DOMAIN proposals = 1..Len(proposals) /\ Len(proposals) \in Nat
  BY DecisionTypes
<1> HIDE DEF n, s
<1>5. /\ proposals' \in Seq(ProposalRows) /\ DOMAIN proposals' = DOMAIN proposals /\ Len(proposals') = Len(proposals)
      /\ \A m \in DOMAIN proposals : proposals'[m].by = proposals[m].by
  <2> DEFINE new == [proposals[n] EXCEPT !.decidedBy = desk[d].who, !.status = s]
  <2>1. new \in ProposalRows /\ new.by = proposals[n].by
    BY <1>1, <1>3 DEF ProposalRows
  <2>2. proposals' = [proposals EXCEPT ![n] = new]
    BY <1>1, <1>2, DecisionTypes DEF ProposalRows
  <2> HIDE DEF new
  <2> QED
    BY <1>1, <1>4, <2>1, <2>2, DecisionTypes
<1>6. ProposalsKept
  BY <1>2, <1>5 DEF ProposalsKept
<1>7. AdministrationTypeOK'
  <2>1. \A m \in DOMAIN proposals' : proposals'[m] \in ProposalRows
    BY <1>5
  <2> QED
    BY <1>2, <1>5, <2>1, DecisionTypes DEF AdministrationTypeOK, ProposalRows, OrgStatuses
<1>8. TwoPeopleSetTheFacts' /\ ClearedPeopleSetTheFacts'
  <2>1. facts # 0 => facts \in DOMAIN proposals
    BY <1>4, DecisionTypes
  <2> QED
    BY <1>2, <1>5, <2>1, DecisionTypes DEF TwoPeopleSetTheFacts, ClearedPeopleSetTheFacts
<1>9. EligibleWasReviewed' /\ OwnerKept'
  BY <1>2, DecisionTypes DEF EligibleWasReviewed, OwnerKept
<1>10. DecisionTables'
  BY <1>2, <1>5, <1>7, <1>8, <1>9, DecisionTypes DEF DecisionTables, DecisionsHold
<1> QED
  BY <1>6, <1>10, ClosesKeepsInv DEF DecideWrites

\* The owner's own number is nobody's decision.
LEMMA PatchKeepsInv ==
    ASSUME DecisionsInv, Clears, PatchVatNumber
    PROVE  DecisionsInv'
<1>1. /\ ownNumber' = TRUE /\ cleared' = cleared
      /\ UNCHANGED <<admins, opsRole, facts, proposals, checkedBy, org, seat, business, vetted, desk, decisions>>
  BY DecisionTypes DEF PatchVatNumber, roleVars, orgVars, businessVars, Clears
<1>2. DecisionsHold'
  BY <1>1 DEF DecisionsInv, DecisionsHold, AdministrationTypeOK, TwoPeopleSetTheFacts,
     ClearedPeopleSetTheFacts, EligibleWasReviewed, OwnerKept
<1>3. \A d \in Desks : DeskFits(desk[d])'
  BY <1>1, DecisionTypes DEF DeskFits
<1> QED
  BY <1>1, <1>2, <1>3, DecisionTypes DEF DecisionsInv

\* The business profile: only a review of an application vets it.
LEMMA BusinessKeepsInv ==
    ASSUME DecisionsInv, Clears, NEW d \in Desks, ApplyWrites(d) \/ ReviewWrites(d)
    PROVE  DecisionsInv'
<1>1. /\ UNCHANGED <<admins, opsRole, decisions, vatVars, org, seat>> /\ Closes(d)
  BY DEF ApplyWrites, ReviewWrites, Closes, roleVars, orgVars
<1>2. /\ business' \in {"none", "applied", "approved", "rejected", "suspended"} /\ vetted' \in BOOLEAN
      /\ EligibleWasReviewed'
  <2>1. CASE ApplyWrites(d)
    BY <2>1, DecisionTypes DEF ApplyWrites, businessVars, EligibleWasReviewed
  <2>2. CASE ReviewWrites(d) /\ StillThere(desk[d].to)
    <3>1. desk[d].to \in {"approve", "reject", "suspend", "reinstate"}
      BY <2>2, DecisionTypes DEF ReviewWrites, DeskFits
    <3>2. CASE desk[d].to = "approve"
      BY <2>2, <3>2, DecisionTypes DEF ReviewWrites, ReviewTo, EligibleWasReviewed
    <3>3. CASE desk[d].to = "reject"
      BY <2>2, <3>3, DecisionTypes DEF ReviewWrites, ReviewTo, EligibleWasReviewed
    <3>4. CASE desk[d].to \in {"suspend", "reinstate"}
      <4>1. vetted = TRUE
        BY <2>2, <3>4, DecisionTypes DEF StillThere, ReviewFrom, EligibleWasReviewed
      <4>2. vetted' = TRUE /\ business' \in {"approved", "suspended"}
        BY <2>2, <3>4, <4>1 DEF ReviewWrites, ReviewTo
      <4> QED
        BY <4>2 DEF EligibleWasReviewed
    <3> QED
      BY <3>1, <3>2, <3>3, <3>4
  <2>3. CASE ReviewWrites(d) /\ ~StillThere(desk[d].to)
    BY <2>3, DecisionTypes DEF ReviewWrites, businessVars, EligibleWasReviewed
  <2> QED
    BY <2>1, <2>2, <2>3
<1>3. OwnerKept'
  BY <1>1, DecisionTypes DEF OwnerKept
<1>4. ProposalsKept /\ DecisionTables'
  BY <1>1, <1>2, <1>3, DecisionTypes, TablesWithSameFacts
<1> QED
  BY <1>1, <1>4, ClosesKeepsInv

\* The organisation and its seats: no write touches the owner's, or makes another.
LEMMA OrgKeepsInv ==
    ASSUME DecisionsInv, Clears, NEW d \in Desks, OrgWrites(d) \/ SeatWrites(d) \/ UnseatWrites(d)
    PROVE  DecisionsInv'
<1>1. UNCHANGED <<admins, opsRole, decisions, vatVars, business, vetted>> /\ Closes(d)
  BY DEF OrgWrites, SeatWrites, UnseatWrites, Closes, roleVars, businessVars
<1>2. desk[d] \in DeskRows /\ DeskFits(desk[d])
  BY DecisionTypes
<1>3. org' \in OrgStatuses
  BY <1>2, DecisionTypes DEF OrgWrites, SeatWrites, UnseatWrites, DeskFits
<1>4. /\ seat' \in [Staff -> AnySeat]
      /\ \A p \in Staff : \/ seat'[p] = seat[p]
                          \/ p # Founder /\ seat'[p] # "owner"
  <2>1. CASE OrgWrites(d)
    BY <2>1, DecisionTypes DEF OrgWrites
  <2>2. CASE SeatWrites(d)
    <3>1. desk[d].on \in Staff \ {Founder} /\ desk[d].to \in {"admin", "approver"}
      BY <1>2, <2>2 DEF SeatWrites, DeskFits, DeskRows
    <3> QED
      BY <2>2, <3>1, DecisionTypes DEF SeatWrites, AnySeat
  <2>3. CASE UnseatWrites(d)
    <3>1. desk[d].on \in Staff \ {Founder}
      BY <1>2, <2>3 DEF UnseatWrites, DeskFits, DeskRows
    <3> QED
      BY <2>3, <3>1, DecisionTypes DEF UnseatWrites, AnySeat, FreeSeats
  <2> QED
    BY <2>1, <2>2, <2>3
<1>5. OwnerKept'
  <2>1. \A p \in Staff : seat[p] = "owner" <=> p = Founder
    BY AdministrationAssumption, DecisionTypes DEF OwnerKept
  <2>2. \A p \in Staff : seat'[p] = "owner" <=> p = Founder
    BY <1>4, <2>1
  <2> QED
    BY <2>2, AdministrationAssumption DEF OwnerKept
<1>6. EligibleWasReviewed'
  BY <1>1, DecisionTypes DEF EligibleWasReviewed
<1>7. ProposalsKept /\ DecisionTables'
  BY <1>1, <1>3, <1>4, <1>5, <1>6, DecisionTypes, TablesWithSameFacts
<1> QED
  BY <1>1, <1>7, ClosesKeepsInv

\* For any staff and any number of requests under way: the proposal of VAT facts
\* that was last applied was made by one cleared person and applied on the approval
\* of another, a store is eligible only after a review of its last application,
\* and the organisation keeps its one owner.  Of the facts the row holds it says
\* no more: the owner's PATCH writes the number alone (TaxFactsNeedTwoPeople), and a
\* late rejection leaves applied facts without an approval on record (FactsOnRecord);
\* these two do not hold.
THEOREM DecisionsHoldAlways == AdministrationSpec => []DecisionsHold
<1>1. AdministrationInit => DecisionsInv
  <2> SUFFICES ASSUME AdministrationInit PROVE DecisionsInv
    OBVIOUS
  <2> USE AdministrationAssumption
  <2>1. NoDesk \in DeskRows /\ DeskFits(NoDesk)
    BY DEF NoDesk, DeskRows, AnySeat, DeskFits
  <2>2. proposals \in Seq(ProposalRows) /\ Len(proposals) = 0 /\ DOMAIN proposals = {}
    BY DEF AdministrationInit
  <2>3. seat \in [Staff -> AnySeat] /\ OwnerKept
    BY DEF AdministrationInit, AnySeat, OwnerKept
  <2>4. DecisionsHold
    <3>1. facts \in 0..Len(proposals) /\ decisions \in 0..MaxDecisions
      BY <2>2 DEF AdministrationInit
    <3>2. AdministrationTypeOK
      BY <2>2, <2>3, <3>1 DEF AdministrationInit, AdministrationTypeOK
    <3>3. TwoPeopleSetTheFacts /\ ClearedPeopleSetTheFacts /\ EligibleWasReviewed
      BY <2>2 DEF AdministrationInit, TwoPeopleSetTheFacts, ClearedPeopleSetTheFacts, EligibleWasReviewed
    <3> QED
      BY <2>3, <3>2, <3>3 DEF DecisionsHold
  <2> QED
    BY <2>1, <2>2, <2>4 DEF AdministrationInit, DecisionsInv
<1>2. DecisionsInv /\ [AdministrationNext]_adminVars => DecisionsInv'
  <2> SUFFICES ASSUME DecisionsInv, [AdministrationNext]_adminVars PROVE DecisionsInv'
    OBVIOUS
  <2>1. CASE AdministrationNext
    <3>1. Clears
      BY <2>1 DEF AdministrationNext, Clears
    <3> QED
      BY <2>1, <3>1, DeskLoadsKeepInv, RolesKeepInv, ProposeKeepsInv, ApplyFactsKeepsInv, DecideKeepsInv,
         PatchKeepsInv, BusinessKeepsInv, OrgKeepsInv DEF AdministrationNext, AdministrationStep
  <2>2. CASE UNCHANGED adminVars
    <3>1. UNCHANGED <<admins, opsRole, facts, ownNumber, proposals, business, org, seat, desk, decisions,
                      cleared, checkedBy, vetted>>
      BY <2>2 DEF adminVars
    <3> QED
      BY <3>1 DEF DecisionsInv, DecisionsHold, AdministrationTypeOK, TwoPeopleSetTheFacts,
         ClearedPeopleSetTheFacts, EligibleWasReviewed, OwnerKept, DeskFits
  <2> QED
    BY <2>1, <2>2
<1>3. DecisionsInv => DecisionsHold
  BY DEF DecisionsInv
<1> QED
  BY <1>1, <1>2, <1>3, PTL DEF AdministrationSpec

-----------------------------------------------------------------------------
(***************************************************************************)
(* A storefront: what is public and what is ordered, for any number of     *)
(* requests under way.                                                     *)
(***************************************************************************)

\* A step of the shop keeps the rows in their types.
LEMMA ShopStepKeepsTypes ==
    ASSUME OffersInv, ShopNext
    PROVE  /\ ShopTypeOK'
           /\ store' \in [status : StoreStatuses, plan : {"starter", "pro"}, type : {"none", "api"},
                          link : {"connected", "disconnected", "error"}, secret : BOOLEAN]
           /\ job' \in [Handlers -> [pc : {"idle", "patch", "submit", "connect", "webhook"}, status : StoreStatuses]]
<1> DEFINE Stores == [status : StoreStatuses, plan : {"starter", "pro"}, type : {"none", "api"},
                      link : {"connected", "disconnected", "error"}, secret : BOOLEAN]
           Jobs == [pc : {"idle", "patch", "submit", "connect", "webhook"}, status : StoreStatuses]
           Orders == [pc : {"no", "checking", "checked", "ordered"}, product : BOOLEAN,
                      body : {"none", "this", "other"}, store : {"none", "this", "other"}]
<1> USE StorefrontAssumption
<1>1. /\ store \in Stores /\ job \in [Handlers -> Jobs] /\ shop \in 0..MaxShop
      /\ product \in [exists : BOOLEAN, available : BOOLEAN, stock : BOOLEAN]
      /\ buying \in Orders
  BY DEF OffersInv, OffersHold, ShopTypeOK
<1>2. NoJob \in Jobs /\ store.status \in StoreStatuses
  BY <1>1 DEF NoJob, StoreStatuses
<1>3. \A h \in Handlers, pc \in {"patch", "submit", "connect", "webhook"} :
         StartsJob(h, pc) => job' \in [Handlers -> Jobs] /\ shop' \in 0..MaxShop
  BY <1>1, <1>2 DEF StartsJob
<1>4. \A h \in Handlers : EndsJob(h) => job' \in [Handlers -> Jobs] /\ shop' \in 0..MaxShop
  BY <1>1, <1>2 DEF EndsJob
<1> DEFINE Good == /\ store' \in Stores /\ job' \in [Handlers -> Jobs] /\ shop' \in 0..MaxShop
                   /\ product' \in [exists : BOOLEAN, available : BOOLEAN, stock : BOOLEAN]
                   /\ buying' \in Orders
<1>5. ASSUME NEW h \in Handlers,
             PatchLoads(h) \/ SubmitLoads(h) \/ ConnectChecks(h) \/ WebhookLoads(h)
      PROVE  Good
  BY <1>1, <1>3, <1>5 DEF PatchLoads, SubmitLoads, ConnectChecks, WebhookLoads
<1>6. ASSUME NEW h \in Handlers, PatchWrites(h) PROVE Good
  <2>1. PatchedStatus(job[h].status) \in StoreStatuses
    BY <1>2 DEF PatchedStatus, StoreStatuses
  <2> QED
    BY <1>1, <1>4, <1>6, <2>1 DEF PatchWrites
<1>7. ASSUME NEW h \in Handlers, SubmitWrites(h) \/ ConnectWrites(h) \/ WebhookFails(h) PROVE Good
  BY <1>1, <1>4, <1>7 DEF SubmitWrites, ConnectWrites, WebhookFails, Linked, StoreStatuses
<1>8. ASSUME NEW s \in StoreStatuses, DecideStore(s) PROVE Good
  BY <1>1, <1>8 DEF DecideStore
<1>9. ASSUME NEW plan \in {"starter", "pro"}, SetPlan(plan) PROVE Good
  BY <1>1, <1>9 DEF SetPlan
<1>10. ASSUME Disconnect PROVE Good
  <2>1. shop' \in 0..MaxShop
    BY <1>1, <1>10 DEF Disconnect
  <2>2. store' \in Stores
    BY <1>1, <1>10 DEF Disconnect, Linked
  <2> QED
    BY <1>1, <1>10, <2>1, <2>2 DEF Disconnect
<1>11. ASSUME EditProduct PROVE Good
  <2>1. shop' \in 0..MaxShop
    BY <1>1, <1>11 DEF EditProduct
  <2>2. product' \in [exists : BOOLEAN, available : BOOLEAN, stock : BOOLEAN]
    <3>1. CASE CreateProduct
      <4>1. PICK stock \in BOOLEAN : product' = [exists |-> TRUE, available |-> TRUE, stock |-> stock]
        BY <3>1, Zenon DEF CreateProduct
      <4> QED
        BY <4>1
    <3>2. CASE UpdateProduct
      BY <1>1, <3>2 DEF UpdateProduct
    <3>3. CASE RemoveProduct
      BY <3>3, Zenon DEF RemoveProduct
    <3> QED
      BY <1>11, <3>1, <3>2, <3>3 DEF EditProduct
  <2> QED
    BY <1>1, <1>11, <2>1, <2>2 DEF EditProduct
<1>12. ASSUME BuyStarts \/ BuyChecks \/ BuyOrders \/ BuyEnds PROVE Good
  <2>1. NoOrder \in Orders /\ OrderedFrom \in {"none", "this", "other"}
    BY <1>1 DEF NoOrder, OrderedFrom
  <2>2. buying' \in Orders
    <3>1. CASE BuyStarts
      BY <2>1, <3>1 DEF BuyStarts
    <3>2. CASE BuyChecks
      BY <1>1, <2>1, <3>2 DEF BuyChecks
    <3>3. CASE BuyOrders
      BY <1>1, <2>1, <3>3 DEF BuyOrders
    <3>4. CASE BuyEnds
      BY <2>1, <3>4 DEF BuyEnds
    <3> QED
      BY <1>12, <3>1, <3>2, <3>3, <3>4
  <2>3. shop' \in 0..MaxShop /\ UNCHANGED <<store, product, job>>
    <3>1. UNCHANGED <<store, product, job>>
      BY <1>12 DEF BuyStarts, BuyChecks, BuyOrders, BuyEnds
    <3>2. shop' = shop \/ (shop < MaxShop /\ shop' = shop + 1)
      BY <1>12 DEF BuyStarts, BuyChecks, BuyOrders, BuyEnds
    <3> QED
      BY <1>1, <3>1, <3>2
  <2> QED
    BY <1>1, <2>2, <2>3
<1>13. Good
  BY <1>5, <1>6, <1>7, <1>8, <1>9, <1>10, <1>11, <1>12 DEF ShopNext, ShopStep
<1> QED
  BY <1>13 DEF ShopTypeOK

\* Only a decision of the operators makes a store public again.
LEMMA ShopStepKeepsHidden ==
    ASSUME OffersInv, ShopNext
    PROVE  HiddenUntilDecided'
<1> USE DEF HiddenUntilDecided, PublicStatuses
<1>1. HiddenUntilDecided /\ store \in [status : StoreStatuses, plan : {"starter", "pro"}, type : {"none", "api"},
                                       link : {"connected", "disconnected", "error"}, secret : BOOLEAN]
  BY DEF OffersInv, OffersHold
<1>2. CASE UNCHANGED <<store.status, decision>>
  BY <1>1, <1>2
<1>3. ASSUME NEW h \in Handlers, PatchWrites(h) \/ SubmitWrites(h) PROVE HiddenUntilDecided'
  BY <1>1, <1>3 DEF PatchWrites, SubmitWrites, PatchedStatus
<1>4. ASSUME NEW s \in StoreStatuses, DecideStore(s) PROVE HiddenUntilDecided'
  BY <1>1, <1>4 DEF DecideStore
<1>5. ASSUME NEW h \in Handlers,
             \/ PatchLoads(h) \/ SubmitLoads(h) \/ ConnectChecks(h) \/ WebhookLoads(h)
             \/ ConnectWrites(h) \/ WebhookFails(h)
      PROVE  UNCHANGED <<store.status, decision>>
  BY <1>1, <1>5 DEF PatchLoads, SubmitLoads, ConnectChecks, WebhookLoads, ConnectWrites, WebhookFails, Linked
<1>6. ASSUME \/ \E plan \in {"starter", "pro"} : SetPlan(plan)
             \/ Disconnect \/ EditProduct \/ BuyStarts \/ BuyChecks \/ BuyOrders \/ BuyEnds
      PROVE  UNCHANGED <<store.status, decision>>
  BY <1>1, <1>6 DEF SetPlan, Disconnect, Linked, EditProduct, BuyStarts, BuyChecks, BuyOrders, BuyEnds
<1> QED
  BY <1>2, <1>3, <1>4, <1>5, <1>6 DEF ShopNext, ShopStep

\* A purchase that names the product gets past its check only while it is on
\* offer.
LEMMA ShopStepKeepsOffered ==
    ASSUME OffersInv, ShopNext
    PROVE  buying'.pc \in {"checked", "ordered"} /\ buying'.product => "offer" \in met'
<1>1. /\ buying.pc \in {"checked", "ordered"} /\ buying.product => "offer" \in met
      /\ buying \in [pc : {"no", "checking", "checked", "ordered"}, product : BOOLEAN,
                    body : {"none", "this", "other"}, store : {"none", "this", "other"}]
  BY DEF OffersInv, OffersHold, ShopTypeOK
<1>2. buying'.pc \in {"checked", "ordered"} /\ buying'.product =>
          OnOffer \/ (buying.pc \in {"checked", "ordered"} /\ buying.product)
  <2>1. CASE BuyStarts \/ BuyEnds
    <3>1. ASSUME BuyStarts PROVE buying'.pc = "checking"
      <4>1. PICK named \in BOOLEAN, body \in {"none", "this", "other"} :
                buying' = [NoOrder EXCEPT !.pc = "checking", !.product = named, !.body = body]
        BY <3>1 DEF BuyStarts
      <4> QED
        BY <4>1 DEF NoOrder
    <3>2. ASSUME BuyEnds PROVE buying'.pc = "no"
      BY <3>2 DEF BuyEnds, NoOrder
    <3> QED
      BY <2>1, <3>1, <3>2
  <2>2. CASE BuyChecks
    BY <1>1, <2>2 DEF BuyChecks, Availability, OnOffer, InMarket, PublicStatuses, NoOrder
  <2>3. CASE BuyOrders
    BY <1>1, <2>3 DEF BuyOrders
  <2>4. CASE ~(BuyStarts \/ BuyChecks \/ BuyOrders \/ BuyEnds)
    <3>1. buying' = buying
      BY <2>4 DEF ShopNext, ShopStep, PatchLoads, SubmitLoads, ConnectChecks, WebhookLoads, PatchWrites,
                  SubmitWrites, ConnectWrites, WebhookFails, DecideStore, SetPlan, Disconnect, EditProduct
    <3> QED
      BY <3>1
  <2> QED
    BY <2>1, <2>2, <2>3, <2>4
<1>3. OnOffer => "offer" \in Meets
  BY DEF Meets
<1>4. buying'.pc # "no" => met' = met \cup Meets
  BY DEF ShopNext
<1> QED
  BY <1>1, <1>2, <1>3, <1>4

\* A store that operators have hidden is not public until they show it, and an
\* order that names a product met it on offer: for every number of requests of
\* the merchant, the operators and the buyer, in any order.  Which store an
\* order is linked to is the body's word.
THEOREM OffersHoldAlways == ShopSpec => []OffersHold
<1>1. ShopInit => OffersInv
  BY StorefrontAssumption DEF ShopInit, OffersInv, OffersHold, ShopTypeOK, HiddenUntilDecided,
     OrderedWasOffered, NoJob, NoOrder, StoreStatuses, PublicStatuses
<1>2. OffersInv /\ [ShopNext]_shopVars => OffersInv'
  <2> SUFFICES ASSUME OffersInv, [ShopNext]_shopVars PROVE OffersInv'
    OBVIOUS
  <2>1. CASE ShopNext
    BY <2>1, ShopStepKeepsTypes, ShopStepKeepsHidden, ShopStepKeepsOffered
       DEF OffersInv, OffersHold, OrderedWasOffered
  <2>2. CASE UNCHANGED shopVars
    BY <2>2 DEF shopVars, OffersInv, OffersHold, ShopTypeOK, HiddenUntilDecided, OrderedWasOffered
  <2> QED
    BY <2>1, <2>2
<1>3. OffersInv => OffersHold
  BY DEF OffersInv
<1> QED
  BY <1>1, <1>2, <1>3, PTL DEF ShopSpec

-----------------------------------------------------------------------------
(***************************************************************************)
(* What people read of each other, for any people and any changes of the   *)
(* graph between the queries of a read.                                    *)
(***************************************************************************)

Histories == [barred : SUBSET People, secret : SUBSET People, out : SUBSET People, in : SUBSET People]

ToldFacts == Flags \cup Kinds \cup Tiers \cup {"identity", "bio"}

\* From one moment of a read to the next what held throughout only shrinks,
\* and what held at some time only grows.
HistoryNarrows ==
    /\ during'.barred \subseteq during.barred /\ during'.secret \subseteq during.secret
    /\ during.out \subseteq during'.out /\ during.in \subseteq during'.in

\* The history is kept as it should be by every step within a read.
LEMMA HistoryMoves ==
    ASSUME PrivacyInv, during' = Observed, look'.pc # "idle", private' \subseteq People
    PROVE  /\ during' \in Histories /\ HistoryBounds'
           /\ look.pc # "idle" /\ look'.viewer = look.viewer => HistoryNarrows
<1> DEFINE v == look'.viewer
           barred == {p \in People : <<v, p>> \in blocks' \/ <<p, v>> \in blocks'}
           out == {p \in People \ {v} : follow'[<<v, p>>] = "accepted"}
           in == {p \in People \ {v} : follow'[<<p, v>>] = "accepted"}
           fresh == [barred |-> barred, secret |-> private', out |-> out, in |-> in]
           next == [barred |-> during.barred \cap barred, secret |-> during.secret \cap private',
                    out |-> during.out \cup out, in |-> during.in \cup in]
<1>1. during \in Histories
  BY DEF PrivacyInv, SocialRows, Histories
<1>2. during' = IF look.pc = "idle" THEN fresh ELSE next
  BY DEF Observed
<1>3. (Excluded(look.viewer))' = barred
  BY DEF Excluded
<1>4. /\ \A p \in People \ {v} : Accepted(look.viewer, p)' => p \in out
      /\ \A p \in People \ {v} : Accepted(p, look.viewer)' => p \in in
  BY DEF Accepted
<1>5. barred \in SUBSET People /\ out \in SUBSET People /\ in \in SUBSET People
  OBVIOUS
<1> HIDE DEF barred, out, in
<1>6. CASE look.pc = "idle"
  <2>1. during' = fresh
    BY <1>2, <1>6
  <2>2. during' \in Histories
    BY <1>5, <2>1 DEF Histories
  <2>3. HistoryBounds'
    BY <1>3, <1>4, <2>1 DEF HistoryBounds
  <2> QED
    BY <1>6, <2>2, <2>3
<1>7. CASE look.pc # "idle"
  <2>1. during' = next
    BY <1>2, <1>7
  <2>2. during' \in Histories
    BY <1>1, <1>5, <2>1 DEF Histories
  <2>3. HistoryBounds'
    BY <1>3, <1>4, <2>1 DEF HistoryBounds
  <2>4. HistoryNarrows
    BY <2>1 DEF HistoryNarrows
  <2> QED
    BY <2>2, <2>3, <2>4
<1> QED
  BY <1>6, <1>7

\* The types of the graph.
LEMMA SocialTypes ==
    ASSUME PrivacyInv
    PROVE  /\ follow \in [People \X People -> {"none", "pending", "accepted"}]
           /\ blocks \subseteq People \X People /\ private \subseteq People /\ gone \subseteq People
           /\ hidden \subseteq People \X Flags /\ edits \in 0..MaxEdits
           /\ asking = NoPerson \/ asking \in [a : People, b : People, status : {"pending", "accepted"}]
           /\ look \in LookRows /\ during \in Histories /\ ReadFits /\ HistoryBounds
           /\ BlockHides /\ PrivateHides /\ TierKept
  BY DEF PrivacyInv, ReadsKeepPrivacy, SocialTypeOK, SocialRows, Histories

\* A change of the graph leaves the read where it is, with what it knows.
LEMMA GraphChangeKeepsInv ==
    ASSUME PrivacyInv, during' = Observed, UNCHANGED look,
           follow' \in [People \X People -> {"none", "pending", "accepted"}],
           blocks' \subseteq People \X People, private' \subseteq People, gone' \subseteq People,
           hidden' \subseteq People \X Flags, edits' \in 0..MaxEdits,
           asking' = NoPerson \/ asking' \in [a : People, b : People, status : {"pending", "accepted"}]
    PROVE  PrivacyInv'
<1>1. SocialTypeOK'
  BY DEF PrivacyInv, ReadsKeepPrivacy, SocialTypeOK
<1>2. CASE look.pc = "idle"
  <2>1. during' = NoHistory /\ look' = look /\ NoHistory \in Histories
    BY <1>2 DEF Observed, NoHistory, Histories
  <2>2. ReadFits' /\ HistoryBounds' /\ BlockHides' /\ PrivateHides' /\ TierKept'
    BY <1>2, <2>1 DEF ReadFits, HistoryBounds, BlockHides, PrivateHides, TierKept
  <2> QED
    BY <1>1, <2>1, <2>2, SocialTypes DEF PrivacyInv, ReadsKeepPrivacy, SocialRows, Histories
<1>3. CASE look.pc # "idle"
  <2>1. during' \in Histories /\ HistoryBounds' /\ HistoryNarrows
    BY <1>3, HistoryMoves
  <2>2. look' = look
    OBVIOUS
  <2>3. ReadFits'
    BY <2>1, <2>2, SocialTypes DEF ReadFits, HistoryNarrows
  <2>4. BlockHides' /\ PrivateHides' /\ TierKept'
    <3>1. BlockHides'
      BY <2>1, <2>2, SocialTypes DEF BlockHides, Told, HistoryNarrows
    <3>2. PrivateHides'
      BY <2>1, <2>2, SocialTypes DEF PrivateHides, HistoryNarrows
    <3>3. TierKept'
      BY <2>1, <2>2, SocialTypes DEF TierKept, HistoryNarrows
    <3> QED
      BY <3>1, <3>2, <3>3
  <2> QED
    BY <1>1, <2>1, <2>2, <2>3, <2>4, SocialTypes DEF PrivacyInv, ReadsKeepPrivacy, SocialRows, Histories
<1> QED
  BY <1>2, <1>3

\* Every change of the graph.
LEMMA EditsKeepInv ==
    ASSUME PrivacyInv, during' = Observed,
           \/ \E a, b \in People : FollowLoad(a, b) \/ Unfollow(a, b) \/ Block(a, b) \/ Unblock(a, b)
           \/ Follow
           \/ \E p \in People : UpdateVisibility(p) \/ SetDeleted(p)
           \/ \E p \in People, f \in Flags : UpdateFlag(p, f)
    PROVE  PrivacyInv'
<1> DEFINE Statuses == {"none", "pending", "accepted"}
           Good == /\ UNCHANGED look /\ follow' \in [People \X People -> Statuses]
                   /\ blocks' \subseteq People \X People /\ private' \subseteq People /\ gone' \subseteq People
                   /\ hidden' \subseteq People \X Flags /\ edits' \in 0..MaxEdits
                   /\ asking' = NoPerson \/ asking' \in [a : People, b : People, status : {"pending", "accepted"}]
<1> SUFFICES Good
  BY GraphChangeKeepsInv
<1>1. Edited => edits' \in 0..MaxEdits
  BY SocialAssumption, SocialTypes DEF Edited
<1>2. ASSUME NEW a \in People, NEW b \in People, FollowLoad(a, b) PROVE Good
  BY <1>1, <1>2, SocialTypes DEF FollowLoad
<1>3. ASSUME NEW a \in People, NEW b \in People, Unfollow(a, b) \/ Block(a, b) \/ Unblock(a, b) PROVE Good
  BY <1>1, <1>3, SocialTypes DEF Unfollow, Block, Unblock
<1>4. ASSUME Follow PROVE Good
  <2>1. asking \in [a : People, b : People, status : {"pending", "accepted"}]
    BY <1>4, SocialTypes DEF Follow
  <2>2. Upserted(asking) \in [People \X People -> Statuses]
    BY <2>1, SocialTypes DEF Upserted
  <2> QED
    BY <1>4, <2>2, SocialTypes DEF Follow
<1>5. ASSUME NEW p \in People, UpdateVisibility(p) \/ SetDeleted(p) PROVE Good
  BY <1>1, <1>5, SocialTypes DEF UpdateVisibility, SetDeleted
<1>6. ASSUME NEW p \in People, NEW f \in Flags, UpdateFlag(p, f) PROVE Good
  BY <1>1, <1>6, SocialTypes DEF UpdateFlag
<1> QED
  BY <1>2, <1>3, <1>4, <1>5, <1>6

\* A query moves the read along: the graph stays, and what the read knows at
\* the new step is all there is to show.
LEMMA QueryKeepsInv ==
    ASSUME PrivacyInv, during' = Observed, UNCHANGED <<graphVars, asking>>,
           look' \in LookRows, look'.pc \notin {"idle", "answered"}, ReadFits'
    PROVE  PrivacyInv'
<1>1. UNCHANGED <<follow, blocks, private, hidden, gone, edits, asking>>
  BY DEF graphVars
<1>2. during' \in Histories /\ HistoryBounds'
  BY <1>1, HistoryMoves, SocialTypes
<1>3. look'.answer \in SUBSET (People \X ToldFacts)
  BY DEF LookRows, ToldFacts
<1>4. SocialTypeOK'
  BY <1>1, <1>3, SocialTypes DEF SocialTypeOK, ToldFacts
<1>5. BlockHides' /\ PrivateHides' /\ TierKept'
  BY DEF BlockHides, PrivateHides, TierKept
<1> QED
  BY <1>1, <1>2, <1>4, <1>5, SocialTypes DEF PrivacyInv, ReadsKeepPrivacy, SocialRows, Histories

\* What a query sees of the graph is within the history it leaves.
LEMMA QueryHistory ==
    ASSUME PrivacyInv, during' = Observed, UNCHANGED graphVars,
           look.pc # "idle", look'.pc # "idle", look'.viewer = look.viewer
    PROVE  /\ HistoryNarrows /\ during' \in Histories
           /\ during'.barred \subseteq Excluded(look.viewer) /\ during'.secret \subseteq private
           /\ \A p \in People \ {look.viewer} : /\ Accepted(look.viewer, p) => p \in during'.out
                                                /\ Accepted(p, look.viewer) => p \in during'.in
<1>1. UNCHANGED <<follow, blocks, private, hidden, gone, edits>>
  BY DEF graphVars
<1>2. during' \in Histories /\ HistoryBounds' /\ HistoryNarrows
  BY <1>1, HistoryMoves, SocialTypes
<1> QED
  BY <1>1, <1>2 DEF HistoryBounds, Excluded, Accepted

\* An answer is given: what it tells respects the history.
LEMMA AnswerKeepsInv ==
    ASSUME PrivacyInv, during' = Observed, UNCHANGED <<graphVars, asking>>,
           look.pc # "idle",
           NEW told \in SUBSET (People \X ToldFacts), Answer(told),
           look.kind \notin UncheckedKinds =>
               \A q \in told : q[1] = look.target \/ look.kind \notin {"received", "sent"}
                                  => q[1] \notin during'.barred,
           look.target \in during'.secret =>
               \A q \in told : q[1] = look.target /\ look.kind \notin {"wall", "post", "party", "occasions", "upcoming"}
                                  => q[2] \in {"identity", "username", "check"},
           \A q \in told : /\ q[2] = "followers" /\ look.kind \in {"occasions", "upcoming"} => q[1] \in during'.out
                           /\ q[2] = "mutual" => q[1] \in during'.out \cap during'.in
    PROVE  PrivacyInv'
<1>1. UNCHANGED <<follow, blocks, private, hidden, gone, edits, asking>>
  BY DEF graphVars
<1>2. look \in LookRows
  BY SocialTypes
<1>3. /\ look' \in LookRows /\ look'.pc = "answered" /\ look'.answer = told /\ look'.viewer = look.viewer
      /\ look'.target = look.target /\ look'.kind = look.kind
  BY <1>2 DEF Answer, LookRows, ToldFacts
<1>4. during' \in Histories /\ HistoryBounds'
  BY <1>1, <1>3, HistoryMoves, SocialTypes
<1>5. SocialTypeOK'
  BY <1>1, <1>3, SocialTypes DEF SocialTypeOK, ToldFacts
<1>6. BlockHides'
  BY <1>3 DEF BlockHides, Told
<1>7. PrivateHides'
  BY <1>3 DEF PrivateHides
<1>8. TierKept'
  BY <1>3 DEF TierKept
<1>9. ReadFits'
  BY <1>3, SocialTypes DEF ReadFits
<1> QED
  BY <1>1, <1>3, <1>4, <1>5, <1>6, <1>7, <1>8, <1>9, SocialTypes
     DEF PrivacyInv, ReadsKeepPrivacy, SocialRows, Histories

\* A refusal tells nothing.
LEMMA RefusalKeepsInv ==
    ASSUME PrivacyInv, during' = Observed, UNCHANGED <<graphVars, asking>>, look.pc # "idle", Refuse
    PROVE  PrivacyInv'
  BY AnswerKeepsInv DEF Refuse

\* A read begins, or its answer has been taken.
LEMMA BeginKeepsInv ==
    ASSUME PrivacyInv, during' = Observed,
           \/ \E v, t \in People, kind \in Kinds : Begin(v, t, kind)
           \/ Close
    PROVE  PrivacyInv'
<1>1. ASSUME NEW v \in People, NEW t \in People, NEW kind \in Kinds, Begin(v, t, kind) PROVE PrivacyInv'
  <2> DEFINE pc == CASE kind = "profile" -> "user"
                     [] kind \in {"username", "contact"} -> "exclusions"
                     [] kind \in {"occasions", "upcoming"} -> "context"
                     [] kind \in UncheckedKinds -> "open"
                     [] OTHER -> "gate"
  <2>1. /\ pc \in {"user", "exclusions", "context", "open", "gate"}
        /\ pc = "open" => kind \in UncheckedKinds
        /\ pc = "user" => kind = "profile"
        /\ pc = "exclusions" => kind \in {"username", "contact"}
        /\ pc = "context" => kind \in {"occasions", "upcoming"}
        /\ pc = "gate" => kind \in ListKinds \cup {"wall", "post"}
    BY DEF Kinds, ListKinds, UncheckedKinds
  <2>2. look' = [NoLook EXCEPT !.kind = kind, !.viewer = v, !.target = t, !.pc = pc] /\ v # t
    BY <1>1 DEF Begin
  <2> HIDE DEF pc
  <2>3. look' \in LookRows /\ look'.pc = pc /\ look'.kind = kind /\ look'.viewer = v /\ look'.target = t
    BY <2>1, <2>2 DEF NoLook, LookRows
  <2>4. ReadFits'
    BY <2>1, <2>2, <2>3 DEF ReadFits
  <2> QED
    BY <1>1, <2>1, <2>3, <2>4, QueryKeepsInv DEF Begin
<1>2. ASSUME Close PROVE PrivacyInv'
  <2>1. UNCHANGED <<follow, blocks, private, hidden, gone, edits, asking>> /\ look' = NoLook
    BY <1>2 DEF Close, graphVars
  <2>2. during' = NoHistory /\ NoHistory \in Histories
    BY <2>1 DEF Observed, NoLook, NoHistory, Histories
  <2>3. look' \in LookRows
    BY <2>1 DEF NoLook, LookRows, Kinds
  <2>4. SocialTypeOK'
    BY <2>1, SocialTypes DEF SocialTypeOK, NoLook
  <2>5. ReadFits' /\ HistoryBounds' /\ BlockHides' /\ PrivateHides' /\ TierKept'
    BY <2>1 DEF NoLook, ReadFits, HistoryBounds, BlockHides, PrivateHides, TierKept
  <2> QED
    BY <2>1, <2>2, <2>3, <2>4, <2>5, SocialTypes DEF PrivacyInv, ReadsKeepPrivacy, SocialRows, Histories
<1> QED
  BY <1>1, <1>2

\* A read of one person's lists, wishes, wall or post: the block check, the
\* flags, the rows and the viewer's exclusions.
LEMMA ListsKeepInv ==
    ASSUME PrivacyInv, during' = Observed, Gate \/ Target \/ Rows \/ Filter
    PROVE  PrivacyInv'
<1>1. look \in LookRows /\ ReadFits /\ UNCHANGED graphVars /\ UNCHANGED asking
  BY SocialTypes DEF Gate, Target, Rows, Filter
<1> DEFINE QueryFacts ==
               /\ HistoryNarrows /\ during' \in Histories
               /\ during'.barred \subseteq Excluded(look.viewer) /\ during'.secret \subseteq private
<1>2. ASSUME Gate PROVE PrivacyInv'
  <2>1. CASE BlockedEitherWay(look.viewer, look.target)
    BY <1>1, <1>2, <2>1, RefusalKeepsInv DEF Gate
  <2>2. CASE ~BlockedEitherWay(look.viewer, look.target)
    <3> DEFINE pc == IF look.kind \in {"wall", "post"} THEN "rows" ELSE "target"
    <3>1. look' = [look EXCEPT !.pc = pc] /\ pc \in {"rows", "target"}
      BY <1>2, <2>2 DEF Gate, Go
    <3>2. /\ look' \in LookRows /\ look'.pc = pc /\ look'.viewer = look.viewer
          /\ look'.target = look.target /\ look'.kind = look.kind
      BY <1>1, <3>1 DEF LookRows
    <3>3. QueryFacts
      BY <1>1, <1>2, <3>1, <3>2, QueryHistory DEF Gate
    <3>4. look.target \notin during'.barred
      BY <2>2, <3>3 DEF BlockedEitherWay, Excluded
    <3>5. ReadFits'
      BY <1>1, <1>2, <3>1, <3>2, <3>4 DEF ReadFits, Gate
    <3> QED
      BY <1>1, <3>1, <3>2, <3>5, QueryKeepsInv
  <2> QED
    BY <2>1, <2>2
<1>3. ASSUME Target PROVE PrivacyInv'
  <2>1. CASE ~(look.target \notin gone /\ Shown(look.target, look.kind))
    BY <1>1, <1>3, <2>1, RefusalKeepsInv DEF Target
  <2>2. CASE look.target \notin gone /\ Shown(look.target, look.kind)
    <3>1. look' = [look EXCEPT !.pc = "rows"]
      BY <1>3, <2>2 DEF Target, Go
    <3>2. /\ look' \in LookRows /\ look'.pc = "rows" /\ look'.viewer = look.viewer
          /\ look'.target = look.target /\ look'.kind = look.kind
      BY <1>1, <3>1 DEF LookRows
    <3>3. QueryFacts
      BY <1>1, <1>3, <3>1, <3>2, QueryHistory DEF Target
    <3>4. look.target \notin during'.secret /\ look.target \notin during'.barred
      BY <1>1, <1>3, <2>2, <3>3 DEF Shown, ReadFits, Target, HistoryNarrows
    <3>5. ReadFits'
      BY <1>1, <1>3, <3>2, <3>4 DEF ReadFits, Target
    <3> QED
      BY <1>1, <3>1, <3>2, <3>5, QueryKeepsInv
  <2> QED
    BY <2>1, <2>2
<1>4. ASSUME Rows PROVE PrivacyInv'
  <2> DEFINE named == CASE look.kind = "followers" -> Followers(look.target)
                        [] look.kind = "following" -> Following(look.target)
                        [] look.kind \in {"received", "sent"} -> GiftParties(look.target)
                        [] OTHER -> {}
             told == {<<look.target, look.kind>>} \cup {<<p, "identity">> : p \in named}
  <2>1. /\ named \subseteq People
        /\ look.kind \notin {"followers", "following", "received", "sent"} => named = {}
    BY DEF Followers, Following, GiftParties
  <2>2. IF look.kind \in {"followers", "following"}
        THEN look' = [look EXCEPT !.pc = "filter", !.rows = named]
        ELSE Answer(told)
    BY <1>4 DEF Rows
  <2>3. /\ look.target \in People /\ look.target \notin during.barred /\ look.pc = "rows"
        /\ look.kind \in {"wall", "post"} \/ (look.kind \in ListKinds /\ look.target \notin during.secret)
    BY <1>1, <1>4 DEF ReadFits, Rows
  <2> HIDE DEF named
  <2>4. CASE look.kind \in {"followers", "following"}
    <3>1. look' = [look EXCEPT !.pc = "filter", !.rows = named]
      BY <2>2, <2>4
    <3>2. /\ look' \in LookRows /\ look'.pc = "filter" /\ look'.viewer = look.viewer
          /\ look'.target = look.target /\ look'.kind = look.kind /\ look'.rows = named
      BY <1>1, <2>1, <3>1 DEF LookRows
    <3>3. QueryFacts
      BY <1>1, <2>3, <3>2, QueryHistory
    <3>4. ReadFits'
      BY <1>1, <2>1, <2>3, <2>4, <3>2, <3>3 DEF ReadFits, HistoryNarrows
    <3> QED
      BY <1>1, <3>2, <3>4, QueryKeepsInv
  <2>5. CASE look.kind \notin {"followers", "following"}
    <3>1. Answer(told)
      BY <2>2, <2>5
    <3>2. told \in SUBSET (People \X ToldFacts) /\ look.kind \in Kinds
      BY <1>1, <2>1, <2>3 DEF LookRows, ToldFacts, ListKinds, Kinds
    <3>3. look'.pc = "answered" /\ look'.viewer = look.viewer
      BY <1>1, <3>1 DEF Answer, LookRows
    <3>4. QueryFacts
      BY <1>1, <2>3, <3>3, QueryHistory
    <3>5. look.target \notin during'.barred
      BY <2>3, <3>4 DEF HistoryNarrows
    <3>6. \A q \in told : q = <<look.target, look.kind>> \/ (q[1] \in named /\ q[2] = "identity")
      OBVIOUS
    <3>7. \A q \in told : q[1] = look.target \/ look.kind \notin {"received", "sent"} => q[1] \notin during'.barred
      BY <2>1, <2>5, <3>5, <3>6
    <3>8. look.target \in during'.secret => look.kind \in {"wall", "post"}
      BY <2>3, <3>4 DEF HistoryNarrows
    <3>9. \A q \in told : ~(q[2] = "followers" /\ look.kind \in {"occasions", "upcoming"}) /\ q[2] # "mutual"
      BY <2>3, <3>6 DEF ListKinds
    <3> HIDE DEF told
    <3> QED
      BY <1>1, <2>3, <3>1, <3>2, <3>7, <3>8, <3>9, AnswerKeepsInv
  <2> QED
    BY <2>4, <2>5
<1>5. ASSUME Filter PROVE PrivacyInv'
  <2> DEFINE told == {<<look.target, look.kind>>} \cup {<<p, "identity">> : p \in look.rows \ Excluded(look.viewer)}
  <2>1. Answer(told)
    BY <1>5 DEF Filter
  <2>2. /\ look.target \in People /\ look.target \notin during.barred /\ look.pc = "filter"
        /\ look.kind \in {"followers", "following"} /\ look.target \notin during.secret /\ look.rows \subseteq People
    BY <1>1, <1>5 DEF ReadFits, Filter
  <2>3. told \in SUBSET (People \X ToldFacts)
    BY <2>2 DEF ToldFacts, Kinds
  <2>4. look'.pc = "answered" /\ look'.viewer = look.viewer
    BY <1>1, <2>1 DEF Answer, LookRows
  <2>5. QueryFacts
    BY <1>1, <2>2, <2>4, QueryHistory
  <2>6. \A q \in told : \/ q = <<look.target, look.kind>>
                        \/ q[1] \notin Excluded(look.viewer) /\ q[2] = "identity"
    OBVIOUS
  <2>7. \A q \in told : q[1] \notin during'.barred
    BY <2>2, <2>5, <2>6 DEF HistoryNarrows
  <2>8. look.target \notin during'.secret
    BY <2>2, <2>5 DEF HistoryNarrows
  <2>9. \A q \in told : ~(q[2] = "followers" /\ look.kind \in {"occasions", "upcoming"}) /\ q[2] # "mutual"
    BY <2>2, <2>6
  <2> HIDE DEF told
  <2> QED
    BY <1>1, <2>1, <2>2, <2>3, <2>7, <2>8, <2>9, AnswerKeepsInv
<1> QED
  BY <1>2, <1>3, <1>4, <1>5

\* A profile: the user first, the block after it.
LEMMA ProfileKeepsInv ==
    ASSUME PrivacyInv, during' = Observed, ProfileUser \/ Profile
    PROVE  PrivacyInv'
<1>1. look \in LookRows /\ ReadFits /\ UNCHANGED graphVars /\ UNCHANGED asking
  BY SocialTypes DEF ProfileUser, Profile
<1>2. ASSUME ProfileUser PROVE PrivacyInv'
  <2>1. CASE look.target \in gone
    BY <1>1, <1>2, <2>1, RefusalKeepsInv DEF ProfileUser
  <2>2. CASE look.target \notin gone
    <3> DEFINE shown == {f \in Flags \ {"contact"} : Shown(look.target, f)}
               closed == look.target \in private
    <3>1. look' = [look EXCEPT !.pc = "profile", !.private = closed, !.rows = shown]
      BY <1>2, <2>2 DEF ProfileUser
    <3>2. shown \subseteq Flags /\ closed \in BOOLEAN
      OBVIOUS
    <3> HIDE DEF shown
    <3>3. /\ look'.pc = "profile" /\ look'.viewer = look.viewer /\ look'.private = closed
          /\ look'.target = look.target /\ look'.kind = look.kind /\ look'.rows = shown
      BY <1>1, <3>1 DEF LookRows
    <3>4. look' \in LookRows
      <4> HIDE DEF closed
      <4> QED
        BY <1>1, <3>1, <3>2 DEF LookRows
    <3>5. HistoryNarrows /\ during'.secret \subseteq private
      BY <1>1, <1>2, <3>3, QueryHistory DEF ProfileUser
    <3>6. look'.private \/ look.target \notin during'.secret
      BY <3>3, <3>5
    <3>7. ReadFits'
      BY <1>1, <1>2, <3>2, <3>3, <3>6 DEF ReadFits, ProfileUser
    <3> QED
      BY <1>1, <3>3, <3>4, <3>7, QueryKeepsInv
  <2> QED
    BY <2>1, <2>2
<1>3. ASSUME Profile PROVE PrivacyInv'
  <2>1. CASE BlockedEitherWay(look.viewer, look.target)
    BY <1>1, <1>3, <2>1, RefusalKeepsInv DEF Profile
  <2>2. CASE ~BlockedEitherWay(look.viewer, look.target)
    <3> DEFINE more == IF look.private THEN {} ELSE {<<look.target, f>> : f \in look.rows \cup {"bio"}}
               told == {<<look.target, "identity">>} \cup more
    <3>1. Answer(told)
      BY <1>3, <2>2 DEF Profile
    <3>2. /\ look.target \in People /\ look.pc = "profile" /\ look.kind = "profile" /\ look.rows \subseteq Flags
          /\ look.private \/ look.target \notin during.secret
      BY <1>1, <1>3 DEF ReadFits, Profile
    <3>3. /\ \A q \in told : q[1] = look.target /\ q \in People \X ToldFacts /\ q[2] \in Flags \cup {"bio", "identity"}
          /\ look.private => told = {<<look.target, "identity">>}
      BY <3>2 DEF ToldFacts
    <3>4. look'.pc = "answered" /\ look'.viewer = look.viewer
      BY <1>1, <3>1 DEF Answer, LookRows
    <3>5. HistoryNarrows /\ during'.barred \subseteq Excluded(look.viewer)
      BY <1>1, <3>2, <3>4, QueryHistory
    <3>6. look.target \notin during'.barred
      BY <2>2, <3>5 DEF BlockedEitherWay, Excluded
    <3>7. look.target \in during'.secret => \A q \in told : q[2] = "identity"
      BY <3>2, <3>3, <3>5 DEF HistoryNarrows
    <3>8. \A q \in told : q[2] # "mutual"
      BY <3>3 DEF Flags
    <3> HIDE DEF told
    <3> QED
      BY <1>1, <3>1, <3>2, <3>3, <3>6, <3>7, <3>8, AnswerKeepsInv
  <2> QED
    BY <2>1, <2>2
<1> QED
  BY <1>2, <1>3

\* A search: the exclusions first, then one query.
LEMMA SearchKeepsInv ==
    ASSUME PrivacyInv, during' = Observed, SearchExclusions \/ Search
    PROVE  PrivacyInv'
<1>1. look \in LookRows /\ ReadFits /\ UNCHANGED graphVars /\ UNCHANGED asking
  BY SocialTypes DEF SearchExclusions, Search
<1>2. ASSUME SearchExclusions PROVE PrivacyInv'
  <2>1. look' = [look EXCEPT !.pc = "search", !.out = Excluded(look.viewer)] /\ Excluded(look.viewer) \subseteq People
    BY <1>2 DEF SearchExclusions, Excluded
  <2>2. /\ look' \in LookRows /\ look'.pc = "search" /\ look'.viewer = look.viewer
        /\ look'.target = look.target /\ look'.kind = look.kind /\ look'.out = Excluded(look.viewer)
    BY <1>1, <2>1 DEF LookRows
  <2>3. during'.barred \subseteq Excluded(look.viewer)
    BY <1>1, <1>2, <2>2, QueryHistory DEF SearchExclusions
  <2>4. ReadFits'
    BY <1>1, <1>2, <2>2, <2>3 DEF ReadFits, SearchExclusions
  <2> QED
    BY <1>1, <2>2, <2>4, QueryKeepsInv
<1>3. ASSUME Search PROVE PrivacyInv'
  <2> DEFINE found == /\ look.target \notin gone \cup look.out
                      /\ (look.kind = "contact" => Shown(look.target, "contact"))
             told == {<<look.target, look.kind>>}
  <2>1. CASE ~found
    BY <1>1, <1>3, <2>1, RefusalKeepsInv DEF Search
  <2>2. CASE found
    <3>1. Answer(told)
      BY <1>3, <2>2 DEF Search
    <3>2. /\ look.target \in People /\ look.pc = "search" /\ look.kind \in {"username", "contact"}
          /\ during.barred \subseteq look.out
      BY <1>1, <1>3 DEF ReadFits, Search
    <3>3. told \in SUBSET (People \X ToldFacts)
      BY <3>2 DEF ToldFacts, Kinds
    <3>4. look'.pc = "answered" /\ look'.viewer = look.viewer
      BY <1>1, <3>1 DEF Answer, LookRows
    <3>5. HistoryNarrows /\ during'.secret \subseteq private
      BY <1>1, <3>2, <3>4, QueryHistory
    <3>6. look.target \notin during'.barred
      BY <2>2, <3>2, <3>5 DEF HistoryNarrows
    <3>7. look.target \in during'.secret => look.kind = "username"
      BY <2>2, <3>2, <3>5 DEF Shown
    <3>8. \A q \in told : q[1] = look.target /\ q[2] = look.kind
      OBVIOUS
    <3> HIDE DEF told
    <3> QED
      BY <1>1, <3>1, <3>2, <3>3, <3>6, <3>7, <3>8, AnswerKeepsInv
  <2> QED
    BY <2>1, <2>2
<1> QED
  BY <1>2, <1>3

\* Occasions: the viewer's context first, then the rows by their tiers.
LEMMA OccasionsKeepInv ==
    ASSUME PrivacyInv, during' = Observed, OccasionContext \/ Occasions
    PROVE  PrivacyInv'
<1>1. look \in LookRows /\ ReadFits /\ UNCHANGED graphVars /\ UNCHANGED asking
  BY SocialTypes DEF OccasionContext, Occasions
<1>2. ASSUME OccasionContext PROVE PrivacyInv'
  <2> DEFINE owners == Followed(look.viewer)
             out == IF look.kind = "upcoming" THEN owners ELSE owners \cap {look.target}
             rows == IF look.kind = "upcoming" THEN owners ELSE {look.target} \ Excluded(look.viewer)
  <2>1. look' = [look EXCEPT !.pc = "tiers", !.out = out, !.rows = rows]
    BY <1>2 DEF OccasionContext
  <2>2. look.pc = "context" /\ look.target \in People \ {look.viewer} /\ look.kind \in {"occasions", "upcoming"}
    BY <1>1, <1>2 DEF ReadFits, OccasionContext
  <2>3. /\ out \subseteq People /\ rows \subseteq People \ {look.viewer} /\ rows \cap Excluded(look.viewer) = {}
        /\ \A p \in out : p # look.viewer /\ Accepted(look.viewer, p)
    BY <2>2 DEF Followed
  <2> HIDE DEF out, rows
  <2>4. /\ look' \in LookRows /\ look'.pc = "tiers" /\ look'.viewer = look.viewer
        /\ look'.target = look.target /\ look'.kind = look.kind /\ look'.out = out /\ look'.rows = rows
    BY <1>1, <2>1, <2>3 DEF LookRows
  <2>5. /\ during'.barred \subseteq Excluded(look.viewer)
        /\ \A p \in People \ {look.viewer} : Accepted(look.viewer, p) => p \in during'.out
    BY <1>1, <2>2, <2>4, QueryHistory
  <2>6. rows \cap during'.barred = {} /\ out \subseteq during'.out
    BY <2>3, <2>5
  <2>7. ReadFits'
    BY <1>1, <2>2, <2>3, <2>4, <2>6 DEF ReadFits
  <2> QED
    BY <1>1, <2>4, <2>7, QueryKeepsInv
<1>3. ASSUME Occasions PROVE PrivacyInv'
  <2> DEFINE in == {p \in look.rows : Accepted(p, look.viewer)}
             told == Projected(look.rows, look.out, in)
  <2>1. Answer(told)
    BY <1>3 DEF Occasions
  <2>2. /\ look.pc = "tiers" /\ look.kind \in {"occasions", "upcoming"} /\ look.rows \subseteq People \ {look.viewer}
        /\ look.rows \cap during.barred = {} /\ look.out \subseteq during.out
    BY <1>1, <1>3 DEF ReadFits, Occasions
  <2>3. \A q \in told : /\ q \in look.rows \X Tiers
                        /\ q[2] \in {"followers", "mutual"} => q[1] \in look.out
                        /\ q[2] = "mutual" => q[1] \in in
    BY DEF Projected, SeesTier, Tiers
  <2>4. told \in SUBSET (People \X ToldFacts)
    BY <2>2, <2>3 DEF ToldFacts
  <2>5. look'.pc = "answered" /\ look'.viewer = look.viewer
    BY <1>1, <2>1 DEF Answer, LookRows
  <2>6. /\ HistoryNarrows
        /\ \A p \in People \ {look.viewer} : Accepted(p, look.viewer) => p \in during'.in
    BY <1>1, <2>2, <2>5, QueryHistory
  <2>7. in \subseteq during'.in
    BY <2>2, <2>6
  <2>8. /\ \A q \in told : q[1] \notin during'.barred
        /\ \A q \in told : q[2] \in {"followers", "mutual"} => q[1] \in during'.out
        /\ \A q \in told : q[2] = "mutual" => q[1] \in during'.in
    BY <2>2, <2>3, <2>6, <2>7 DEF HistoryNarrows
  <2> HIDE DEF told
  <2> QED
    BY <1>1, <2>1, <2>2, <2>4, <2>8, AnswerKeepsInv
<1> QED
  BY <1>2, <1>3

\* The reads that ask nothing about blocks tell of a private person no more
\* than who it is and whether a delivery can reach it.
LEMMA OpenKeepsInv ==
    ASSUME PrivacyInv, during' = Observed, Open
    PROVE  PrivacyInv'
<1>1. /\ look.target \in People /\ look.kind \in {"check", "party"} /\ look.pc = "open"
      /\ UNCHANGED graphVars /\ UNCHANGED asking
  BY SocialTypes DEF Open, ReadFits, UncheckedKinds
<1>2. CASE Refuse
  BY <1>1, <1>2, RefusalKeepsInv
<1>3. ASSUME NEW told \in SUBSET (People \X ToldFacts), Answer(told),
             \A q \in told : q[1] = look.target /\ q[2] \in {"identity", "check", "party"},
             look.kind = "check" => \A q \in told : q[2] # "party"
      PROVE  PrivacyInv'
  <2>1. look.kind \in UncheckedKinds
    BY <1>1 DEF UncheckedKinds
  <2>2. look.target \in during'.secret =>
            \A q \in told : q[1] = look.target /\ look.kind \notin {"wall", "post", "party", "occasions", "upcoming"}
                               => q[2] \in {"identity", "username", "check"}
    BY <1>1, <1>3
  <2>3. \A q \in told : q[2] # "followers" /\ q[2] # "mutual"
    BY <1>3
  <2> QED
    BY <1>1, <1>3, <2>1, <2>2, <2>3, AnswerKeepsInv
<1>4. CASE look.kind = "party"
  <2> DEFINE told == {<<look.target, "party">>}
  <2>1. Answer(told)
    BY <1>4 DEF Open
  <2>2. told \in SUBSET (People \X ToldFacts)
    BY <1>1 DEF ToldFacts, Kinds
  <2>3. \A q \in told : q[1] = look.target /\ q[2] = "party"
    OBVIOUS
  <2> HIDE DEF told
  <2> QED
    BY <1>3, <1>4, <2>1, <2>2, <2>3
<1>5. CASE look.kind = "check"
  <2> DEFINE told == {<<look.target, "identity">>, <<look.target, "check">>}
  <2>1. Refuse \/ Answer(told)
    BY <1>5 DEF Open
  <2>2. told \in SUBSET (People \X ToldFacts)
    BY <1>1 DEF ToldFacts, Kinds
  <2>3. \A q \in told : q[1] = look.target /\ q[2] \in {"identity", "check"}
    OBVIOUS
  <2> HIDE DEF told
  <2> QED
    BY <1>2, <1>3, <1>5, <2>1, <2>2, <2>3
<1> QED
  BY <1>1, <1>4, <1>5

\* What a reader is told of others respects the private profiles and the tiers
\* that stood throughout the read, and the blocks in every read that asks
\* about them (all but /users/check and a gift's parties on its post's page):
\* for any people, and any follows, blocks and changes of privacy between the
\* queries.
THEOREM ReadsKeepPrivacyAlways == SocialSpec => []ReadsKeepPrivacy
<1>1. SocialInit => PrivacyInv
  <2> SUFFICES ASSUME SocialInit PROVE PrivacyInv
    OBVIOUS
  <2> USE SocialAssumption DEF SocialInit
  <2>1. look \in LookRows /\ during \in Histories
    BY DEF NoLook, NoHistory, LookRows, Histories, Kinds
  <2>2. SocialTypeOK
    BY DEF SocialTypeOK, NoLook
  <2>3. BlockHides /\ PrivateHides /\ TierKept /\ HistoryBounds /\ ReadFits
    BY DEF NoLook, BlockHides, PrivateHides, TierKept, HistoryBounds, ReadFits
  <2> QED
    BY <2>1, <2>2, <2>3 DEF PrivacyInv, ReadsKeepPrivacy, SocialRows, Histories
<1>2. PrivacyInv /\ [SocialNext]_socialVars => PrivacyInv'
  <2> SUFFICES ASSUME PrivacyInv, [SocialNext]_socialVars PROVE PrivacyInv'
    OBVIOUS
  <2>1. CASE SocialNext
    BY <2>1, EditsKeepInv, BeginKeepsInv, ListsKeepInv, ProfileKeepsInv, SearchKeepsInv, OccasionsKeepInv,
       OpenKeepsInv
       DEF SocialNext, SocialStep
  <2>2. CASE UNCHANGED socialVars
    <3>1. UNCHANGED <<follow, blocks, private, hidden, gone, edits, asking, look, during>>
      BY <2>2 DEF socialVars, graphVars
    <3>2. ReadsKeepPrivacy' /\ SocialRows'
      BY <3>1, SocialTypes DEF PrivacyInv, ReadsKeepPrivacy, SocialTypeOK, BlockHides, PrivateHides, TierKept,
         Told, SocialRows
    <3>3. HistoryBounds' /\ ReadFits'
      BY <3>1 DEF PrivacyInv, HistoryBounds, Excluded, Accepted, ReadFits
    <3> QED
      BY <3>2, <3>3 DEF PrivacyInv
  <2> QED
    BY <2>1, <2>2
<1>3. PrivacyInv => ReadsKeepPrivacy
  BY DEF PrivacyInv
<1> QED
  BY <1>1, <1>2, <1>3, PTL DEF SocialSpec

-----------------------------------------------------------------------------
(***************************************************************************)
(* Codes and accounts: what the guesses in the window amount to, for any   *)
(* targets, requests in flight and limits.                                 *)
(***************************************************************************)
WindowOf(o, t) == {i \in 1..Len(o) : o[i].target = t /\ o[i].live /\ o[i].age # "old"}
Wrongs(o) == [i \in 1..Len(o) |-> o[i].attempts]
Wronged(o, k) == [o EXCEPT ![k].attempts = @ + 1]
Guessed(o, t) == SumOf(Wrongs(o), WindowOf(o, t))

\* The rows in the window are finitely many, and their guesses add up to a natural.
LEMMA GuessedIsNatural ==
    ASSUME NEW o \in Seq(OtpRows), NEW t
    PROVE  /\ IsFiniteSet(WindowOf(o, t)) /\ WindowOf(o, t) \subseteq 1..Len(o)
           /\ \A i \in 1..Len(o) : Wrongs(o)[i] = o[i].attempts /\ Wrongs(o)[i] \in Nat
           /\ Guessed(o, t) \in Nat
<1>1. Len(o) \in Nat /\ \A i \in 1..Len(o) : o[i] \in OtpRows
  OBVIOUS
<1>2. IsFiniteSet(WindowOf(o, t)) /\ WindowOf(o, t) \subseteq 1..Len(o)
  <2>1. IsFiniteSet(1..Len(o))
    BY <1>1, FS_Interval
  <2>2. WindowOf(o, t) \subseteq 1..Len(o)
    BY DEF WindowOf
  <2> QED
    BY <2>1, <2>2, FS_Subset
<1>3. \A i \in 1..Len(o) : Wrongs(o)[i] = o[i].attempts /\ Wrongs(o)[i] \in Nat
  BY <1>1 DEF Wrongs, OtpRows
<1>4. Guessed(o, t) \in Nat
  <2> DEFINE S == WindowOf(o, t)
             w == Wrongs(o)
  <2>1. IsFiniteSet(S) /\ \A i \in S : w[i] \in Nat
    BY <1>2, <1>3
  <2> HIDE DEF S, w
  <2>2. SumOf(w, S) \in Nat
    BY <2>1, SumIsNatural
  <2> QED
    BY <2>2 DEF S, w, Guessed
<1> QED
  BY <1>2, <1>3, <1>4

\* What a verification reads of the window is a sum over its rows.
LEMMA WindowIsSum ==
    ASSUME otp \in Seq(OtpRows), NEW t
    PROVE  WindowAttempts(t) = Guessed(otp, t)
<1> DEFINE S == Windowed(t)
           w == Wrongs(otp)
           Body(g) == [s \in SUBSET S |-> IF s = {} THEN 0 ELSE otp[Chosen(s)].attempts + g[s \ {Chosen(s)}]]
<1>1. S = WindowOf(otp, t)
  BY DEF Windowed, WindowOf, CodeRows
<1>2. IsFiniteSet(S) /\ \A x \in S : w[x] = otp[x].attempts
  BY <1>1, GuessedIsNatural
<1>3. WindowAttempts(t) = (CHOOSE g : g = Body(g))[S]
  BY DEF WindowAttempts, MapThenSumSet, MapThenFoldSet, Chosen
<1> HIDE DEF S, w
<1>4. ASSUME NEW g PROVE (g = Body(g)) <=> Unfolds(g, w, S)
  <2>1. \A s \in SUBSET S : s # {} => w[Chosen(s)] = otp[Chosen(s)].attempts
    BY <1>2, ChosenInSet
  <2>2. Body(g) = [s \in SUBSET S |-> IF s = {} THEN 0 ELSE w[Chosen(s)] + g[s \ {Chosen(s)}]]
    BY <2>1
  <2> QED
    BY <2>2 DEF Unfolds
<1>5. PICK g : g = Body(g)
  BY <1>2, <1>4, UnfoldsExist
<1> DEFINE h == CHOOSE x : x = Body(x)
<1>6. Unfolds(h, w, S)
  <2> HIDE DEF Body
  <2>1. h = Body(h)
    BY <1>5
  <2> HIDE DEF h
  <2> QED
    BY <1>4, <2>1
<1> HIDE DEF h
<1>7. h[S] = SumOf(w, S)
  BY <1>2, <1>6, SumIsUnfolded
<1>8. WindowAttempts(t) = SumOf(w, S)
  BY <1>3, <1>7 DEF h
<1> QED
  BY <1>1, <1>8 DEF w, Guessed

\* So it is after a step.
LEMMA WindowStaysSum ==
    ASSUME NEW t
    PROVE  (otp \in Seq(OtpRows) => WindowAttempts(t) = Guessed(otp, t))'
<1>1. otp \in Seq(OtpRows) => WindowAttempts(t) = Guessed(otp, t)
  BY WindowIsSum
<1> QED
  BY <1>1, PTL

\* A window whose rows were all in another, with no more guesses, counts no more.
LEMMA GuessedShrinks ==
    ASSUME NEW o \in Seq(OtpRows), NEW n \in Seq(OtpRows), NEW t,
           WindowOf(n, t) \subseteq WindowOf(o, t),
           \A i \in WindowOf(n, t) : n[i].attempts = o[i].attempts
    PROVE  Guessed(n, t) <= Guessed(o, t)
<1> DEFINE S == WindowOf(o, t)
           R == WindowOf(n, t)
           w == Wrongs(o)
           v == Wrongs(n)
<1>1. IsFiniteSet(S) /\ R \in SUBSET S /\ IsFiniteSet(R) /\ \A i \in S : w[i] \in Nat
  BY GuessedIsNatural
<1>2. \A i \in R : v[i] = w[i]
  <2> SUFFICES ASSUME NEW i \in R PROVE v[i] = w[i]
    OBVIOUS
  <2>1. i \in 1..Len(o) /\ i \in 1..Len(n) /\ n[i].attempts = o[i].attempts
    BY GuessedIsNatural
  <2>2. v[i] = n[i].attempts /\ w[i] = o[i].attempts
    BY <2>1, GuessedIsNatural
  <2> QED
    BY <2>1, <2>2
<1> HIDE DEF S, R, w, v
<1>3. SumOf(v, R) = SumOf(w, R) /\ SumOf(w, R) <= SumOf(w, S)
  <2>1. SumOf(v, R) = SumOf(w, R)
    BY <1>1, <1>2, SumCongruence
  <2>2. SumOf(w, R) <= SumOf(w, S)
    BY <1>1, SumMonotone
  <2> QED
    BY <2>1, <2>2
<1> QED
  BY <1>3 DEF S, R, w, v, Guessed

\* A code that is sent has no guesses yet.
LEMMA GuessedOnSend ==
    ASSUME NEW o \in Seq(OtpRows), NEW otpRow \in OtpRows, otpRow.attempts = 0, NEW t
    PROVE  Guessed(Append(o, otpRow), t) <= Guessed(o, t)
<1> DEFINE n == Append(o, otpRow)
           k == Len(o) + 1
           S == WindowOf(o, t)
           R == WindowOf(n, t)
           w == Wrongs(o)
           v == Wrongs(n)
<1>1. /\ n \in Seq(OtpRows) /\ k \in 1..Len(n) /\ k \notin 1..Len(o) /\ Len(n) = Len(o) + 1
      /\ n[k] = otpRow /\ \A i \in 1..Len(o) : i \in 1..Len(n) /\ n[i] = o[i]
  OBVIOUS
<1> HIDE DEF n, k
<1>2. R = S \/ (R = S \cup {k} /\ k \notin S)
  <2>1. \A i \in 1..Len(n) : i \in 1..Len(o) \/ i = k
    BY <1>1 DEF k
  <2> QED
    BY <1>1, <2>1 DEF WindowOf
<1>3. /\ IsFiniteSet(S) /\ IsFiniteSet(R) /\ SumOf(w, S) \in Nat
      /\ \A i \in R : v[i] \in Nat
  BY <1>1, GuessedIsNatural DEF Guessed
<1>4. v[k] = 0
  BY <1>1, GuessedIsNatural
<1>5. \A i \in S : v[i] = w[i]
  <2> SUFFICES ASSUME NEW i \in S PROVE v[i] = w[i]
    OBVIOUS
  <2>1. i \in 1..Len(o)
    BY GuessedIsNatural
  <2>2. w[i] = o[i].attempts
    BY <2>1, GuessedIsNatural
  <2>3. v[i] = n[i].attempts
    BY <1>1, <2>1, GuessedIsNatural
  <2> QED
    BY <1>1, <2>1, <2>2, <2>3
<1> HIDE DEF S, R, w, v
<1>6. SumOf(v, S) = SumOf(w, S)
  BY <1>3, <1>5, SumCongruence
<1>7. SumOf(v, R) = SumOf(w, S)
  <2>1. CASE R = S
    BY <1>6, <2>1
  <2>2. CASE R = S \cup {k} /\ k \notin S
    <3>1. SumOf(v, S \cup {k}) = SumOf(v, S) + v[k]
      BY <1>3, <2>2, SumAdd
    <3> QED
      BY <1>3, <1>4, <1>6, <2>2, <3>1
  <2> QED
    BY <1>2, <2>1, <2>2
<1>8. SumOf(v, R) <= SumOf(w, S)
  BY <1>3, <1>7
<1> QED
  BY <1>8 DEF S, R, w, v, n, Guessed

\* A row keeps its form with another guess.
LEMMA GuessedRow ==
    ASSUME NEW otpRow \in OtpRows, NEW n \in Nat
    PROVE  /\ [otpRow EXCEPT !.attempts = n] \in OtpRows
           /\ [otpRow EXCEPT !.attempts = n].attempts = n
           /\ [otpRow EXCEPT !.attempts = n].target = otpRow.target
           /\ [otpRow EXCEPT !.attempts = n].live = otpRow.live
           /\ [otpRow EXCEPT !.attempts = n].age = otpRow.age
           /\ [otpRow EXCEPT !.attempts = n].uses = otpRow.uses
  BY DEF OtpRows

\* The code that is spent is used once more, and dead unless its delete is lost.
LEMMA SpentRow ==
    ASSUME NEW otpRow \in OtpRows, NEW spend \in BOOLEAN
    PROVE  /\ Spent(otpRow, spend) \in OtpRows
           /\ Spent(otpRow, spend).target = otpRow.target /\ Spent(otpRow, spend).attempts = otpRow.attempts
           /\ Spent(otpRow, spend).age = otpRow.age /\ Spent(otpRow, spend).uses = otpRow.uses + 1
           /\ spend => ~Spent(otpRow, spend).live
           /\ ~spend => Spent(otpRow, spend).live = otpRow.live
<1>1. otpRow.uses \in Nat /\ otpRow.live \in BOOLEAN
  BY DEF OtpRows
<1> DEFINE alive == otpRow.live /\ ~spend
           n == otpRow.uses + 1
<1>2. alive \in BOOLEAN /\ (spend => ~alive) /\ (~spend => alive = otpRow.live)
  BY <1>1
<1>3. n \in Nat
  BY <1>1
<1>4. Spent(otpRow, spend) = [otpRow EXCEPT !.uses = n, !.live = alive]
  BY DEF Spent
<1> HIDE DEF alive, n
<1>5. /\ Spent(otpRow, spend) \in OtpRows
      /\ Spent(otpRow, spend).target = otpRow.target /\ Spent(otpRow, spend).attempts = otpRow.attempts
      /\ Spent(otpRow, spend).age = otpRow.age /\ Spent(otpRow, spend).uses = n
      /\ Spent(otpRow, spend).live = alive
  <2> DEFINE s == [otpRow EXCEPT !.uses = n, !.live = alive]
  <2>1. /\ s \in OtpRows /\ s.target = otpRow.target /\ s.attempts = otpRow.attempts
        /\ s.age = otpRow.age /\ s.uses = n /\ s.live = alive
    BY <1>2, <1>3 DEF OtpRows
  <2> HIDE DEF s
  <2>2. Spent(otpRow, spend) = s
    BY <1>4 DEF s
  <2> QED
    BY <2>1, <2>2
<1> QED
  BY <1>2, <1>5 DEF n

\* A counted wrong guess adds one for its target.
LEMMA GuessedOnWrong ==
    ASSUME NEW o \in Seq(OtpRows), NEW k \in 1..Len(o), NEW t,
           NEW n, n = Wronged(o, k)
    PROVE  /\ n \in Seq(OtpRows) /\ Len(n) = Len(o)
           /\ \A i \in 1..Len(o) : /\ n[i].target = o[i].target /\ n[i].live = o[i].live
                                   /\ n[i].uses = o[i].uses
           /\ Guessed(n, t) <= Guessed(o, t) + 1
           /\ t # o[k].target => Guessed(n, t) <= Guessed(o, t)
<1>1. o[k] \in OtpRows /\ k \in DOMAIN o /\ Len(o) \in Nat
  OBVIOUS
<1> DEFINE a == o[k].attempts + 1
           r == [o[k] EXCEPT !.attempts = a]
<1>2. /\ r \in OtpRows /\ r.attempts = o[k].attempts + 1 /\ r.target = o[k].target /\ r.live = o[k].live
      /\ r.age = o[k].age /\ r.uses = o[k].uses
  <2>1. a \in Nat
    BY <1>1 DEF OtpRows
  <2> HIDE DEF a
  <2>2. /\ r \in OtpRows /\ r.attempts = a /\ r.target = o[k].target /\ r.live = o[k].live
        /\ r.age = o[k].age /\ r.uses = o[k].uses
    BY <1>1, <2>1, GuessedRow
  <2> QED
    BY <2>2 DEF a
<1>3. n = [o EXCEPT ![k] = r]
  BY DEF Wronged
<1> HIDE DEF r
<1>4. n \in Seq(OtpRows) /\ Len(n) = Len(o) /\ \A i \in 1..Len(o) : n[i] = IF i = k THEN r ELSE o[i]
  BY <1>1, <1>2, <1>3
<1>5. \A i \in 1..Len(o) : /\ n[i].target = o[i].target /\ n[i].live = o[i].live
                           /\ n[i].uses = o[i].uses /\ n[i].age = o[i].age
                           /\ i # k => n[i].attempts = o[i].attempts
  BY <1>2, <1>4
<1>6. WindowOf(n, t) = WindowOf(o, t)
  BY <1>4, <1>5 DEF WindowOf
<1> DEFINE S == WindowOf(o, t)
           w == Wrongs(o)
           v == Wrongs(n)
<1>7. Guessed(n, t) = SumOf(v, S) /\ Guessed(o, t) = SumOf(w, S)
  BY <1>6 DEF Guessed
<1>8. /\ IsFiniteSet(S) /\ S \subseteq 1..Len(o) /\ \A i \in S : w[i] \in Nat /\ v[i] \in Nat
      /\ \A i \in S : v[i] = n[i].attempts /\ w[i] = o[i].attempts
      /\ SumOf(w, S) \in Nat
  BY <1>4, GuessedIsNatural DEF Guessed
<1>9. \A i \in S : i # k => v[i] = w[i]
  BY <1>5, <1>8
<1>10. k \in S => v[k] = w[k] + 1 /\ o[k].target = t
  BY <1>2, <1>4, <1>8 DEF WindowOf
<1> HIDE DEF S, w, v
<1>11. CASE k \notin S
  <2>1. SumOf(v, S) = SumOf(w, S)
    BY <1>8, <1>9, <1>11, SumCongruence
  <2> QED
    BY <1>4, <1>5, <1>7, <1>8, <2>1
<1>12. CASE k \in S
  <2> DEFINE R == S \ {k}
  <2>1. IsFiniteSet(R) /\ \A i \in R : v[i] = w[i] /\ w[i] \in Nat
    BY <1>8, <1>9, FS_RemoveElement
  <2>2. SumOf(v, S) = v[k] + SumOf(v, R) /\ SumOf(w, S) = w[k] + SumOf(w, R)
    BY <1>8, <1>12, SumRemove
  <2> HIDE DEF R
  <2>3. SumOf(v, R) = SumOf(w, R) /\ SumOf(w, R) \in Nat
    <3>1. SumOf(v, R) = SumOf(w, R)
      BY <2>1, SumCongruence
    <3>2. SumOf(w, R) \in Nat
      BY <2>1, SumIsNatural
    <3> QED
      BY <3>1, <3>2
  <2>4. SumOf(v, S) = SumOf(w, S) + 1
    <3>1. v[k] = w[k] + 1 /\ w[k] \in Nat
      BY <1>8, <1>10, <1>12
    <3> QED
      BY <2>2, <2>3, <3>1
  <2>5. o[k].target = t
    BY <1>10, <1>12
  <2> QED
    BY <1>4, <1>5, <1>7, <1>8, <2>4, <2>5
<1> QED
  BY <1>11, <1>12

\* A set of rows that is not empty has a latest one.
LEMMA LatestRow ==
    ASSUME NEW S, NEW n \in Nat, S \subseteq 1..n, S # {}
    PROVE  Max(S) \in S
  BY LastExists DEF Max
-----------------------------------------------------------------------------
(***************************************************************************)
(* One request moves, to q; the code rows may change at the same time.     *)
(***************************************************************************)
Guesses(q, t) == q.pc \in {"row", "compare"} /\ q.target = t
HoldsRow(q, i) == q.pc \in Opening /\ q.row = i
Moved(r, q) == request' = [request EXCEPT ![r] = q]
CodesInv == AsksFit /\ GuessesAhead /\ UsesAhead
Fitting(q) == /\ AskFits(q) /\ q.row \in 0..Len(otp)
              /\ q.pc \in Opening => q.row \in CodeRows
              /\ q.pc = "compare" => otp[q.row].target = q.target

\* A request that moves leaves or joins those that guess, and those that hold a row.
LEMMA MovedCounts ==
    ASSUME NEW r \in Requests, NEW q, request \in [Requests -> Asks], Moved(r, q), NEW t, NEW i
    PROVE  /\ Cardinality(Guessers(t)) \in 0..Cardinality(Requests)
           /\ Cardinality(Guessers(t)') \in 0..Cardinality(Requests)
           /\ Cardinality(Guessers(t)') = Cardinality(Guessers(t)) + (IF Guesses(q, t) THEN 1 ELSE 0)
                                            - (IF Guesses(request[r], t) THEN 1 ELSE 0)
           /\ Cardinality(Holders(i)) \in 0..Cardinality(Requests)
           /\ Cardinality(Holders(i)') \in 0..Cardinality(Requests)
           /\ Cardinality(Holders(i)') = Cardinality(Holders(i)) + (IF HoldsRow(q, i) THEN 1 ELSE 0)
                                            - (IF HoldsRow(request[r], i) THEN 1 ELSE 0)
           /\ Cardinality(Requests) \in Nat
<1>1. /\ request'[r] = q /\ request' \in [Requests -> Asks \cup {q}]
      /\ \A s \in Requests : s # r => request'[s] = request[s]
  BY DEF Moved
<1>2. IsFiniteSet(Requests) /\ Cardinality(Requests) \in Nat
  BY OneTimeCodesAssumption, FS_CardinalityType
<1>3. ASSUME NEW A \in SUBSET Requests
      PROVE  IsFiniteSet(A) /\ Cardinality(A) \in 0..Cardinality(Requests)
  BY <1>2, FS_Subset, FS_CardinalityType
<1> DEFINE G == Guessers(t)
           GG == Guessers(t)'
           H == Holders(i)
           HH == Holders(i)'
<1>4. /\ G \in SUBSET Requests /\ GG \in SUBSET Requests /\ G \ {r} = GG \ {r}
      /\ r \in G <=> Guesses(request[r], t)
      /\ r \in GG <=> Guesses(q, t)
  BY <1>1 DEF Guessers, Guesses
<1>5. /\ H \in SUBSET Requests /\ HH \in SUBSET Requests /\ H \ {r} = HH \ {r}
      /\ r \in H <=> HoldsRow(request[r], i)
      /\ r \in HH <=> HoldsRow(q, i)
  BY <1>1 DEF Holders, HoldsRow
<1> HIDE DEF G, GG, H, HH
<1>6. /\ IsFiniteSet(G) /\ Cardinality(G) \in 0..Cardinality(Requests)
      /\ Cardinality(GG) \in 0..Cardinality(Requests)
  BY <1>3, <1>4
<1>7. /\ IsFiniteSet(H) /\ Cardinality(H) \in 0..Cardinality(Requests)
      /\ Cardinality(HH) \in 0..Cardinality(Requests)
  BY <1>3, <1>5
<1>8. Cardinality(GG) = Cardinality(G) + (IF r \in GG THEN 1 ELSE 0) - (IF r \in G THEN 1 ELSE 0)
  BY <1>4, <1>6, SizeMoves
<1>9. Cardinality(HH) = Cardinality(H) + (IF r \in HH THEN 1 ELSE 0) - (IF r \in H THEN 1 ELSE 0)
  BY <1>5, <1>7, SizeMoves
<1>10. Cardinality(GG) = Cardinality(G) + (IF Guesses(q, t) THEN 1 ELSE 0)
                           - (IF Guesses(request[r], t) THEN 1 ELSE 0)
  BY <1>4, <1>8
<1>11. Cardinality(HH) = Cardinality(H) + (IF HoldsRow(q, i) THEN 1 ELSE 0)
                           - (IF HoldsRow(request[r], i) THEN 1 ELSE 0)
  BY <1>5, <1>9
<1> QED
  BY <1>2, <1>6, <1>7, <1>10, <1>11 DEF G, GG, H, HH

\* The lost writes are counted by a natural.
LEMMA LostIsNatural == ASSUME lost \in 0..MaxLost PROVE lost \in Nat
<1>1. MaxLost \in Nat
  BY OneTimeCodesAssumption
<1> QED
  BY <1>1

\* The requests go on fitting when the one that moves does and no row is lost.
LEMMA MovedFits ==
    ASSUME AsksFit, NEW r \in Requests, NEW q, Moved(r, q), Fitting(q),
           otp' \in Seq(OtpRows), Len(otp') >= Len(otp), lost' \in 0..MaxLost,
           \A i \in CodeRows : otp'[i].target = otp[i].target
    PROVE  AsksFit'
<1>1. /\ request'[r] = q /\ request' \in [Requests -> Asks]
      /\ \A s \in Requests : s # r => request'[s] = request[s]
  BY DEF Moved, AsksFit, Fitting, AskFits
<1>2. Len(otp) \in Nat /\ Len(otp') \in Nat /\ CodeRows \subseteq CodeRows' /\ 0..Len(otp) \subseteq 0..Len(otp')
  <2>1. Len(otp) \in Nat /\ Len(otp') \in Nat
    BY DEF AsksFit
  <2> QED
    BY <2>1 DEF CodeRows
<1>3. ASSUME NEW s \in Requests PROVE Fitting(request'[s])
  BY <1>1 DEF AsksFit, Fitting
<1>4. ASSUME NEW s \in Requests
      PROVE  /\ AskFits(request[s])' /\ request'[s].row \in 0..Len(otp')
             /\ request'[s].pc \in Opening => request'[s].row \in CodeRows'
             /\ request'[s].pc = "compare" => otp'[request'[s].row].target = request'[s].target
  <2>1. AskFits(request'[s]) /\ request'[s].row \in 0..Len(otp')
    BY <1>2, <1>3 DEF Fitting
  <2>2. request'[s].pc \in Opening => request'[s].row \in CodeRows /\ request'[s].row \in CodeRows'
    BY <1>2, <1>3 DEF Fitting
  <2>3. request'[s].pc = "compare" => request'[s].pc \in Opening
    BY DEF Opening
  <2>4. request'[s].pc = "compare" => otp'[request'[s].row].target = request'[s].target
    BY <1>3, <2>2, <2>3 DEF Fitting
  <2>5. AskFits(request[s])'
    BY <2>1 DEF AskFits, Registers
  <2> QED
    BY <2>1, <2>2, <2>4, <2>5
<1> QED
  BY <1>1, <1>4 DEF AsksFit

\* A target's guesses, counted and to come, stay below the limit: one is
\* counted only as its request ends, and none joins past the limit.
LEMMA GuessesStayAhead ==
    ASSUME AsksFit, GuessesAhead, NEW r \in Requests, NEW q, Moved(r, q), otp' \in Seq(OtpRows),
           \A t \in Targets :
              \/ /\ Guessed(otp', t) <= Guessed(otp, t)
                 /\ Guesses(q, t) => Guesses(request[r], t) \/ Guessed(otp, t) < MaxTargetAttempts
              \/ /\ Guessed(otp', t) <= Guessed(otp, t) + 1
                 /\ Guesses(request[r], t) /\ ~Guesses(q, t)
    PROVE  GuessesAhead'
<1> SUFFICES ASSUME NEW t \in Targets
             PROVE  WindowAttempts(t)' + Cardinality(Guessers(t)')
                        <= MaxTargetAttempts + Cardinality(Requests) - 1
  BY DEF GuessesAhead, Targets
<1>1. otp \in Seq(OtpRows) /\ request \in [Requests -> Asks] /\ MaxTargetAttempts \in Nat
  BY OneTimeCodesAssumption DEF AsksFit
<1>2. WindowAttempts(t)' = Guessed(otp', t)
  BY WindowStaysSum
<1>3. WindowAttempts(t) = Guessed(otp, t) /\ Guessed(otp, t) \in Nat /\ Guessed(otp', t) \in Nat
  BY <1>1, WindowIsSum, GuessedIsNatural
<1> DEFINE G == Cardinality(Guessers(t))
           GG == Cardinality(Guessers(t)')
           N == Cardinality(Requests)
           a == Guessed(otp, t)
           b == Guessed(otp', t)
<1>4. /\ G \in 0..N /\ GG \in 0..N /\ N \in Nat
      /\ GG = G + (IF Guesses(q, t) THEN 1 ELSE 0) - (IF Guesses(request[r], t) THEN 1 ELSE 0)
  BY <1>1, MovedCounts
<1>5. a + G <= MaxTargetAttempts + N - 1
  BY <1>3 DEF GuessesAhead
<1>6. \/ b <= a /\ (Guesses(q, t) => Guesses(request[r], t) \/ a < MaxTargetAttempts)
      \/ b <= a + 1 /\ Guesses(request[r], t) /\ ~Guesses(q, t)
  OBVIOUS
<1>7. a \in Nat /\ b \in Nat
  BY <1>3
<1> HIDE DEF G, GG, N, a, b
<1>8. b + GG <= MaxTargetAttempts + N - 1
  BY <1>1, <1>4, <1>5, <1>6, <1>7
<1> QED
  BY <1>2, <1>8 DEF b, GG, N

\* A live row is used by lost deletes only, and a dead one by its holders only.
LEMMA UsesStayAhead ==
    ASSUME AsksFit, UsesAhead, NEW r \in Requests, NEW q, Moved(r, q), otp' \in Seq(OtpRows),
           lost' \in Nat, lost <= lost',
           \A i \in 1..Len(otp') :
              \/ /\ i \in CodeRows /\ otp'[i].uses = otp[i].uses /\ otp'[i].live = otp[i].live
                 /\ HoldsRow(q, i) => HoldsRow(request[r], i) \/ otp[i].live
              \/ otp'[i].live /\ otp'[i].uses <= lost'
              \/ /\ i \in CodeRows /\ ~otp'[i].live /\ otp'[i].uses = otp[i].uses + 1
                 /\ HoldsRow(request[r], i) /\ ~HoldsRow(q, i)
    PROVE  UsesAhead'
<1> SUFFICES ASSUME NEW i \in 1..Len(otp')
             PROVE  /\ otp'[i].live => otp'[i].uses <= lost'
                    /\ ~otp'[i].live => otp'[i].uses + Cardinality(Holders(i)') <= Cardinality(Requests) + lost'
  BY DEF UsesAhead, CodeRows
<1>1. request \in [Requests -> Asks] /\ lost \in Nat /\ otp \in Seq(OtpRows)
  BY LostIsNatural DEF AsksFit
<1>2. otp'[i] \in OtpRows /\ (i \in CodeRows => otp[i] \in OtpRows)
  BY <1>1 DEF CodeRows
<1> DEFINE H == Cardinality(Holders(i))
           HH == Cardinality(Holders(i)')
           N == Cardinality(Requests)
           a == otp[i].uses
           b == otp'[i].uses
<1>3. /\ H \in 0..N /\ HH \in 0..N /\ N \in Nat
      /\ HH = H + (IF HoldsRow(q, i) THEN 1 ELSE 0) - (IF HoldsRow(request[r], i) THEN 1 ELSE 0)
  BY <1>1, MovedCounts
<1>4. b \in Nat /\ (i \in CodeRows => a \in Nat)
  BY <1>2 DEF OtpRows
<1>5. i \in CodeRows => /\ otp[i].live => a <= lost
                        /\ ~otp[i].live => a + H <= N + lost
  BY DEF UsesAhead
<1>6. \/ /\ i \in CodeRows /\ b = a /\ otp'[i].live = otp[i].live
         /\ HoldsRow(q, i) => HoldsRow(request[r], i) \/ otp[i].live
      \/ otp'[i].live /\ b <= lost'
      \/ /\ i \in CodeRows /\ ~otp'[i].live /\ b = a + 1
         /\ HoldsRow(request[r], i) /\ ~HoldsRow(q, i)
  OBVIOUS
<1>7. otp'[i].live \in BOOLEAN /\ (i \in CodeRows => otp[i].live \in BOOLEAN)
  BY <1>2 DEF OtpRows
<1> HIDE DEF H, HH, N, a, b
<1>8. otp'[i].live => b <= lost'
  <2>1. CASE i \in CodeRows /\ b = a /\ otp[i].live
    <3>1. a <= lost /\ a \in Nat
      BY <1>4, <1>5, <2>1
    <3> QED
      BY <1>1, <2>1, <3>1
  <2> QED
    BY <1>6, <2>1
<1>9. ~otp'[i].live => b + HH <= N + lost'
  <2>1. CASE /\ i \in CodeRows /\ b = a /\ ~otp[i].live
             /\ HoldsRow(q, i) => HoldsRow(request[r], i)
    <3>1. a + H <= N + lost /\ a \in Nat
      BY <1>4, <1>5, <2>1
    <3>2. HH <= H /\ H \in Int /\ HH \in Int /\ N \in Int
      BY <1>3, <2>1
    <3>3. a + HH <= N + lost
      BY <1>1, <3>1, <3>2
    <3>4. ASSUME NEW x \in Int, NEW y \in Int, NEW l \in Int, NEW m \in Int, x <= y + l, l <= m PROVE x <= y + m
      BY <3>4
    <3>5. a + HH \in Int /\ N \in Int /\ lost \in Int /\ lost' \in Int /\ lost <= lost'
      BY <1>1, <3>1, <3>2
    <3>6. a + HH <= N + lost'
      BY <3>3, <3>4, <3>5
    <3> QED
      BY <2>1, <3>6
  <2>2. CASE /\ i \in CodeRows /\ b = a + 1 /\ HoldsRow(request[r], i) /\ ~HoldsRow(q, i)
    <3>1. HH = H - 1 /\ H <= N
      BY <1>3, <2>2
    <3>2. CASE otp[i].live
      BY <1>1, <1>3, <1>4, <1>5, <2>2, <3>1, <3>2
    <3>3. CASE ~otp[i].live
      BY <1>1, <1>3, <1>4, <1>5, <2>2, <3>1, <3>3
    <3> QED
      BY <3>2, <3>3
  <2> QED
    BY <1>6, <1>7, <2>1, <2>2
<1> QED
  BY <1>8, <1>9 DEF b, HH, N

\* The invariant of the codes holds the lockout and the single use.
LEMMA CodesInvHolds == CodesInv => CodesHold
<1> SUFFICES ASSUME CodesInv PROVE CodesHold
  OBVIOUS
<1>1. /\ otp \in Seq(OtpRows) /\ lost \in Nat /\ lost \in 0..MaxLost /\ request \in [Requests -> Asks]
      /\ \A i \in CodeRows : otp[i] \in OtpRows
  BY LostIsNatural DEF CodesInv, AsksFit, CodeRows
<1>2. /\ Cardinality(Requests) \in Nat /\ Cardinality(Requests) >= 1
      /\ \A t : Cardinality(Guessers(t)) \in Nat
      /\ \A i : Cardinality(Holders(i)) \in Nat
  <2>1. IsFiniteSet(Requests) /\ Requests # {}
    BY OneTimeCodesAssumption
  <2>2. ASSUME NEW A \in SUBSET Requests PROVE Cardinality(A) \in Nat
    BY <2>1, FS_Subset, FS_CardinalityType
  <2>3. Cardinality(Requests) # 0
    BY <2>1, FS_EmptySet
  <2>4. \A t : Guessers(t) \in SUBSET Requests
    BY DEF Guessers
  <2>5. \A i : Holders(i) \in SUBSET Requests
    BY DEF Holders
  <2> QED
    BY <2>2, <2>3, <2>4, <2>5
<1>3. CodesTypeOK
  <2>1. \A i \in CodeRows : /\ otp[i].target \in Targets /\ otp[i].age \in {"fresh", "expired", "old"}
                            /\ otp[i].attempts \in Nat /\ otp[i].uses \in Nat /\ otp[i].live \in BOOLEAN
    BY <1>1 DEF OtpRows
  <2>2. \A r \in Requests : request[r].row \in 0..Len(otp) /\ request[r].target \in Targets \cup {NoTarget}
    BY DEF CodesInv, AsksFit, AskFits, Asks
  <2> QED
    BY <1>1, <2>1, <2>2 DEF CodesTypeOK
<1>4. LockoutHolds
  <2> SUFFICES ASSUME NEW t \in Targets
               PROVE  MapThenSumSet(LAMBDA i : otp[i].attempts, Windowed(t))
                          <= MaxTargetAttempts + Cardinality(Requests) - 1
    BY DEF LockoutHolds
  <2>1. WindowAttempts(t) + Cardinality(Guessers(t)) <= MaxTargetAttempts + Cardinality(Requests) - 1
    BY DEF CodesInv, GuessesAhead
  <2>2. WindowAttempts(t) \in Nat
    BY <1>1, WindowIsSum, GuessedIsNatural
  <2>3. WindowAttempts(t) <= MaxTargetAttempts + Cardinality(Requests) - 1
    <3>1. MaxTargetAttempts \in Nat /\ Cardinality(Guessers(t)) \in Nat
      BY <1>2, OneTimeCodesAssumption
    <3> QED
      BY <1>2, <2>1, <2>2, <3>1
  <2>4. WindowAttempts(t) = MapThenSumSet(LAMBDA i : otp[i].attempts, Windowed(t))
    BY DEF WindowAttempts, MapThenSumSet, MapThenFoldSet
  <2> QED
    BY <2>3, <2>4
<1>5. SpentOnce
  <2> SUFFICES ASSUME NEW i \in CodeRows PROVE otp[i].uses <= Cardinality(Requests) * (1 + lost)
    BY DEF SpentOnce
  <2> DEFINE n == Cardinality(Requests)
             u == otp[i].uses
             h == Cardinality(Holders(i))
  <2>1. u \in Nat /\ otp[i].live \in BOOLEAN
    BY <1>1 DEF OtpRows
  <2>2. /\ otp[i].live => u <= lost
        /\ ~otp[i].live => u + h <= n + lost
    BY DEF CodesInv, UsesAhead
  <2>3. n \in Nat /\ n >= 1 /\ h \in Nat
    BY <1>2
  <2> HIDE DEF n, u, h
  <2>4. u <= n + lost
    BY <1>1, <2>1, <2>2, <2>3
  <2>5. n + lost <= n * (1 + lost)
    <3>1. n * (1 + lost) = n + n * lost /\ n * lost \in Nat
      BY <1>1, <2>3
    <3>2. lost <= n * lost
      BY <1>1, <2>3
    <3> QED
      BY <1>1, <2>3, <3>1, <3>2
  <2>6. n * (1 + lost) \in Nat
    BY <1>1, <2>3
  <2>7. u <= n * (1 + lost)
    BY <1>1, <2>1, <2>3, <2>4, <2>5, <2>6
  <2> QED
    BY <2>7 DEF u, n
<1> QED
  BY <1>3, <1>4, <1>5 DEF CodesHold
-----------------------------------------------------------------------------
(***************************************************************************)
(* The kinds of step: no code changes, one is sent, one ages, one is       *)
(* guessed wrong, one is spent.                                            *)
(***************************************************************************)
Resting(q) == Fitting(q) /\ q.pc \notin {"row", "compare"} \cup Opening
Replaced(o, k, otpRow) == [o EXCEPT ![k] = otpRow]
Pcs == {"idle", "repair", "reset", "change", "email", "admin"} \cup Proving \cup Opening

\* A request in flight fits, and so does one that is over.
LEMMA FittingRequests ==
    ASSUME AsksFit
    PROVE  /\ otp \in Seq(OtpRows) /\ Len(otp) \in Nat /\ lost \in Nat
           /\ \A i \in CodeRows : i \in 1..Len(otp) /\ i \in Nat /\ i \in 0..Len(otp) /\ otp[i] \in OtpRows
           /\ \A r \in Requests : Fitting(request[r]) /\ request[r] \in Asks
           /\ Resting(Idle)
<1>1. otp \in Seq(OtpRows) /\ lost \in 0..MaxLost /\ Len(otp) \in Nat
  BY DEF AsksFit
<1>2. \A r \in Requests : Fitting(request[r]) /\ request[r] \in Asks
  BY DEF AsksFit, Fitting
<1>3. Idle \in Asks
  BY DEF Idle, Asks
<1>4. Resting(Idle)
  BY <1>1, <1>3 DEF Idle, Resting, Fitting, AskFits, Registers, Opening, Joining, Proving
<1>5. \A i \in CodeRows : i \in 1..Len(otp) /\ i \in Nat /\ i \in 0..Len(otp) /\ otp[i] \in OtpRows
  BY <1>1 DEF CodeRows
<1> QED
  BY <1>1, <1>2, <1>4, <1>5, LostIsNatural

\* A request that goes on keeps everything but its place.
LEMMA GoingOn ==
    ASSUME AsksFit, NEW r \in Requests, NEW p \in Pcs,
           NEW q, q = [request[r] EXCEPT !.pc = p]
    PROVE  /\ q \in Asks /\ q.pc = p /\ q.row = request[r].row /\ q.row \in 0..Len(otp)
           /\ q.target = request[r].target /\ q.extra = request[r].extra /\ q.next = request[r].next
           /\ q.consume = request[r].consume /\ q.who = request[r].who /\ q.kind = request[r].kind
<1>1. request[r] \in Asks /\ request[r].row \in 0..Len(otp)
  BY DEF AsksFit
<1> QED
  BY <1>1 DEF Asks, Pcs

\* A step that changes no code row.
LEMMA QuietKeepsCodes ==
    ASSUME CodesInv, NEW r \in Requests, NEW q, Moved(r, q), Fitting(q), otp' = otp, lost' = lost,
           \A t \in Targets : Guesses(q, t) => Guesses(request[r], t) \/ Guessed(otp, t) < MaxTargetAttempts,
           \A i \in CodeRows : HoldsRow(q, i) => HoldsRow(request[r], i) \/ otp[i].live
    PROVE  CodesInv'
<1>1. otp \in Seq(OtpRows) /\ Len(otp) \in Nat /\ lost \in Nat /\ lost \in 0..MaxLost
  BY FittingRequests DEF CodesInv, AsksFit
<1>2. AsksFit'
  BY <1>1, MovedFits DEF CodesInv
<1>3. GuessesAhead'
  <2>1. \A t \in Targets : Guessed(otp', t) <= Guessed(otp, t)
    BY <1>1, GuessedIsNatural
  <2> QED
    BY <1>1, <2>1, GuessesStayAhead DEF CodesInv
<1>4. UsesAhead'
  BY <1>1, UsesStayAhead DEF CodesInv, CodeRows
<1> QED
  BY <1>2, <1>3, <1>4 DEF CodesInv

\* A request that neither guesses nor holds a row leaves the codes alone.
LEMMA RestKeepsCodes ==
    ASSUME CodesInv, NEW r \in Requests, NEW q, Moved(r, q), Resting(q), otp' = otp, lost' = lost
    PROVE  CodesInv'
<1>1. Fitting(q) /\ \A t : ~Guesses(q, t) /\ ~HoldsRow(q, t)
  BY DEF Resting, Guesses, HoldsRow
<1> QED
  BY <1>1, QuietKeepsCodes

\* Nothing moves but what the codes do not see.
LEMMA StillKeepsCodes ==
    ASSUME CodesInv, otp' = otp, lost' = lost, request' = request
    PROVE  CodesInv'
<1>1. PICK r \in Requests : TRUE
  BY OneTimeCodesAssumption
<1>2. Moved(r, request[r]) /\ Fitting(request[r])
  <2>1. request = [request EXCEPT ![r] = request[r]]
    BY DEF CodesInv, AsksFit
  <2> QED
    BY <2>1, FittingRequests DEF Moved, CodesInv
<1> QED
  BY <1>1, <1>2, QuietKeepsCodes

\* A code is sent.
LEMMA SendKeepsCodes ==
    ASSUME CodesInv, NEW t \in Targets, NEW arrives \in BOOLEAN, SendCode(t, arrives),
           request' = request, lost' = lost
    PROVE  CodesInv'
<1>1. PICK r \in Requests : TRUE
  BY OneTimeCodesAssumption
<1>2. Moved(r, request[r]) /\ Fitting(request[r])
  <2>1. request = [request EXCEPT ![r] = request[r]]
    BY DEF CodesInv, AsksFit
  <2> QED
    BY <2>1, FittingRequests DEF Moved, CodesInv
<1> DEFINE otpRow == [target |-> t, attempts |-> 0, age |-> "fresh", live |-> TRUE,
                      arrived |-> arrives, uses |-> 0]
<1>3. otpRow \in OtpRows /\ otpRow.attempts = 0 /\ otpRow.live /\ otpRow.uses = 0
  BY DEF OtpRows
<1>4. otp' = Append(otp, otpRow)
  BY DEF SendCode
<1>5. otp \in Seq(OtpRows) /\ Len(otp) \in Nat /\ lost \in Nat /\ lost \in 0..MaxLost
  BY FittingRequests DEF CodesInv, AsksFit
<1> HIDE DEF otpRow
<1>6. /\ otp' \in Seq(OtpRows) /\ Len(otp') = Len(otp) + 1 /\ Len(otp') >= Len(otp)
      /\ \A i \in CodeRows : otp'[i] = otp[i]
      /\ \A i \in 1..Len(otp') : i \in CodeRows \/ otp'[i] = otpRow
  BY <1>3, <1>4, <1>5 DEF CodeRows
<1>7. AsksFit'
  BY <1>2, <1>5, <1>6, MovedFits DEF CodesInv
<1>8. GuessesAhead'
  <2>1. \A x \in Targets : Guessed(otp', x) <= Guessed(otp, x)
    BY <1>3, <1>4, <1>5, GuessedOnSend
  <2> QED
    BY <1>2, <1>6, <2>1, GuessesStayAhead DEF CodesInv
<1>9. UsesAhead'
  <2>1. ASSUME NEW i \in 1..Len(otp')
        PROVE  \/ i \in CodeRows /\ otp'[i].uses = otp[i].uses /\ otp'[i].live = otp[i].live
               \/ otp'[i].live /\ otp'[i].uses <= lost'
    <3>1. CASE i \in CodeRows
      BY <1>6, <3>1
    <3>2. CASE otp'[i] = otpRow
      BY <1>3, <1>5, <3>2
    <3> QED
      BY <1>6, <3>1, <3>2
  <2>2. lost' \in Nat /\ lost <= lost'
    BY <1>5
  <2>3. \A i \in 1..Len(otp') :
              \/ /\ i \in CodeRows /\ otp'[i].uses = otp[i].uses /\ otp'[i].live = otp[i].live
                 /\ HoldsRow(request[r], i) => HoldsRow(request[r], i) \/ otp[i].live
              \/ otp'[i].live /\ otp'[i].uses <= lost'
    BY <2>1
  <2> HIDE <2>1
  <2> QED
    BY <1>2, <1>6, <2>2, <2>3, UsesStayAhead DEF CodesInv
<1> QED
  BY <1>7, <1>8, <1>9 DEF CodesInv

\* A row's replacement by one with the same target and guesses, no more alive
\* and no younger.
LEMMA RowReplaced ==
    ASSUME NEW o \in Seq(OtpRows), NEW k \in 1..Len(o), NEW otpRow \in OtpRows,
           otpRow.target = o[k].target, otpRow.attempts = o[k].attempts,
           otpRow.live => o[k].live, otpRow.age # "old" => o[k].age # "old"
    PROVE  /\ Replaced(o, k, otpRow) \in Seq(OtpRows) /\ Len(Replaced(o, k, otpRow)) = Len(o)
           /\ Replaced(o, k, otpRow)[k] = otpRow
           /\ \A i \in 1..Len(o) : /\ Replaced(o, k, otpRow)[i].target = o[i].target
                                   /\ i # k => Replaced(o, k, otpRow)[i] = o[i]
           /\ \A t : Guessed(Replaced(o, k, otpRow), t) <= Guessed(o, t)
<1> DEFINE n == Replaced(o, k, otpRow)
<1>1. /\ n \in Seq(OtpRows) /\ Len(n) = Len(o) /\ n[k] = otpRow
      /\ \A i \in 1..Len(o) : n[i].target = o[i].target /\ (i # k => n[i] = o[i])
  BY DEF Replaced
<1> HIDE DEF n
<1>2. ASSUME NEW t PROVE Guessed(n, t) <= Guessed(o, t)
  <2>1. /\ WindowOf(n, t) \subseteq WindowOf(o, t)
        /\ \A i \in WindowOf(n, t) : n[i].attempts = o[i].attempts
    BY <1>1 DEF WindowOf
  <2> QED
    BY <1>1, <2>1, GuessedShrinks
<1> QED
  BY <1>1, <1>2 DEF n

\* A code grows older.
LEMMA AgeKeepsCodes ==
    ASSUME CodesInv, NEW k \in CodeRows, CodesAge(k)
    PROVE  CodesInv'
<1>1. PICK r \in Requests : TRUE
  BY OneTimeCodesAssumption
<1>2. Moved(r, request[r]) /\ Fitting(request[r]) /\ lost' = lost
  <2>1. request = [request EXCEPT ![r] = request[r]]
    BY DEF CodesInv, AsksFit
  <2> QED
    BY <2>1, FittingRequests DEF Moved, CodesInv, CodesAge
<1>3. /\ otp \in Seq(OtpRows) /\ Len(otp) \in Nat /\ lost \in Nat /\ lost \in 0..MaxLost
      /\ k \in 1..Len(otp) /\ otp[k] \in OtpRows
  BY FittingRequests DEF CodesInv, AsksFit
<1> DEFINE otpRow == [otp[k] EXCEPT !.age = Older(@)]
<1>4. /\ otpRow \in OtpRows /\ otpRow.target = otp[k].target /\ otpRow.attempts = otp[k].attempts
      /\ otpRow.live = otp[k].live /\ otpRow.uses = otp[k].uses /\ (otpRow.age # "old" => otp[k].age # "old")
  BY <1>3 DEF OtpRows, Older
<1>5. otp' = Replaced(otp, k, otpRow)
  BY DEF CodesAge, Replaced
<1> HIDE DEF otpRow
<1>6. /\ otp' \in Seq(OtpRows) /\ Len(otp') = Len(otp) /\ otp'[k] = otpRow
      /\ \A i \in 1..Len(otp) : otp'[i].target = otp[i].target /\ (i # k => otp'[i] = otp[i])
      /\ \A t : Guessed(otp', t) <= Guessed(otp, t)
  BY <1>3, <1>4, <1>5, RowReplaced
<1>7. AsksFit'
  BY <1>2, <1>3, <1>6, MovedFits DEF CodesInv, CodeRows
<1>8. GuessesAhead'
  BY <1>2, <1>6, GuessesStayAhead DEF CodesInv
<1>9. UsesAhead'
  <2>1. \A i \in 1..Len(otp') :
           /\ i \in CodeRows /\ otp'[i].uses = otp[i].uses /\ otp'[i].live = otp[i].live
           /\ HoldsRow(request[r], i) => HoldsRow(request[r], i) \/ otp[i].live
    BY <1>4, <1>6 DEF CodeRows
  <2>2. lost' \in Nat /\ lost <= lost'
    BY <1>2, <1>3
  <2> QED
    BY <1>2, <1>6, <2>1, <2>2, UsesStayAhead DEF CodesInv
<1> QED
  BY <1>7, <1>8, <1>9 DEF CodesInv

\* A wrong guess is counted, or not, and its request is over.
LEMMA WrongKeepsCodes ==
    ASSUME CodesInv, NEW r \in Requests, VerifyWrong(r)
    PROVE  CodesInv'
<1> DEFINE k == request[r].row
<1>1. /\ request[r].pc = "compare" /\ Moved(r, Idle)
      /\ Fitting(Idle) /\ \A t : ~Guesses(Idle, t) /\ ~HoldsRow(Idle, t)
  BY FittingRequests DEF VerifyWrong, Over, Goes, Moved, Resting, Guesses, HoldsRow, CodesInv
<1>2. /\ otp \in Seq(OtpRows) /\ Len(otp) \in Nat /\ lost \in Nat /\ lost \in 0..MaxLost
      /\ k \in 1..Len(otp) /\ otp[k].target = request[r].target /\ otp[k] \in OtpRows
  BY <1>1, FittingRequests DEF CodesInv, AsksFit, Fitting, Opening, CodeRows
<1>3. CASE UNCHANGED <<otp, lost>>
  BY <1>1, <1>3, QuietKeepsCodes
<1>4. CASE otp' = [otp EXCEPT ![k].attempts = @ + 1] /\ lost' = lost
  <2>1. /\ otp' \in Seq(OtpRows) /\ Len(otp') = Len(otp)
        /\ \A i \in 1..Len(otp) : /\ otp'[i].target = otp[i].target /\ otp'[i].live = otp[i].live
                                  /\ otp'[i].uses = otp[i].uses
        /\ \A t : /\ Guessed(otp', t) <= Guessed(otp, t) + 1
                  /\ t # otp[k].target => Guessed(otp', t) <= Guessed(otp, t)
    <3> HIDE DEF k
    <3>1. ASSUME NEW t
          PROVE  /\ otp' \in Seq(OtpRows) /\ Len(otp') = Len(otp)
                 /\ \A i \in 1..Len(otp) : /\ otp'[i].target = otp[i].target /\ otp'[i].live = otp[i].live
                                           /\ otp'[i].uses = otp[i].uses
                 /\ Guessed(otp', t) <= Guessed(otp, t) + 1
                 /\ t # otp[k].target => Guessed(otp', t) <= Guessed(otp, t)
      <4>1. otp' = Wronged(otp, k)
        BY <1>4 DEF Wronged
      <4> QED
        BY <1>2, <4>1, GuessedOnWrong
    <3> QED
      BY <3>1
  <2>2. AsksFit'
    BY <1>1, <1>2, <1>4, <2>1, MovedFits, SMTT(20) DEF CodesInv, CodeRows
  <2>3. GuessesAhead'
    <3>1. \A t : t = otp[k].target => Guesses(request[r], t)
      BY <1>1, <1>2 DEF Guesses
    <3>2. \A t \in Targets :
              \/ /\ Guessed(otp', t) <= Guessed(otp, t)
                 /\ Guesses(Idle, t) => Guesses(request[r], t) \/ Guessed(otp, t) < MaxTargetAttempts
              \/ /\ Guessed(otp', t) <= Guessed(otp, t) + 1
                 /\ Guesses(request[r], t) /\ ~Guesses(Idle, t)
      BY <1>1, <2>1, <3>1
    <3> QED
      BY <1>1, <2>1, <3>2, GuessesStayAhead DEF CodesInv
  <2>4. UsesAhead'
    <3>1. \A i \in 1..Len(otp') :
             /\ i \in CodeRows /\ otp'[i].uses = otp[i].uses /\ otp'[i].live = otp[i].live
             /\ HoldsRow(Idle, i) => HoldsRow(request[r], i) \/ otp[i].live
      BY <1>1, <2>1 DEF CodeRows
    <3>2. lost' \in Nat /\ lost <= lost'
      BY <1>2, <1>4
    <3> QED
      BY <1>1, <2>1, <3>1, <3>2, UsesStayAhead DEF CodesInv
  <2> QED
    BY <2>2, <2>3, <2>4 DEF CodesInv
<1>5. CASE lost < MaxLost /\ lost' = lost + 1 /\ otp' = otp
  <2>1. MaxLost \in Nat
    BY OneTimeCodesAssumption
  <2>2. lost' \in 0..MaxLost /\ lost' \in Nat /\ lost <= lost'
    BY <1>2, <1>5, <2>1
  <2>3. AsksFit'
    BY <1>1, <1>2, <1>5, <2>2, MovedFits DEF CodesInv
  <2>4. GuessesAhead'
    <3>1. \A t \in Targets : Guessed(otp', t) <= Guessed(otp, t)
      BY <1>2, <1>5, GuessedIsNatural
    <3> QED
      BY <1>1, <1>2, <1>5, <3>1, GuessesStayAhead DEF CodesInv
  <2>5. UsesAhead'
    BY <1>1, <1>2, <1>5, <2>2, UsesStayAhead DEF CodesInv, CodeRows
  <2> QED
    BY <2>3, <2>4, <2>5 DEF CodesInv
<1> QED
  BY <1>3, <1>4, <1>5 DEF VerifyWrong

\* A holder spends its row and comes to rest.
LEMMA SpendKeepsCodes ==
    ASSUME CodesInv, NEW r \in Requests, request[r].pc \in Opening, SpendCode(request[r].row),
           NEW q, Moved(r, q), Resting(q)
    PROVE  CodesInv'
<1> DEFINE k == request[r].row
<1>1. Fitting(q) /\ \A t : ~Guesses(q, t) /\ ~HoldsRow(q, t)
  BY DEF Resting, Guesses, HoldsRow
<1>2. /\ otp \in Seq(OtpRows) /\ Len(otp) \in Nat /\ lost \in Nat /\ lost \in 0..MaxLost
      /\ k \in 1..Len(otp) /\ otp[k] \in OtpRows /\ HoldsRow(request[r], k)
  BY FittingRequests DEF CodesInv, AsksFit, Fitting, CodeRows, HoldsRow
<1>3. PICK spend \in BOOLEAN : /\ otp' = [otp EXCEPT ![k] = Spent(@, spend)]
                               /\ spend => lost' = lost
                               /\ ~spend => lost < MaxLost /\ lost' = lost + 1
  BY DEF SpendCode
<1> DEFINE otpRow == Spent(otp[k], spend)
<1>4. /\ otpRow \in OtpRows /\ otpRow.target = otp[k].target /\ otpRow.attempts = otp[k].attempts
      /\ spend => ~otpRow.live
      /\ ~spend => otpRow.live = otp[k].live
      /\ otpRow.uses = otp[k].uses + 1 /\ otpRow.age = otp[k].age
  BY <1>2, SpentRow
<1>5. otp' = Replaced(otp, k, otpRow)
  BY <1>3 DEF Replaced
<1> HIDE DEF otpRow, k
<1>6. /\ otp' \in Seq(OtpRows) /\ Len(otp') = Len(otp) /\ otp'[k] = otpRow
      /\ \A i \in 1..Len(otp) : otp'[i].target = otp[i].target /\ (i # k => otp'[i] = otp[i])
      /\ \A t : Guessed(otp', t) <= Guessed(otp, t)
  BY <1>2, <1>4, <1>5, RowReplaced
<1>7. lost' \in 0..MaxLost /\ lost' \in Nat /\ lost <= lost'
  <2>1. MaxLost \in Nat
    BY OneTimeCodesAssumption
  <2> QED
    BY <1>2, <1>3, <2>1
<1>8. AsksFit'
  BY <1>1, <1>2, <1>6, <1>7, MovedFits DEF CodesInv, CodeRows
<1>9. GuessesAhead'
  BY <1>1, <1>6, GuessesStayAhead DEF CodesInv
<1>10. UsesAhead'
  <2>1. ASSUME NEW i \in 1..Len(otp')
        PROVE  \/ /\ i \in CodeRows /\ otp'[i].uses = otp[i].uses /\ otp'[i].live = otp[i].live
                  /\ HoldsRow(q, i) => HoldsRow(request[r], i) \/ otp[i].live
               \/ otp'[i].live /\ otp'[i].uses <= lost'
               \/ /\ i \in CodeRows /\ ~otp'[i].live /\ otp'[i].uses = otp[i].uses + 1
                  /\ HoldsRow(request[r], i) /\ ~HoldsRow(q, i)
    <3>1. i \in CodeRows
      BY <1>6 DEF CodeRows
    <3>2. CASE i # k
      BY <1>1, <1>6, <3>1, <3>2 DEF CodeRows
    <3>3. CASE i = k /\ ~otpRow.live
      BY <1>1, <1>2, <1>4, <1>6, <3>1, <3>3
    <3>4. CASE i = k /\ otpRow.live
      <4>1. otp[k].live /\ ~spend
        BY <1>4, <3>4
      <4>2. otp[k].uses <= lost /\ otp[k].uses \in Nat
        BY <1>2, <3>1, <3>4, <4>1 DEF CodesInv, UsesAhead, OtpRows
      <4>3. lost' = lost + 1
        BY <1>3, <4>1
      <4>4. otpRow.uses <= lost'
        BY <1>2, <1>4, <4>2, <4>3
      <4> QED
        BY <1>6, <3>4, <4>4
    <3> QED
      BY <3>2, <3>3, <3>4
  <2> QED
    BY <1>1, <1>6, <1>7, <2>1, UsesStayAhead DEF CodesInv
<1> QED
  BY <1>8, <1>9, <1>10 DEF CodesInv

-----------------------------------------------------------------------------
(***************************************************************************)
(* What each action does to the codes.                                     *)
(***************************************************************************)
\* A request with nothing to do leaves the codes alone.
LEMMA OverKeepsCodes ==
    ASSUME CodesInv, NEW r \in Requests, Over(r), otp' = otp, lost' = lost
    PROVE  CodesInv'
<1>1. Moved(r, Idle) /\ Resting(Idle)
  BY FittingRequests DEF Over, Goes, Moved, CodesInv
<1> QED
  BY <1>1, RestKeepsCodes

\* A registration goes on with its row.
LEMMA JoinKeepsCodes ==
    ASSUME CodesInv, NEW r \in Requests, request[r].pc \in Joining \cup {"compare"}, Registers(request[r]),
           NEW q \in Asks, q.pc \in Joining \cup {"spend"}, q.row = request[r].row,
           q.target = request[r].target, q.extra = request[r].extra,
           Moved(r, q), otp' = otp, lost' = lost
    PROVE  CodesInv'
<1>1. AskFits(request[r]) /\ request[r].pc \in Opening /\ request[r].row \in CodeRows /\ request[r].row \in 0..Len(otp)
  BY FittingRequests DEF CodesInv, AsksFit, Fitting, Opening
<1>2. q.pc \in Opening /\ q.pc \notin Proving \cup {"reset", "change", "email", "admin", "repair", "row"}
  BY DEF Opening, Joining, Proving
<1>3. AskFits(q)
  BY <1>1, <1>2 DEF AskFits
<1>4. Fitting(q) /\ \A t : ~Guesses(q, t)
  BY <1>1, <1>2, <1>3 DEF Fitting, Guesses, Proving
<1>5. \A i : HoldsRow(q, i) => HoldsRow(request[r], i)
  BY <1>1 DEF HoldsRow
<1> QED
  BY <1>4, <1>5, QuietKeepsCodes

\* The window lets in those who may still guess.
LEMMA WindowKeepsCodes ==
    ASSUME CodesInv, NEW r \in Requests, VerifyWindow(r)
    PROVE  CodesInv'
<1>1. request[r].pc = "verify" /\ otp' = otp /\ lost' = lost
  BY DEF VerifyWindow
<1>2. CASE Over(r)
  BY <1>1, <1>2, OverKeepsCodes
<1>3. CASE WindowAttempts(request[r].target) < MaxTargetAttempts /\ Becomes(r, "row")
  <2> DEFINE q == [request[r] EXCEPT !.pc = "row"]
  <2>1. AsksFit /\ AskFits(request[r]) /\ otp \in Seq(OtpRows)
    BY FittingRequests DEF CodesInv, Fitting
  <2>2. /\ q \in Asks /\ q.pc = "row" /\ q.row \in 0..Len(otp)
        /\ q.target = request[r].target /\ q.extra = request[r].extra /\ q.next = request[r].next
        /\ q.consume = request[r].consume /\ q.who = request[r].who
    <3>1. "row" \in Pcs
      BY DEF Pcs, Proving
    <3> QED
      BY <2>1, <3>1, GoingOn
  <2>3. Moved(r, q)
    BY <1>3 DEF Becomes, Goes, Moved
  <2> HIDE DEF q
  <2>4. Fitting(q) /\ \A i : ~HoldsRow(q, i)
    BY <1>1, <2>1, <2>2 DEF Fitting, AskFits, Registers, Proving, Joining, Opening, HoldsRow
  <2>5. \A t : Guesses(q, t) => Guessed(otp, t) < MaxTargetAttempts
    BY <1>3, <2>1, <2>2, WindowIsSum DEF Guesses
  <2> QED
    BY <1>1, <2>3, <2>4, <2>5, QuietKeepsCodes
<1>4. WindowAttempts(request[r].target) < MaxTargetAttempts \/ WindowAttempts(request[r].target) >= MaxTargetAttempts
  <2>1. otp \in Seq(OtpRows)
    BY FittingRequests DEF CodesInv
  <2>2. WindowAttempts(request[r].target) \in Nat
    BY <2>1, WindowIsSum, GuessedIsNatural
  <2>3. MaxTargetAttempts \in Nat
    BY OneTimeCodesAssumption
  <2> QED
    BY <2>2, <2>3
<1>5. Over(r) \/ (WindowAttempts(request[r].target) < MaxTargetAttempts /\ Becomes(r, "row"))
  BY <1>4 DEF VerifyWindow
<1> QED
  BY <1>2, <1>3, <1>5

\* The latest live row of the target is the one that is compared.
LEMMA RowKeepsCodes ==
    ASSUME CodesInv, NEW r \in Requests, VerifyRow(r)
    PROVE  CodesInv'
<1> DEFINE rows == {i \in CodeRows : otp[i].target = request[r].target /\ otp[i].live}
           k == Max(rows)
           q == [request[r] EXCEPT !.pc = "compare", !.row = k]
<1>1. request[r].pc = "row" /\ otp' = otp /\ lost' = lost
  BY DEF VerifyRow
<1>2. Over(r) \/ (rows # {} /\ Moved(r, q))
  BY DEF VerifyRow, Goes, Moved
<1>3. CASE Over(r)
  BY <1>1, <1>3, OverKeepsCodes
<1>4. CASE rows # {} /\ Moved(r, q)
  <2>1. AsksFit /\ AskFits(request[r]) /\ request[r] \in Asks /\ Len(otp) \in Nat
    BY FittingRequests DEF CodesInv, Fitting
  <2>2. k \in rows
    <3>1. rows \subseteq 1..Len(otp)
      BY DEF CodeRows
    <3> HIDE DEF rows
    <3> QED
      BY <1>4, <2>1, <3>1, LatestRow
  <2>3. k \in CodeRows /\ k \in Nat /\ k \in 0..Len(otp) /\ otp[k].target = request[r].target /\ otp[k].live
    BY <2>1, <2>2, FittingRequests
  <2> HIDE DEF k
  <2>4. /\ q \in Asks /\ q.pc = "compare" /\ q.row = k
        /\ q.target = request[r].target /\ q.extra = request[r].extra /\ q.next = request[r].next
        /\ q.consume = request[r].consume /\ q.who = request[r].who
    BY <2>1, <2>3 DEF Asks, Proving
  <2> HIDE DEF q, rows
  <2>5. AskFits(q)
    BY <1>1, <2>1, <2>4 DEF AskFits, Registers, Proving, Joining
  <2>6. Fitting(q)
    BY <2>3, <2>4, <2>5 DEF Fitting
  <2>7. \A t : Guesses(q, t) => Guesses(request[r], t)
    BY <1>1, <2>4 DEF Guesses
  <2>8. \A i : HoldsRow(q, i) => otp[i].live
    BY <2>3, <2>4 DEF HoldsRow
  <2> QED
    BY <1>1, <1>4, <2>6, <2>7, <2>8, QuietKeepsCodes
<1> QED
  BY <1>2, <1>3, <1>4

\* The right code is spent at once, or held by a registration.
LEMMA RightKeepsCodes ==
    ASSUME CodesInv, NEW r \in Requests, VerifyRight(r)
    PROVE  CodesInv'
<1> DEFINE q == [request[r] EXCEPT !.pc = request[r].next]
<1>1. /\ request[r].pc = "compare" /\ AsksFit /\ AskFits(request[r]) /\ request[r] \in Asks
      /\ request[r].next \in {"end", "existing", "reset", "change"}
      /\ request[r].consume <=> request[r].next # "existing"
      /\ request[r].pc \in Opening
  BY FittingRequests DEF CodesInv, Fitting, VerifyRight, AskFits, Asks, Proving, Opening
<1>2. \/ ~request[r].consume /\ otp' = otp /\ lost' = lost
      \/ request[r].consume /\ SpendCode(request[r].row)
  BY DEF VerifyRight
<1>3. IF request[r].next = "end" THEN Over(r) ELSE Becomes(r, request[r].next)
  BY DEF VerifyRight
<1>4. request[r].next # "end" =>
         /\ q \in Asks /\ q.pc = request[r].next /\ q.row = request[r].row /\ q.row \in 0..Len(otp)
         /\ q.target = request[r].target /\ q.extra = request[r].extra /\ q.who = request[r].who
         /\ Moved(r, q)
  <2> SUFFICES ASSUME request[r].next # "end"
               PROVE  /\ q \in Asks /\ q.pc = request[r].next /\ q.row = request[r].row /\ q.row \in 0..Len(otp)
                      /\ q.target = request[r].target /\ q.extra = request[r].extra /\ q.who = request[r].who
                      /\ Moved(r, q)
    OBVIOUS
  <2>1. Moved(r, q)
    BY <1>3 DEF Becomes, Goes, Moved
  <2>2. request[r].next \in Pcs
    BY <1>1 DEF Pcs, Opening, Joining
  <2> QED
    BY <1>1, <2>1, <2>2, GoingOn
<1> HIDE DEF q
<1>5. CASE request[r].next = "existing"
  <2>1. otp' = otp /\ lost' = lost /\ Registers(request[r])
    BY <1>1, <1>2, <1>5 DEF Registers, Proving
  <2>2. /\ q \in Asks /\ q.pc = "existing" /\ q.row = request[r].row
        /\ q.target = request[r].target /\ q.extra = request[r].extra /\ Moved(r, q)
    BY <1>4, <1>5
  <2> QED
    BY <1>1, <2>1, <2>2, JoinKeepsCodes DEF Joining
<1>6. CASE request[r].next = "end"
  <2>1. SpendCode(request[r].row) /\ Moved(r, Idle) /\ Resting(Idle)
    BY <1>1, <1>2, <1>3, <1>6, FittingRequests DEF Over, Goes, Moved
  <2> QED
    BY <1>1, <2>1, SpendKeepsCodes
<1>7. CASE request[r].next \in {"reset", "change"}
  <2>1. SpendCode(request[r].row) /\ Moved(r, q) /\ q \in Asks /\ q.pc = request[r].next
        /\ q.row \in 0..Len(otp) /\ q.target = request[r].target /\ q.who = request[r].who
    BY <1>1, <1>2, <1>4, <1>7
  <2>2. request[r].who \in Users /\ request[r].target \in Targets
    BY <1>1, <1>7 DEF AskFits, Proving
  <2>3. Resting(q)
    BY <1>7, <2>1, <2>2 DEF Resting, Fitting, AskFits, Registers, Proving, Joining, Opening
  <2> QED
    BY <1>1, <2>1, <2>3, SpendKeepsCodes
<1> QED
  BY <1>1, <1>5, <1>6, <1>7

\* A verification starts with a code of the target, or a wrong one.
LEMMA StartsRest ==
    ASSUME AsksFit, NEW t \in Targets, NEW c \in Typed(t), NEW q \in Asks,
           q.pc = "verify", q.target = t, q.row = 0,
           q.consume <=> q.next # "existing",
           q.next = "existing" => \/ t \in Phones /\ q.extra \in Emails \cup {NoTarget}
                                  \/ t \in Emails /\ q.extra \in Phones,
           q.next \in {"reset", "change"} => q.who \in Users
    PROVE  Resting(q)
<1>1. q.row \in 0..Len(otp)
  BY FittingRequests
<1> QED
  BY <1>1 DEF Resting, Fitting, AskFits, Registers, Proving, Joining, Opening

\* What a caller types is a natural.
LEMMA TypedIsNatural == ASSUME AsksFit, NEW t, NEW c \in Typed(t) PROVE c \in Nat
  BY FittingRequests DEF Typed

\* The plain endpoint.
LEMMA EndpointKeepsCodes ==
    ASSUME CodesInv, NEW r \in Requests, NEW t \in Targets, VerifyEndpoint(r, t)
    PROVE  CodesInv'
<1>1. PICK c \in Typed(t) : Goes(r, [Idle EXCEPT !.pc = "verify", !.target = t, !.code = c])
  BY DEF VerifyEndpoint
<1> DEFINE q == [Idle EXCEPT !.pc = "verify", !.target = t, !.code = c]
<1>2. AsksFit /\ c \in Nat /\ Moved(r, q) /\ otp' = otp /\ lost' = lost
  BY <1>1, TypedIsNatural DEF CodesInv, VerifyEndpoint, Goes, Moved
<1>3. q \in Asks /\ q.pc = "verify" /\ q.target = t /\ q.row = 0 /\ q.consume /\ q.next = "end"
  BY <1>2 DEF Idle, Asks, Proving
<1> HIDE DEF q
<1>4. Resting(q)
  BY <1>2, <1>3, StartsRest
<1> QED
  BY <1>2, <1>4, RestKeepsCodes

\* A registration starts.
LEMMA RegisterKeepsCodes ==
    ASSUME CodesInv, NEW r \in Requests, NEW phone \in Phones, NEW email \in Emails \cup {NoTarget},
           NEW channel \in {"phone", "email"}, Register(r, phone, email, channel)
    PROVE  CodesInv'
<1> DEFINE t == IF channel = "email" THEN email ELSE phone
           x == IF channel = "email" THEN phone ELSE email
<1>1. /\ t \in Targets /\ x \in Targets \cup {NoTarget}
      /\ \/ t \in Phones /\ x \in Emails \cup {NoTarget}
         \/ t \in Emails /\ x \in Phones
  <2>1. CASE channel = "email"
    <3>1. email \in Emails
      BY <2>1 DEF Register
    <3>2. t = email /\ x = phone
      BY <2>1
    <3> QED
      BY <3>1, <3>2 DEF Targets
  <2>2. CASE channel # "email"
    <3>1. t = phone /\ x = email
      BY <2>2
    <3> QED
      BY <3>1 DEF Targets
  <2> QED
    BY <2>1, <2>2
<1>2. PICK c \in Typed(t) :
        Goes(r, [Idle EXCEPT !.pc = "verify", !.target = t, !.code = c, !.consume = FALSE, !.kind = "register",
                             !.next = "existing", !.extra = x])
  BY DEF Register
<1> DEFINE q == [Idle EXCEPT !.pc = "verify", !.target = t, !.code = c, !.consume = FALSE, !.kind = "register",
                             !.next = "existing", !.extra = x]
<1>3. AsksFit /\ c \in Nat /\ Moved(r, q) /\ otp' = otp /\ lost' = lost
  <2> HIDE DEF t, x
  <2> QED
    BY <1>2, TypedIsNatural DEF CodesInv, Register, Goes, Moved
<1> HIDE DEF t, x
<1>4. /\ q \in Asks /\ q.pc = "verify" /\ q.target = t /\ q.row = 0 /\ ~q.consume /\ q.next = "existing"
      /\ q.extra = x
  BY <1>1, <1>3 DEF Idle, Asks, Proving
<1> HIDE DEF q
<1>5. Resting(q)
  BY <1>1, <1>3, <1>4, StartsRest
<1> QED
  BY <1>3, <1>5, RestKeepsCodes

\* A reset of a password, and a change of contact, start.
LEMMA OwnVerifyKeepsCodes ==
    ASSUME CodesInv, NEW r \in Requests, NEW u \in Users, NEW t \in Targets,
           ResetPassword(r, t, u) \/ ChangeContact(r, u, t)
    PROVE  CodesInv'
<1>1. PICK next \in {"reset", "change"}, c \in Typed(t) :
        Goes(r, [Idle EXCEPT !.pc = "verify", !.target = t, !.code = c, !.next = next, !.who = u])
  BY DEF ResetPassword, ChangeContact
<1> DEFINE q == [Idle EXCEPT !.pc = "verify", !.target = t, !.code = c, !.next = next, !.who = u]
<1>2. AsksFit /\ c \in Nat /\ Moved(r, q) /\ otp' = otp /\ lost' = lost
  BY <1>1, TypedIsNatural DEF CodesInv, ResetPassword, ChangeContact, Goes, Moved
<1>3. /\ q \in Asks /\ q.pc = "verify" /\ q.target = t /\ q.row = 0 /\ q.consume /\ q.next = next
      /\ q.who = u
  BY <1>2 DEF Idle, Asks, Proving
<1> HIDE DEF q
<1>4. Resting(q)
  BY <1>2, <1>3, StartsRest
<1> QED
  BY <1>2, <1>4, RestKeepsCodes

\* A registration on its way to the insert, and after it.
LEMMA JoiningKeepsCodes ==
    ASSUME CodesInv, NEW r \in Requests,
           \/ RegisterExisting(r) \/ RegisterGate(r) \/ RegisterConflict(r) \/ RegisterSpends(r)
           \/ \E u \in Users : RegisterInsert(r, u)
    PROVE  CodesInv'
<1>1. /\ AsksFit /\ request[r] \in Asks
      /\ \A p \in Joining \cup {"spend"} : p \in Pcs
  BY FittingRequests DEF CodesInv, Pcs, Opening
<1>2. ASSUME otp' = otp, lost' = lost, request[r].pc \in Joining,
             NEW p \in Joining \cup {"spend"}, Becomes(r, p)
      PROVE  CodesInv'
  <2> DEFINE q == [request[r] EXCEPT !.pc = p]
  <2>1. /\ q \in Asks /\ q.pc = p /\ q.row = request[r].row
        /\ q.target = request[r].target /\ q.extra = request[r].extra
    BY <1>1, GoingOn
  <2>2. Moved(r, q) /\ Registers(request[r])
    BY <1>2 DEF Becomes, Goes, Moved, Registers
  <2> HIDE DEF q
  <2> QED
    BY <1>2, <2>1, <2>2, JoinKeepsCodes
<1>3. ASSUME SpendCode(request[r].row), Over(r), request[r].pc \in Opening PROVE CodesInv'
  <2>1. Moved(r, Idle) /\ Resting(Idle)
    BY <1>1, <1>3, FittingRequests DEF Over, Goes, Moved
  <2> QED
    BY <1>3, <2>1, SpendKeepsCodes
<1>4. CASE RegisterExisting(r)
  <2>1. request[r].pc \in Joining /\ request[r].pc \in Opening
    BY <1>4 DEF RegisterExisting, Joining, Opening
  <2>2. \/ SpendCode(request[r].row) /\ Over(r)
        \/ Becomes(r, "gate") /\ otp' = otp /\ lost' = lost
    BY <1>4 DEF RegisterExisting
  <2> QED
    BY <1>2, <1>3, <2>1, <2>2 DEF Joining
<1>5. CASE RegisterGate(r)
  <2>1. request[r].pc \in Joining /\ otp' = otp /\ lost' = lost
    BY <1>5 DEF RegisterGate, Joining
  <2>2. \/ Becomes(r, "conflict")
        \/ Goes(r, [request[r] EXCEPT !.pc = "conflict", !.flag = TRUE])
        \/ Over(r)
    BY <1>5 DEF RegisterGate, Becomes
  <2>3. CASE Goes(r, [request[r] EXCEPT !.pc = "conflict", !.flag = TRUE])
    <3> DEFINE q == [request[r] EXCEPT !.pc = "conflict", !.flag = TRUE]
    <3>1. /\ q \in Asks /\ q.pc = "conflict" /\ q.row = request[r].row
          /\ q.target = request[r].target /\ q.extra = request[r].extra
      BY <1>1 DEF Asks, Opening, Joining
    <3>2. Moved(r, q) /\ Registers(request[r])
      BY <2>1, <2>3 DEF Goes, Moved, Registers
    <3> HIDE DEF q
    <3> QED
      BY <2>1, <3>1, <3>2, JoinKeepsCodes DEF Joining
  <2>4. CASE Becomes(r, "conflict")
    BY <1>2, <2>1, <2>4 DEF Joining
  <2>5. CASE Over(r)
    BY <2>1, <2>5, OverKeepsCodes
  <2> QED
    BY <2>2, <2>3, <2>4, <2>5
<1>6. CASE RegisterConflict(r)
  <2>1. request[r].pc \in Joining /\ otp' = otp /\ lost' = lost
    BY <1>6 DEF RegisterConflict, Joining
  <2>2. Over(r) \/ Becomes(r, "insert")
    BY <1>6 DEF RegisterConflict
  <2> QED
    BY <1>2, <2>1, <2>2, OverKeepsCodes DEF Joining
<1>7. CASE RegisterSpends(r)
  BY <1>3, <1>7 DEF RegisterSpends, Opening
<1>8. CASE \E u \in Users : RegisterInsert(r, u)
  <2>1. request[r].pc \in Joining /\ otp' = otp /\ lost' = lost
    BY <1>8 DEF RegisterInsert, Joining
  <2>2. Over(r) \/ Becomes(r, "spend")
    BY <1>8 DEF RegisterInsert
  <2> QED
    BY <1>2, <2>1, <2>2, OverKeepsCodes
<1> QED
  BY <1>4, <1>5, <1>6, <1>7, <1>8

\* Requests about an account, and their writes, leave the codes alone.
LEMMA OthersKeepCodes ==
    ASSUME CodesInv, PeopleFit, NEW r \in Requests,
           \/ RepairPhone(r) \/ ResetWrites(r) \/ ChangeWrites(r) \/ UpdateEmailWrites(r) \/ AdminWrites(r)
           \/ \E u \in Users :
                 \/ Login(r, u) \/ \E t \in Emails : UpdateEmail(r, u, t)
                 \/ \E kind \in Decrees, by \in Users : AdminRequest(r, kind, by, u)
    PROVE  CodesInv'
<1>1. AsksFit /\ 0 \in 0..Len(otp)
  BY FittingRequests DEF CodesInv
<1>2. CASE RepairPhone(r) \/ ResetWrites(r) \/ ChangeWrites(r) \/ UpdateEmailWrites(r) \/ AdminWrites(r)
  <2>1. Over(r) /\ otp' = otp /\ lost' = lost
    BY <1>2 DEF RepairPhone, ResetWrites, ChangeWrites, UpdateEmailWrites, AdminWrites
  <2> QED
    BY <2>1, OverKeepsCodes
<1>3. CASE \E u \in Users : Login(r, u)
  <2> PICK u \in Users : Login(r, u)
    BY <1>3
  <2>1. otp' = otp /\ lost' = lost
    BY DEF Login
  <2>2. CASE account[u].canonical
    BY <2>1, <2>2, StillKeepsCodes DEF Login
  <2>3. CASE ~account[u].canonical
    <3> DEFINE q == [Idle EXCEPT !.pc = "repair", !.who = u, !.target = account[u].phone]
    <3>1. u \in Legacy /\ account[u].phone \in Phones \cup {NoTarget}
      BY <2>3 DEF PeopleFit, AccountRows
    <3>2. Moved(r, q)
      BY <2>3 DEF Login, Goes, Moved
    <3>3. q \in Asks /\ q.pc = "repair" /\ q.who = u /\ q.row = 0 /\ q.target = account[u].phone
      BY <3>1 DEF Idle, Asks, Targets
    <3> HIDE DEF q
    <3>4. Resting(q)
      BY <1>1, <3>1, <3>3 DEF Resting, Fitting, AskFits, Registers, Proving, Joining, Opening
    <3> QED
      BY <2>1, <3>2, <3>4, RestKeepsCodes
  <2> QED
    BY <2>2, <2>3
<1>4. CASE \E u \in Users, t \in Emails : UpdateEmail(r, u, t)
  <2> PICK u \in Users, t \in Emails : UpdateEmail(r, u, t)
    BY <1>4
  <2> DEFINE f == account[u].email # t
             q == [Idle EXCEPT !.pc = "email", !.target = t, !.who = u, !.flag = f]
  <2>1. otp' = otp /\ lost' = lost /\ Moved(r, q) /\ f \in BOOLEAN
    BY DEF UpdateEmail, Goes, Moved
  <2> HIDE DEF f
  <2>2. q \in Asks /\ q.pc = "email" /\ q.who = u /\ q.target = t /\ q.row = 0
    BY <2>1 DEF Idle, Asks, Targets
  <2> HIDE DEF q
  <2>3. Resting(q)
    BY <1>1, <2>2 DEF Resting, Fitting, AskFits, Registers, Proving, Joining, Opening
  <2> QED
    BY <2>1, <2>3, RestKeepsCodes
<1>5. CASE \E u \in Users, kind \in Decrees, by \in Users : AdminRequest(r, kind, by, u)
  <2> PICK u \in Users, kind \in Decrees, by \in Users : AdminRequest(r, kind, by, u)
    BY <1>5
  <2> DEFINE q == [Idle EXCEPT !.pc = "admin", !.kind = kind, !.who = u]
  <2>1. otp' = otp /\ lost' = lost /\ Moved(r, q)
    BY DEF AdminRequest, Goes, Moved
  <2>2. q \in Asks /\ q.pc = "admin" /\ q.who = u /\ q.kind = kind /\ q.row = 0
    BY DEF Idle, Asks
  <2> HIDE DEF q
  <2>3. Resting(q)
    BY <1>1, <2>2 DEF Resting, Fitting, AskFits, Registers, Proving, Joining, Opening
  <2> QED
    BY <2>1, <2>3, RestKeepsCodes
<1> QED
  BY <1>2, <1>3, <1>4, <1>5

\* Every step keeps the invariant of the codes.
LEMMA StepKeepsCodes == CodesInv /\ PeopleFit /\ [AccountsNext]_accountVars => CodesInv'
<1> SUFFICES ASSUME CodesInv, PeopleFit, [AccountsNext]_accountVars PROVE CodesInv'
  OBVIOUS
<1>1. CASE CodesNext
  <2>1. ASSUME NEW t \in Targets, NEW arrives \in BOOLEAN, Send(t, arrives) PROVE CodesInv'
    BY <2>1, SendKeepsCodes DEF Send
  <2>2. ASSUME NEW r \in Requests, VerifyNext(r) PROVE CodesInv'
    BY <2>2, WindowKeepsCodes, RowKeepsCodes, WrongKeepsCodes, RightKeepsCodes DEF VerifyNext
  <2> QED
    BY <1>1, <2>1, <2>2, AgeKeepsCodes, EndpointKeepsCodes DEF CodesNext
<1>2. CASE SetCodeDisabled \/ \E u \in Users : ClearEmail(u)
  <2>1. otp' = otp /\ lost' = lost /\ request' = request
    BY <1>2 DEF SetCodeDisabled, ClearEmail, codeVars
  <2> QED
    BY <2>1, StillKeepsCodes
<1>3. CASE \E t \in Targets : ForgotPassword(t) \/ \E u \in Users : ChangeStart(u, t)
  <2>1. PICK t \in Targets, arrives \in BOOLEAN : SendCode(t, arrives) /\ request' = request /\ lost' = lost
    BY <1>3 DEF ForgotPassword, ChangeStart
  <2> QED
    BY <2>1, SendKeepsCodes
<1>4. ASSUME NEW r \in Requests,
             \/ \E p \in Phones, e \in Emails \cup {NoTarget}, c \in {"phone", "email"} : Register(r, p, e, c)
             \/ RegisterExisting(r) \/ RegisterGate(r) \/ RegisterConflict(r) \/ RegisterSpends(r)
             \/ RepairPhone(r) \/ ResetWrites(r) \/ ChangeWrites(r) \/ UpdateEmailWrites(r) \/ AdminWrites(r)
             \/ \E u \in Users :
                   \/ RegisterInsert(r, u) \/ Login(r, u)
                   \/ \E t \in Targets : ResetPassword(r, t, u) \/ ChangeContact(r, u, t)
                   \/ \E t \in Emails : UpdateEmail(r, u, t)
                   \/ \E kind \in Decrees, by \in Users : AdminRequest(r, kind, by, u)
      PROVE  CodesInv'
  BY <1>4, RegisterKeepsCodes, JoiningKeepsCodes, OthersKeepCodes, OwnVerifyKeepsCodes
<1>5. CASE UNCHANGED accountVars
  BY <1>5, StillKeepsCodes DEF accountVars, codeVars
<1> QED
  BY <1>1, <1>2, <1>3, <1>4, <1>5 DEF AccountsNext, Decrees

-----------------------------------------------------------------------------
(***************************************************************************)
(* What each action does to the accounts.                                  *)
(***************************************************************************)
PeopleInv == PeopleFit /\ BetaSlotsHold /\ VerifiedWasProven

\* One account is written: it goes on existing, and what is verified is proven.
\* A use of the beta code comes with the account it admits.
LEMMA WriteKeepsPeople ==
    ASSUME PeopleInv, NEW u \in Users, NEW a \in AccountRows, Writes(u, a),
           account[u].exists => a.exists,
           ~a.canonical => u \in Legacy,
           proven \subseteq proven', proven' \subseteq Users \X Targets,
           u \notin Legacy => /\ a.phoneVerified => <<u, a.phone>> \in proven'
                              /\ a.emailVerified => \E t \in Emails : <<u, t>> \in proven',
           betaOff' = betaOff,
           \/ betaUsed' = betaUsed /\ redeemed' = redeemed
           \/ /\ betaUsed' = betaUsed + 1 /\ redeemed' = redeemed \cup {u}
              /\ betaUsed < MaxUses /\ ~account[u].exists /\ a.exists
    PROVE  PeopleInv'
<1>1. /\ account \in [Users -> AccountRows] /\ account' \in [Users -> AccountRows] /\ account'[u] = a
      /\ \A v \in Users : v # u => account'[v] = account[v]
  BY DEF PeopleInv, PeopleFit, Writes
<1>2. /\ IsFiniteSet(redeemed) /\ redeemed \subseteq Users /\ \A v \in redeemed : account[v].exists
      /\ betaUsed = Cardinality(redeemed) /\ betaUsed <= MaxUses /\ betaUsed \in Nat
  BY FS_CardinalityType DEF PeopleInv, PeopleFit, BetaSlotsHold
<1>3. /\ IsFiniteSet(redeemed') /\ redeemed' \subseteq Users
      /\ \A v \in redeemed' : account'[v].exists
      /\ betaUsed' = Cardinality(redeemed') /\ betaUsed' <= MaxUses
  <2>1. CASE betaUsed' = betaUsed /\ redeemed' = redeemed
    BY <1>1, <1>2, <2>1
  <2>2. CASE /\ betaUsed' = betaUsed + 1 /\ redeemed' = redeemed \cup {u}
             /\ betaUsed < MaxUses /\ ~account[u].exists /\ a.exists
    <3>1. u \notin redeemed
      BY <1>2, <2>2
    <3>2. IsFiniteSet(redeemed \cup {u}) /\ Cardinality(redeemed \cup {u}) = Cardinality(redeemed) + 1
      BY <1>2, <3>1, FS_AddElement
    <3>3. betaUsed' <= MaxUses
      <4>1. MaxUses \in Nat
        BY AccountsAssumption
      <4> QED
        BY <1>2, <2>2, <4>1
    <3> QED
      BY <1>1, <1>2, <2>2, <3>2, <3>3
  <2> QED
    BY <2>1, <2>2
<1>4. \A v \in Users : ~account'[v].canonical => v \in Legacy
  BY <1>1 DEF PeopleInv, PeopleFit
<1>5. ASSUME NEW v \in Users \ Legacy
      PROVE  /\ account'[v].phoneVerified => <<v, account'[v].phone>> \in proven'
             /\ account'[v].emailVerified => \E t \in Emails : <<v, t>> \in proven'
  <2>1. CASE v = u
    BY <1>1, <2>1
  <2>2. CASE v # u
    <3>1. account'[v] = account[v]
      BY <1>1, <2>2
    <3>2. /\ account[v].phoneVerified => <<v, account[v].phone>> \in proven
          /\ account[v].emailVerified => \E t \in Emails : <<v, t>> \in proven
      BY DEF PeopleInv, VerifiedWasProven
    <3> QED
      BY <3>1, <3>2
  <2> QED
    BY <2>1, <2>2
<1>6. PeopleFit'
  <2>1. betaOff' \in BOOLEAN
    BY DEF PeopleInv, PeopleFit
  <2> QED
    BY <1>1, <1>3, <1>4, <2>1 DEF PeopleFit
<1>7. BetaSlotsHold'
  BY <1>3 DEF BetaSlotsHold
<1>8. VerifiedWasProven'
  BY <1>5 DEF VerifiedWasProven
<1> QED
  BY <1>6, <1>7, <1>8 DEF PeopleInv

\* What the accounts do not see.
LEMMA StillKeepsPeople ==
    ASSUME PeopleInv, account' = account, betaUsed' = betaUsed, betaOff' \in BOOLEAN, redeemed' = redeemed, proven' = proven
    PROVE  PeopleInv'
<1>1. PeopleFit'
  BY DEF PeopleInv, PeopleFit
<1>2. BetaSlotsHold'
  BY DEF PeopleInv, BetaSlotsHold
<1>3. VerifiedWasProven'
  BY DEF PeopleInv, VerifiedWasProven
<1> QED
  BY <1>1, <1>2, <1>3 DEF PeopleInv

\* A write that proves nothing and admits nobody.
LEMMA PlainWriteKeepsPeople ==
    ASSUME PeopleInv, NEW u \in Users, NEW a \in AccountRows, Writes(u, a),
           account[u].exists => a.exists,
           ~a.canonical => ~account[u].canonical,
           u \notin Legacy => /\ a.phoneVerified => account[u].phoneVerified /\ a.phone = account[u].phone
                              /\ a.emailVerified => account[u].emailVerified,
           UNCHANGED <<betaUsed, betaOff, redeemed, proven>>
    PROVE  PeopleInv'
<1>1. ~a.canonical => u \in Legacy
  BY DEF PeopleInv, PeopleFit
<1>2. u \notin Legacy => /\ a.phoneVerified => <<u, a.phone>> \in proven
                         /\ a.emailVerified => \E t \in Emails : <<u, t>> \in proven
  BY DEF PeopleInv, VerifiedWasProven
<1>3. proven \subseteq Users \X Targets
  BY DEF PeopleInv, PeopleFit
<1> QED
  BY <1>1, <1>2, <1>3, WriteKeepsPeople

\* The row as the insert makes it: the stamp is on the contact the code proved.
LEMMA InsertKeepsPeople ==
    ASSUME PeopleInv, AsksFit, NEW r \in Requests, NEW u \in Users, RegisterInsert(r, u)
    PROVE  PeopleInv'
<1> DEFINE q == request[r]
           contacts == {q.target, q.extra}
           free == \A t \in contacts \ {NoTarget} : ~Taken(t)
           number == CHOOSE t \in contacts : t \in Phones
           address == IF contacts \cap Emails = {} THEN NoTarget ELSE CHOOSE t \in contacts : t \in Emails
           byPhone == Stamp(q.target, "phone")
           byEmail == Stamp(q.target, "email")
           a == [None EXCEPT !.exists = TRUE, !.password = TRUE, !.phone = number, !.email = address,
                             !.phoneVerified = byPhone, !.emailVerified = byEmail]
<1>1. /\ q.pc = "insert" /\ ~account[u].exists /\ betaOff' = betaOff
      /\ \/ /\ q.flag => Redeemable
            /\ Writes(u, a) /\ proven' = proven \cup {<<u, q.target>>}
            /\ betaUsed' = IF q.flag THEN betaUsed + 1 ELSE betaUsed
            /\ redeemed' = IF q.flag THEN redeemed \cup {u} ELSE redeemed
         \/ UNCHANGED <<account, betaUsed, redeemed, proven>>
  BY DEF RegisterInsert
<1>2. CASE UNCHANGED <<account, betaUsed, redeemed, proven>>
  <2>1. betaOff' \in BOOLEAN
    BY <1>1 DEF PeopleInv, PeopleFit
  <2> QED
    BY <1>2, <2>1, StillKeepsPeople
<1>3. CASE /\ q.flag => Redeemable
           /\ Writes(u, a) /\ proven' = proven \cup {<<u, q.target>>}
           /\ betaUsed' = IF q.flag THEN betaUsed + 1 ELSE betaUsed
           /\ redeemed' = IF q.flag THEN redeemed \cup {u} ELSE redeemed
  <2>1. /\ \/ q.target \in Phones /\ q.extra \in Emails \cup {NoTarget}
           \/ q.target \in Emails /\ q.extra \in Phones
        /\ q.flag \in BOOLEAN
    BY <1>1 DEF AsksFit, AskFits, Asks, Registers, Joining
  <2>2. Phones \cap Emails = {} /\ NoTarget \notin Phones \cup Emails
    BY OneTimeCodesAssumption DEF NoTarget
  <2>3. number \in Phones /\ (q.target \in Phones => number = q.target)
    BY <2>1, <2>2
  <2>4. address \in Emails \cup {NoTarget}
    BY <2>1, <2>2
  <2>5. /\ byPhone \in BOOLEAN /\ byEmail \in BOOLEAN
        /\ byPhone => q.target \in Phones
        /\ byEmail => q.target \in Emails
    BY <2>1, <2>2 DEF Stamp, Channel
  <2>6. q.target \in Targets
    BY <2>1 DEF Targets
  <2> HIDE DEF number, address, byPhone, byEmail, q
  <2>7. /\ a \in AccountRows /\ a.exists /\ a.canonical /\ a.phone = number
        /\ a.phoneVerified = byPhone /\ a.emailVerified = byEmail
    BY <2>3, <2>4, <2>5 DEF None, AccountRows
  <2> HIDE DEF a
  <2>8. /\ proven \subseteq proven' /\ proven' \subseteq Users \X Targets
        /\ a.phoneVerified => <<u, a.phone>> \in proven'
        /\ a.emailVerified => \E t \in Emails : <<u, t>> \in proven'
    <3>1. <<u, q.target>> \in proven' /\ proven \subseteq proven'
      BY <1>3
    <3>2. proven \subseteq Users \X Targets
      BY DEF PeopleInv, PeopleFit
    <3>3. proven' \subseteq Users \X Targets
      BY <1>3, <2>6, <3>2
    <3>4. a.phoneVerified => <<u, a.phone>> \in proven'
      BY <2>3, <2>5, <2>7, <3>1
    <3>5. a.emailVerified => \E t \in Emails : <<u, t>> \in proven'
      BY <2>5, <2>7, <3>1
    <3> QED
      BY <3>1, <3>3, <3>4, <3>5
  <2>9. \/ betaUsed' = betaUsed /\ redeemed' = redeemed
        \/ /\ betaUsed' = betaUsed + 1 /\ redeemed' = redeemed \cup {u}
           /\ betaUsed < MaxUses /\ ~account[u].exists /\ a.exists
    BY <1>1, <1>3, <2>1, <2>7 DEF Redeemable
  <2> QED
    BY <1>1, <1>3, <2>7, <2>8, <2>9, WriteKeepsPeople
<1> QED
  BY <1>1, <1>2, <1>3

\* An account's row is one of the rows, and the owner's requests name him.
LEMMA AskerFacts ==
    ASSUME PeopleInv, AsksFit, NEW r \in Requests
    PROVE  /\ \A u \in Users : account[u] \in AccountRows
           /\ request[r].pc \in {"reset", "change", "email", "admin"} => request[r].who \in Users
           /\ request[r].pc = "change" => request[r].target \in Targets
           /\ request[r].pc = "email" => request[r].target \in Emails
           /\ request[r].pc = "repair" => /\ request[r].who \in Legacy /\ request[r].who \in Users
                                          /\ request[r].target \in Phones \cup {NoTarget}
           /\ request[r].pc = "admin" => request[r].kind \in Decrees
           /\ request[r] \in Asks
<1>1. Legacy \subseteq Users
  BY AccountsAssumption
<1> QED
  BY <1>1 DEF PeopleInv, PeopleFit, AsksFit, AskFits

\* A login that repairs the number as it was read; this is done on accounts of
\* the first wave only.
LEMMA RepairKeepsPeople ==
    ASSUME PeopleInv, AsksFit, NEW r \in Requests, RepairPhone(r)
    PROVE  PeopleInv'
<1> DEFINE u == request[r].who
           t == request[r].target
           a == [account[u] EXCEPT !.phone = t, !.canonical = TRUE]
<1>1. /\ request[r].pc = "repair" /\ UNCHANGED <<betaUsed, betaOff, redeemed, proven>>
      /\ account' = account \/ (Writes(u, a) /\ ~TakenByOther(t, u))
  BY DEF RepairPhone
<1>2. u \in Legacy /\ u \in Users /\ account[u] \in AccountRows /\ betaOff \in BOOLEAN
  BY <1>1, AskerFacts DEF PeopleInv, PeopleFit
<1>3. CASE account' = account
  BY <1>1, <1>2, <1>3, StillKeepsPeople
<1>4. CASE Writes(u, a)
  <2>1. t \in Phones \cup {NoTarget}
    BY <1>1, AskerFacts
  <2>2. a \in AccountRows /\ (account[u].exists => a.exists) /\ a.canonical
    BY <1>2, <2>1 DEF AccountRows
  <2> HIDE DEF a, u
  <2> QED
    BY <1>1, <1>2, <1>4, <2>2, PlainWriteKeepsPeople
<1> QED
  BY <1>1, <1>3, <1>4

\* A password set anew, an address written without proof, one that is cleared,
\* and what administrators decide.
LEMMA PlainWritesKeepPeople ==
    ASSUME PeopleInv, AsksFit,
           \/ \E r \in Requests : ResetWrites(r) \/ UpdateEmailWrites(r) \/ AdminWrites(r)
           \/ \E u \in Users : ClearEmail(u)
    PROVE  PeopleInv'
<1>1. \A u \in Users : account[u] \in AccountRows
  BY DEF PeopleInv, PeopleFit
<1>2. CASE \E r \in Requests : ResetWrites(r)
  <2> PICK r \in Requests : ResetWrites(r)
    BY <1>2
  <2> DEFINE u == request[r].who
             a == [account[u] EXCEPT !.password = TRUE]
  <2>1. u \in Users /\ Writes(u, a) /\ UNCHANGED <<betaUsed, betaOff, redeemed, proven>>
    BY AskerFacts DEF ResetWrites
  <2> HIDE DEF u
  <2>2. /\ a \in AccountRows /\ a.exists = account[u].exists /\ a.canonical = account[u].canonical
        /\ a.phoneVerified = account[u].phoneVerified /\ a.phone = account[u].phone
        /\ a.emailVerified = account[u].emailVerified
    BY <1>1, <2>1 DEF AccountRows
  <2> HIDE DEF a
  <2> QED
    BY <2>1, <2>2, PlainWriteKeepsPeople
<1>3. CASE \E r \in Requests : UpdateEmailWrites(r)
  <2> PICK r \in Requests : UpdateEmailWrites(r)
    BY <1>3
  <2> DEFINE u == request[r].who
             t == request[r].target
             f == account[u].emailVerified /\ ~request[r].flag
             a == [account[u] EXCEPT !.email = t, !.emailVerified = f]
  <2>1. /\ u \in Users /\ t \in Emails /\ UNCHANGED <<betaUsed, betaOff, redeemed, proven>>
        /\ account' = account \/ Writes(u, a)
    BY AskerFacts DEF UpdateEmailWrites
  <2>2. f \in BOOLEAN /\ (f => account[u].emailVerified)
    OBVIOUS
  <2> HIDE DEF u, t, f
  <2>3. /\ a \in AccountRows /\ a.exists = account[u].exists /\ a.canonical = account[u].canonical
        /\ a.phoneVerified = account[u].phoneVerified /\ a.phone = account[u].phone
        /\ a.emailVerified = f
    BY <1>1, <2>1, <2>2 DEF AccountRows
  <2> HIDE DEF a
  <2>4. CASE account' = account
    <3>1. betaOff' \in BOOLEAN
      BY <2>1 DEF PeopleInv, PeopleFit
    <3> QED
      BY <2>1, <2>4, <3>1, StillKeepsPeople
  <2>5. CASE Writes(u, a)
    BY <2>1, <2>2, <2>3, <2>5, PlainWriteKeepsPeople
  <2> QED
    BY <2>1, <2>4, <2>5
<1>4. CASE \E r \in Requests : AdminWrites(r)
  <2> PICK r \in Requests : AdminWrites(r)
    BY <1>4
  <2> DEFINE u == request[r].who
             k == request[r].kind
             a == Administered(k, account[u])
  <2>1. u \in Users /\ k \in Decrees /\ Writes(u, a) /\ UNCHANGED <<betaUsed, betaOff, redeemed, proven>>
    BY AskerFacts DEF AdminWrites
  <2> HIDE DEF u, k
  <2>2. account[u] \in AccountRows /\ account[u].role \in {"user", "admin"}
    BY <1>1, <2>1 DEF AccountRows
  <2>3. CASE k = "purge"
    <3>1. a = [None EXCEPT !.exists = TRUE, !.deleted = TRUE, !.purged = TRUE, !.role = account[u].role]
      BY <2>3 DEF Administered, Purged
    <3>2. a \in AccountRows /\ a.exists /\ a.canonical /\ ~a.phoneVerified /\ ~a.emailVerified
      BY <2>2, <3>1 DEF None, AccountRows
    <3> HIDE DEF a
    <3> QED
      BY <2>1, <3>2, PlainWriteKeepsPeople
  <2>4. CASE k # "purge"
    <3>1. /\ a \in AccountRows /\ a.exists = account[u].exists /\ a.canonical = account[u].canonical
          /\ a.phoneVerified = account[u].phoneVerified /\ a.phone = account[u].phone
          /\ a.emailVerified = account[u].emailVerified
      <4>1. CASE k = "promote"
        BY <2>2, <4>1 DEF Administered, AccountRows
      <4>2. CASE k = "demote"
        BY <2>2, <4>2 DEF Administered, AccountRows
      <4>3. CASE k = "disable"
        BY <2>2, <4>3 DEF Administered, AccountRows
      <4>4. CASE k = "restore"
        BY <2>2, <4>4 DEF Administered, AccountRows
      <4> QED
        BY <2>1, <2>4, <4>1, <4>2, <4>3, <4>4 DEF Decrees
    <3> HIDE DEF a
    <3> QED
      BY <2>1, <3>1, PlainWriteKeepsPeople
  <2> QED
    BY <2>3, <2>4
<1>5. CASE \E u \in Users : ClearEmail(u)
  <2> PICK u \in Users : ClearEmail(u)
    BY <1>5
  <2> DEFINE a == [account[u] EXCEPT !.email = NoTarget, !.emailVerified = FALSE]
  <2>1. Writes(u, a) /\ UNCHANGED <<betaUsed, betaOff, redeemed, proven>>
    BY DEF ClearEmail
  <2>2. /\ a \in AccountRows /\ a.exists = account[u].exists /\ a.canonical = account[u].canonical
        /\ a.phoneVerified = account[u].phoneVerified /\ a.phone = account[u].phone /\ ~a.emailVerified
    BY <1>1 DEF AccountRows
  <2> HIDE DEF a
  <2> QED
    BY <2>1, <2>2, PlainWriteKeepsPeople
<1> QED
  BY <1>2, <1>3, <1>4, <1>5

\* A contact that the code has just proved.
LEMMA ChangeKeepsPeople ==
    ASSUME PeopleInv, AsksFit, NEW r \in Requests, ChangeWrites(r)
    PROVE  PeopleInv'
<1> DEFINE u == request[r].who
           t == request[r].target
           a == IF t \in Phones THEN WithPhone(account[u], t) ELSE WithEmail(account[u], t)
<1>1. /\ u \in Users /\ t \in Targets /\ UNCHANGED <<betaUsed, betaOff, redeemed>>
      /\ \/ UNCHANGED <<account, proven>>
         \/ Writes(u, a) /\ proven' = proven \cup {<<u, t>>}
  BY AskerFacts DEF ChangeWrites
<1>2. /\ account[u] \in AccountRows /\ betaOff \in BOOLEAN /\ proven \subseteq Users \X Targets
      /\ ~account[u].canonical => u \in Legacy
      /\ u \notin Legacy => /\ account[u].phoneVerified => <<u, account[u].phone>> \in proven
                            /\ account[u].emailVerified => \E x \in Emails : <<u, x>> \in proven
  BY <1>1 DEF PeopleInv, PeopleFit, VerifiedWasProven
<1> HIDE DEF u, t
<1>3. CASE UNCHANGED <<account, proven>>
  BY <1>1, <1>2, <1>3, StillKeepsPeople
<1>4. CASE Writes(u, a) /\ proven' = proven \cup {<<u, t>>}
  <2>1. proven \subseteq proven' /\ proven' \subseteq Users \X Targets /\ <<u, t>> \in proven'
    BY <1>1, <1>2, <1>4
  <2>2. CASE t \in Phones
    <3>1. a = [account[u] EXCEPT !.phone = t, !.phoneVerified = TRUE, !.canonical = TRUE]
      BY <2>2 DEF WithPhone
    <3>2. /\ a \in AccountRows /\ a.exists = account[u].exists /\ a.canonical /\ a.phone = t
          /\ a.emailVerified = account[u].emailVerified
      BY <1>2, <2>2, <3>1 DEF AccountRows
    <3> HIDE DEF a
    <3> QED
      BY <1>1, <1>2, <1>4, <2>1, <3>2, WriteKeepsPeople
  <2>3. CASE t \notin Phones
    <3>1. t \in Emails
      BY <1>1, <2>3 DEF Targets
    <3>2. a = [account[u] EXCEPT !.email = t, !.emailVerified = TRUE]
      BY <2>3 DEF WithEmail
    <3>3. /\ a \in AccountRows /\ a.exists = account[u].exists /\ a.canonical = account[u].canonical
          /\ a.phone = account[u].phone /\ a.phoneVerified = account[u].phoneVerified
      BY <1>2, <3>1, <3>2, ZenonT(40) DEF AccountRows
    <3> HIDE DEF a
    <3> QED
      BY <1>1, <1>2, <1>4, <2>1, <3>1, <3>3, WriteKeepsPeople
  <2> QED
    BY <2>2, <2>3
<1> QED
  BY <1>1, <1>3, <1>4

\* Every step keeps the invariant of the accounts.
LEMMA StepKeepsPeople == PeopleInv /\ AsksFit /\ [AccountsNext]_accountVars => PeopleInv'
<1> SUFFICES ASSUME PeopleInv, AsksFit, [AccountsNext]_accountVars PROVE PeopleInv'
  OBVIOUS
<1>1. betaOff \in BOOLEAN
  BY DEF PeopleInv, PeopleFit
<1>2. CASE UNCHANGED <<account, betaUsed, betaOff, redeemed, proven>>
  BY <1>1, <1>2, StillKeepsPeople
<1>3. CASE SetCodeDisabled
  <2>1. betaOff' \in BOOLEAN /\ UNCHANGED <<account, betaUsed, redeemed, proven>>
    BY <1>1, <1>3 DEF SetCodeDisabled
  <2> QED
    BY <2>1, StillKeepsPeople
<1>4. CASE \E u \in Users : ClearEmail(u)
  BY <1>4, PlainWritesKeepPeople
<1>5. CASE \E t \in Targets : ForgotPassword(t) \/ \E u \in Users : ChangeStart(u, t)
  BY <1>2, <1>5 DEF ForgotPassword, ChangeStart
<1>6. ASSUME NEW r \in Requests,
             \/ \E p \in Phones, e \in Emails \cup {NoTarget}, c \in {"phone", "email"} : Register(r, p, e, c)
             \/ RegisterExisting(r) \/ RegisterGate(r) \/ RegisterConflict(r) \/ RegisterSpends(r)
             \/ RepairPhone(r) \/ ResetWrites(r) \/ ChangeWrites(r) \/ UpdateEmailWrites(r) \/ AdminWrites(r)
             \/ \E u \in Users :
                   \/ RegisterInsert(r, u) \/ Login(r, u)
                   \/ \E t \in Targets : ResetPassword(r, t, u) \/ ChangeContact(r, u, t)
                   \/ \E t \in Emails : UpdateEmail(r, u, t)
                   \/ \E kind \in Decrees, by \in Users : AdminRequest(r, kind, by, u)
      PROVE  PeopleInv'
  <2>1. CASE \/ \E p \in Phones, e \in Emails \cup {NoTarget}, c \in {"phone", "email"} : Register(r, p, e, c)
             \/ RegisterExisting(r) \/ RegisterGate(r) \/ RegisterConflict(r) \/ RegisterSpends(r)
             \/ \E u \in Users :
                   \/ Login(r, u)
                   \/ \E t \in Targets : ResetPassword(r, t, u) \/ ChangeContact(r, u, t)
                   \/ \E t \in Emails : UpdateEmail(r, u, t)
                   \/ \E kind \in Decrees, by \in Users : AdminRequest(r, kind, by, u)
    BY <1>2, <2>1 DEF Register, RegisterExisting, RegisterGate, RegisterConflict, RegisterSpends, Login,
       ResetPassword, ChangeContact, UpdateEmail, AdminRequest
  <2>2. CASE RepairPhone(r) \/ ResetWrites(r) \/ ChangeWrites(r) \/ UpdateEmailWrites(r) \/ AdminWrites(r)
    BY <2>2, RepairKeepsPeople, PlainWritesKeepPeople, ChangeKeepsPeople
  <2>3. CASE \E u \in Users : RegisterInsert(r, u)
    BY <2>3, InsertKeepsPeople
  <2> QED
    BY <1>6, <2>1, <2>2, <2>3
<1>7. CASE UNCHANGED accountVars
  BY <1>2, <1>7 DEF accountVars
<1> QED
  BY <1>2, <1>3, <1>4, <1>5, <1>6, <1>7 DEF AccountsNext, Decrees

\* The parts of the invariant are those of the two halves.
LEMMA AccountsInvHalves == AccountsInv <=> CodesInv /\ PeopleInv
  BY DEF AccountsInv, CodesInv, PeopleInv

\* The invariant holds the type of the accounts.
LEMMA AccountsInvHolds == AccountsInv => AccountsHold
<1> SUFFICES ASSUME AccountsInv PROVE AccountsHold
  OBVIOUS
<1>1. CodesTypeOK
  BY AccountsInvHalves, CodesInvHolds DEF CodesHold
<1>2. betaUsed \in 0..MaxUses
  <2>1. betaUsed \in Nat /\ betaUsed <= MaxUses
    BY FS_CardinalityType DEF AccountsInv, PeopleFit, BetaSlotsHold
  <2>2. MaxUses \in Nat
    BY AccountsAssumption
  <2> QED
    BY <2>1, <2>2
<1>3. \A u \in Users : /\ account[u].phone \in Phones \cup {NoTarget} /\ account[u].email \in Emails \cup {NoTarget}
                       /\ account[u].role \in {"user", "admin"}
  BY DEF AccountsInv, PeopleFit, AccountRows
<1>4. redeemed \subseteq Users /\ proven \subseteq Users \X Targets
  BY DEF AccountsInv, PeopleFit
<1> QED
  BY <1>1, <1>2, <1>3, <1>4 DEF AccountsInv, AccountsHold, AccountsTypeOK

\* The codes and the accounts start in their invariant.
LEMMA AccountsInitInv == AccountsInit => AccountsInv
<1> SUFFICES ASSUME AccountsInit PROVE AccountsInv
  OBVIOUS
<1>1. otp = <<>> /\ otp \in Seq(OtpRows) /\ Len(otp) = 0 /\ lost = 0 /\ lost \in 0..MaxLost
  <2>1. MaxLost \in Nat
    BY OneTimeCodesAssumption
  <2> QED
    BY <2>1 DEF AccountsInit, CodesInit
<1>2. request = [r \in Requests |-> Idle] /\ Idle \in Asks /\ Idle.pc = "idle" /\ Idle.row = 0
  BY DEF AccountsInit, CodesInit, Idle, Asks
<1>3. AskFits(Idle)
  BY <1>2 DEF AskFits, Registers, Proving, Joining
<1>4. AsksFit
  BY <1>1, <1>2, <1>3 DEF AsksFit, Opening, Joining
<1>5. GuessesAhead
  <2> SUFFICES ASSUME NEW t \in Targets
               PROVE  WindowAttempts(t) + Cardinality(Guessers(t)) <= MaxTargetAttempts + Cardinality(Requests) - 1
    BY DEF GuessesAhead
  <2>1. WindowOf(otp, t) = {}
    BY <1>1 DEF WindowOf
  <2>2. WindowAttempts(t) = 0
    BY <1>1, <2>1, WindowIsSum, SumEmpty DEF Guessed
  <2>3. Guessers(t) = {} /\ Cardinality({}) = 0
    BY <1>2, FS_EmptySet DEF Guessers
  <2>4. MaxTargetAttempts \in Nat \ {0} /\ Cardinality(Requests) \in Nat
    BY OneTimeCodesAssumption, FS_CardinalityType
  <2> QED
    BY <2>2, <2>3, <2>4
<1>6. UsesAhead
  BY <1>1 DEF UsesAhead, CodeRows
<1>7. PeopleFit
  <2>1. \A u \in Users : /\ account[u] \in AccountRows
                         /\ ~account[u].canonical => u \in Legacy
    <3> SUFFICES ASSUME NEW u \in Users
                 PROVE  account[u] \in AccountRows /\ (~account[u].canonical => u \in Legacy)
      OBVIOUS
    <3>1. OldPhone \in Phones
      BY AccountsAssumption
    <3>2. CASE u \in Legacy
      BY <3>1, <3>2 DEF AccountsInit, AccountRows, None
    <3>3. CASE u \notin Legacy
      BY <3>3 DEF AccountsInit, AccountRows, None
    <3> QED
      BY <3>2, <3>3
  <2>2. account \in [Users -> AccountRows]
    BY <2>1 DEF AccountsInit
  <2>3. betaOff \in BOOLEAN /\ proven = {} /\ redeemed = {} /\ IsFiniteSet({})
    BY FS_EmptySet DEF AccountsInit
  <2> QED
    BY <2>1, <2>2, <2>3 DEF PeopleFit
<1>8. BetaSlotsHold
  <2>1. MaxUses \in Nat /\ Cardinality({}) = 0
    BY AccountsAssumption, FS_EmptySet
  <2> QED
    BY <2>1 DEF BetaSlotsHold, AccountsInit
<1>9. VerifiedWasProven
  <2> SUFFICES ASSUME NEW u \in Users \ Legacy
               PROVE  ~account[u].phoneVerified /\ ~account[u].emailVerified
    BY DEF VerifiedWasProven
  <2> QED
    BY DEF AccountsInit, None
<1> QED
  BY <1>4, <1>5, <1>6, <1>7, <1>8, <1>9 DEF AccountsInv

\* The invariant of the codes and the accounts, in every reachable state.
THEOREM AccountsInvariant == AccountsSpec => []AccountsInv
<1>1. AccountsInv /\ [AccountsNext]_accountVars => AccountsInv'
  <2> SUFFICES ASSUME AccountsInv, [AccountsNext]_accountVars PROVE AccountsInv'
    OBVIOUS
  <2>1. CodesInv'
    BY StepKeepsCodes, AccountsInvHalves DEF PeopleInv
  <2>2. PeopleInv'
    BY StepKeepsPeople, AccountsInvHalves DEF CodesInv
  <2> QED
    BY <2>1, <2>2 DEF AccountsInv, CodesInv, PeopleInv
<1> QED
  BY <1>1, AccountsInitInv, PTL DEF AccountsSpec

\* "requesting a fresh code does NOT reset it", and a code is single-use: the
\* counted guesses and the uses of a code stay within their limits, however
\* many requests are in flight, whatever the limits are and whichever deletes
\* are lost.
THEOREM CodesHoldAlways == AccountsSpec => []CodesHold
<1>1. AccountsInv => CodesHold
  BY AccountsInvHalves, CodesInvHolds
<1> QED
  BY <1>1, AccountsInvariant, PTL

\* "two concurrent redemptions of the LAST remaining slot cannot both succeed",
\* for any accounts and contacts.  Of every account but the first-wave ones, whose
\* numbers login repairs: a verified phone was proved by a code sent to it, and who
\* has a verified address has proved some address (that one: EmailWasProven, which
\* does not hold).
THEOREM AccountsHoldAlways == AccountsSpec => []AccountsHold
<1>1. AccountsInv => AccountsHold
  BY AccountsInvHolds
<1> QED
  BY <1>1, AccountsInvariant, PTL
=============================================================================
