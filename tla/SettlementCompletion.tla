------------------------ MODULE SettlementCompletion ------------------------
(***************************************************************************)
(* What follows the close of a batch (settlement-execution.service.ts):    *)
(* the remittance posting, the statement, its attachment to the credit     *)
(* notes whose receivables the batch recovered, and the audit of the       *)
(* evidence chain.  Each is a commit of its own; a request may die between *)
(* any two, and calling execute or closeZeroNet again finishes the chain.  *)
(*                                                                         *)
(* The authorisation gate in front of the close is modelled elsewhere and  *)
(* is a free choice here.                                                  *)
(***************************************************************************)
EXTENDS Integers, FiniteSets, Sequences

CONSTANTS
    Batches,      \* assembled batches
    ZeroNet,      \* the ones whose net is zero
    Notes,        \* credit notes of clawed-back refunds
    Recovers,     \* recoveryAllocation of a batch, as the sequence of notes
    Actors,       \* requests that may be in flight at once
    Evidence,     \* bank reference and value date a caller may supply
    NoEvidence,   \* none was supplied
    MaxCrashes    \* bound on the requests that die

ASSUME CompletionAssumption ==
    /\ ZeroNet \subseteq Batches
    /\ Recovers \in [Batches -> Seq(Notes)]
    /\ NoEvidence \notin Evidence
    /\ "none" \notin Batches
    /\ MaxCrashes \in Nat

VARIABLES
    closure,      \* of each batch: none, remitted or zero_net
    remittance,   \* the evidence recorded with the close, or NoEvidence
    paid,         \* MERCHANT_REMITTANCE_PAID postings, by batch
    statement,    \* SettlementStatementRecord rows, by batch
    note,         \* CreditNote heads: the batch attached and the version
    version,      \* CreditNoteVersion rows: [note, number]
    audit,        \* guaranteed audit rows, by key
    request,      \* each actor's request
    crashes

vars == <<closure, remittance, paid, statement, note, version, audit, request,
          crashes>>
documents == <<paid, statement, note, version, audit>>

Unattached == "none"

NoRequest == [pc |-> "idle", batch |-> "none", evidence |-> NoEvidence,
              line |-> 0, read |-> 0]

\* A credit note is issued as version 1 with the refund that creates it.
Init == /\ closure = [b \in Batches |-> "none"]
        /\ remittance = [b \in Batches |-> NoEvidence]
        /\ paid = {}
        /\ statement = {}
        /\ note = [n \in Notes |-> [batch |-> Unattached, version |-> 1]]
        /\ version = [note : Notes, number : {1}]
        /\ audit = {}
        /\ request = [a \in Actors |-> NoRequest]
        /\ crashes = 0

Closed(b) == closure[b] # "none"

\* Faulty variant: every close is recorded as a remittance.
LaneAlwaysRemitted(b) == "remitted"

Lane(b) == IF b \in ZeroNet THEN "zero_net" ELSE "remitted"

\* Faulty variant: the posting is left to the first run.
FirstStepStatement(b) == "statement"

\* Faulty variant: a close without a transfer goes straight to the notes.
FirstStepAttach(b) == IF b \in ZeroNet THEN "attach" ELSE "pay"

\* completeChain posts the remittance first; completeChainZeroNet has nothing
\* to post.
FirstStep(b) == IF b \in ZeroNet THEN "statement" ELSE "pay"

Goto(a, label) == request' = [request EXCEPT ![a].pc = label]

-----------------------------------------------------------------------------
(***************************************************************************)
(* The two ways into the chain.                                            *)
(***************************************************************************)
SuppliedEvidence(b) == IF b \in ZeroNet THEN {NoEvidence} ELSE Evidence

EnterChain(a, b, evidence, label) ==
    request' = [request EXCEPT ![a] =
        [pc |-> label, batch |-> b, evidence |-> evidence, line |-> 1, read |-> 0]]

\* The batch is ready when the request reads it.
Execute(a, b, evidence) ==
    /\ request[a].pc = "idle"
    /\ ~Closed(b)
    /\ EnterChain(a, b, evidence, "close")
    /\ UNCHANGED <<closure, remittance, documents, crashes>>

\* Faulty variant: a different movement is merged into the recorded one.
SameMovementAlways(b, evidence) == TRUE

\* assertRemittanceIdentity, in both lanes that meet an existing remittance.
SameMovement(b, evidence) == remittance[b] = evidence

\* The engine's close; when another request has won it, the recorded movement
\* must be the one this caller has evidence of.
Close(a) ==
    LET b == request[a].batch
        e == request[a].evidence
    IN  /\ request[a].pc = "close"
        /\ \/ /\ ~Closed(b)
              /\ closure' = [closure EXCEPT ![b] = Lane(b)]
              /\ remittance' = [remittance EXCEPT ![b] = e]
           \/ /\ Closed(b)
              /\ SameMovement(b, e)
              /\ UNCHANGED <<closure, remittance>>
        /\ Goto(a, FirstStep(b))
        /\ UNCHANGED <<documents, crashes>>

\* Faulty variant: a settled batch is refused.
HealableNever(b) == FALSE

Healable(b) == Closed(b)

\* The completion lane: the batch is settled when the request reads it.
Heal(a, b, evidence) ==
    /\ request[a].pc = "idle"
    /\ Healable(b)
    /\ SameMovement(b, evidence)
    /\ EnterChain(a, b, evidence, FirstStep(b))
    /\ UNCHANGED <<closure, remittance, documents, crashes>>

-----------------------------------------------------------------------------
(***************************************************************************)
(* The chain.                                                              *)
(***************************************************************************)
PostPaid(a) ==
    /\ request[a].pc = "pay"
    /\ paid' = paid \cup {request[a].batch}
    /\ Goto(a, "statement")
    /\ UNCHANGED <<closure, remittance, statement, note, version, audit, crashes>>

EnsureStatement(a) ==
    /\ request[a].pc = "statement"
    /\ statement' = statement \cup {request[a].batch}
    /\ Goto(a, "attach")
    /\ UNCHANGED <<closure, remittance, paid, note, version, audit, crashes>>

Line(a) == Recovers[request[a].batch][request[a].line]
LinesLeft(a) == request[a].line <= Len(Recovers[request[a].batch])

NextLine(a) == request' = [request EXCEPT ![a].pc = "attach", ![a].line = @ + 1]

\* A note that has its statement is passed over.
AttachRead(a) ==
    /\ request[a].pc = "attach"
    /\ LinesLeft(a)
    /\ IF note[Line(a)].batch = Unattached
       THEN request' = [request EXCEPT ![a].pc = "attach_head",
                                       ![a].read = note[Line(a)].version]
       ELSE NextLine(a)
    /\ UNCHANGED <<closure, remittance, documents, crashes>>

\* Faulty variant: the head is written whatever it holds by now.
StillUnattachedAssumed(n) == TRUE

StillUnattached(n) == note[n].batch = Unattached

\* The guarded write of the head; a loser goes on with the next line.
AttachHead(a) ==
    /\ request[a].pc = "attach_head"
    /\ IF StillUnattached(Line(a))
       THEN /\ note' = [note EXCEPT ![Line(a)] =
                  [batch |-> request[a].batch, version |-> request[a].read + 1]]
            /\ Goto(a, "attach_version")
       ELSE NextLine(a) /\ UNCHANGED note
    /\ UNCHANGED <<closure, remittance, paid, statement, version, audit, crashes>>

\* Unique on (credit note, version number).
AttachVersion(a) ==
    LET row == [note |-> Line(a), number |-> request[a].read + 1]
    IN  /\ request[a].pc = "attach_version"
        /\ row \notin version
        /\ version' = version \cup {row}
        /\ Goto(a, "attach_audit")
        /\ UNCHANGED <<closure, remittance, paid, statement, note, audit, crashes>>

AttachAudit(a) ==
    /\ request[a].pc = "attach_audit"
    /\ audit' = audit \cup {<<"attached", Line(a)>>}
    /\ NextLine(a)
    /\ UNCHANGED <<closure, remittance, paid, statement, note, version, crashes>>

AuditCompletion(a) ==
    /\ request[a].pc = "attach"
    /\ ~LinesLeft(a)
    /\ audit' = audit \cup {<<"completed", request[a].batch>>}
    /\ request' = [request EXCEPT ![a] = NoRequest]
    /\ UNCHANGED <<closure, remittance, paid, statement, note, version, crashes>>

\* The request ends here: the process dies, the database refuses, or the
\* caller's evidence is of another movement.
Crash(a) ==
    /\ request[a].pc # "idle"
    /\ crashes < MaxCrashes
    /\ crashes' = crashes + 1
    /\ request' = [request EXCEPT ![a] = NoRequest]
    /\ UNCHANGED <<closure, remittance, documents>>

Refuse(a) ==
    /\ request[a].pc = "close"
    /\ Closed(request[a].batch)
    /\ ~SameMovement(request[a].batch, request[a].evidence)
    /\ request' = [request EXCEPT ![a] = NoRequest]
    /\ UNCHANGED <<closure, remittance, documents, crashes>>

-----------------------------------------------------------------------------
Chain(a) == \/ Close(a) \/ PostPaid(a) \/ EnsureStatement(a) \/ AttachRead(a)
            \/ AttachHead(a) \/ AttachVersion(a) \/ AttachAudit(a)
            \/ AuditCompletion(a) \/ Refuse(a)

Completed(b) == <<"completed", b>> \in audit

Next ==
    \/ \E a \in Actors, b \in Batches : \E e \in SuppliedEvidence(b) :
          Execute(a, b, e) \/ Heal(a, b, e)
    \/ \E a \in Actors : Chain(a) \/ Crash(a)

Spec == Init /\ [][Next]_vars

\* A request the process does not lose runs on, and an operator who sees a
\* settled batch without its completion calls again with the bank's evidence.
Fairness ==
    /\ \A a \in Actors : WF_vars(Chain(a))
    /\ \A b \in Batches : SF_vars(/\ ~Completed(b)
                                  /\ \E a \in Actors : Heal(a, b, remittance[b]))

FairSpec == Spec /\ Fairness

-----------------------------------------------------------------------------
(***************************************************************************)
(* Properties.                                                             *)
(***************************************************************************)
Labels == {"idle", "close", "pay", "statement", "attach", "attach_head",
           "attach_version", "attach_audit"}

\* The shape of the rows; a batch closes in the lane its net demands, with the
\* evidence that lane requires.
TypeOK ==
    /\ \A b \in Batches : /\ closure[b] \in {"none", Lane(b)}
                          /\ remittance[b] \in Evidence \cup {NoEvidence}
                          /\ closure[b] = "remitted" <=> remittance[b] # NoEvidence
    /\ paid \subseteq Batches \ ZeroNet /\ statement \subseteq Batches
    /\ note \in [Notes -> [batch : Batches \cup {Unattached}, version : {1, 2}]]
    /\ version \subseteq [note : Notes, number : {1, 2}]
    /\ \A a \in Actors :
          \/ request[a] = NoRequest
          \/ /\ request[a].pc \in Labels \ {"idle"} /\ request[a].batch \in Batches
             /\ request[a].evidence \in SuppliedEvidence(request[a].batch)
             /\ request[a].line \in 1..(Len(Recovers[request[a].batch]) + 1)
             /\ request[a].read \in 0..1

\* The completion audit stands for the whole chain, however many requests died
\* on the way: the batch is closed, its remittance posted unless nothing
\* moved, its statement issued, and no note it recovered is left unattached.
CompletionIsEarned == \A b \in Batches : Completed(b) =>
    /\ Closed(b)
    /\ b \in paid <=> b \notin ZeroNet
    /\ b \in statement
    /\ \A k \in DOMAIN Recovers[b] : note[Recovers[b][k]].batch # Unattached

\* A note only ever names a batch that recovered it and has issued the
\* statement, and the audit of an attachment follows its version row.
NotesNameIssuedStatements == \A n \in Notes :
    /\ note[n].batch # Unattached =>
          /\ note[n].batch \in statement
          /\ \E k \in DOMAIN Recovers[note[n].batch] : Recovers[note[n].batch][k] = n
    /\ <<"attached", n>> \in audit => [note |-> n, number |-> 2] \in version

\* The attachment is write-once: two batches that recover the same debt never
\* overwrite each other's statement on its note.
AttachedOnce ==
    [][\A n \in Notes : note[n].batch # Unattached => note'[n] = note[n]]_vars

\* Nobody finishes the chain of a movement he has no evidence of: a request in
\* the chain holds the evidence recorded with the close.
ChainFollowsTheMovement == \A a \in Actors :
    request[a].pc \in Labels \ {"idle", "close"} =>
        /\ Closed(request[a].batch)
        /\ remittance[request[a].batch] = request[a].evidence

\* What the chain behind a close claims is there, wherever requests die.
ChainIsEarned ==
    /\ TypeOK
    /\ CompletionIsEarned
    /\ NotesNameIssuedStatements
    /\ ChainFollowsTheMovement

\* A closed batch is eventually completed, whichever requests die.
EventuallyCompleted == \A b \in Batches : Closed(b) ~> Completed(b)

\* "the issued version's bytes are NEVER rewritten - the next version appends
\* to CreditNoteVersion and the head row advances", "a crash re-runs to
\* completion": once a batch is completed and no request is in flight, every
\* version the head of a note names has its row.  Not so after a crash between
\* the two (README, section 6).
HeadsHaveVersions == \A n \in Notes :
    /\ note[n].batch # Unattached
    /\ Completed(note[n].batch)
    /\ \A a \in Actors : request[a].pc = "idle"
    => [note |-> n, number |-> note[n].version] \in version

-----------------------------------------------------------------------------
(***************************************************************************)
(* The invariant behind ChainIsEarned: what a request has done by where it *)
(* stands in the chain, and that no other request can undo it.             *)
(***************************************************************************)
RequestRows == [pc : Labels, batch : Batches \cup {"none"},
                evidence : Evidence \cup {NoEvidence}, line : Nat, read : 0..1]

RowsTyped ==
    /\ closure \in [Batches -> {"none", "remitted", "zero_net"}]
    /\ remittance \in [Batches -> Evidence \cup {NoEvidence}]
    /\ request \in [Actors -> RequestRows]

Attaching == {"attach", "attach_head", "attach_version", "attach_audit"}

\* A request stands behind what it has done: the posting, the statement, and
\* the notes of the lines before its own.
StandsBehind(r) ==
    /\ r.pc \in {"close", "pay", "statement"} => r.line = 1
    /\ r.pc = "pay" => r.batch \notin ZeroNet
    /\ r.pc \in Attaching \cup {"statement"} => (r.batch \in paid <=> r.batch \notin ZeroNet)
    /\ r.pc \in Attaching =>
          /\ r.batch \in statement
          /\ \A k \in 1..(r.line - 1) : note[Recovers[r.batch][k]].batch # Unattached
    /\ r.pc \in Attaching \ {"attach"} => r.line \in DOMAIN Recovers[r.batch] /\ r.read = 1
    /\ r.pc \in {"attach_version", "attach_audit"} =>
          note[Recovers[r.batch][r.line]].batch # Unattached
    /\ r.pc = "attach_audit" => [note |-> Recovers[r.batch][r.line], number |-> 2] \in version

RequestsStandBehind == \A a \in Actors : StandsBehind(request[a])

\* A note is in its first version exactly until it is attached.
UnattachedIsFirst == \A n \in Notes : note[n].batch = Unattached <=> note[n].version = 1

CompletionInv ==
    /\ ChainIsEarned
    /\ RowsTyped
    /\ RequestsStandBehind
    /\ UnattachedIsFirst
=============================================================================
