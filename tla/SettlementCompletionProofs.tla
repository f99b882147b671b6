--------------------- MODULE SettlementCompletionProofs ---------------------
(***************************************************************************)
(* Proofs about the chain behind a close, for any batches, credit notes,   *)
(* recoveries, requests in flight and number of requests that die.         *)
(***************************************************************************)
EXTENDS SettlementCompletion, TLAPS

\* What the invariant says of the tables.
ClosesFit == \A b \in Batches : /\ closure[b] \in {"none", Lane(b)}
                                /\ remittance[b] \in Evidence \cup {NoEvidence}
                                /\ closure[b] = "remitted" <=> remittance[b] # NoEvidence

DocumentsTyped ==
    /\ paid \subseteq Batches \ ZeroNet /\ statement \subseteq Batches
    /\ note \in [Notes -> [batch : Batches \cup {Unattached}, version : {1, 2}]]
    /\ version \subseteq [note : Notes, number : {1, 2}]

RowsHold ==
    /\ closure \in [Batches -> {"none", "remitted", "zero_net"}]
    /\ remittance \in [Batches -> Evidence \cup {NoEvidence}]
    /\ ClosesFit
    /\ DocumentsTyped
    /\ CompletionIsEarned
    /\ NotesNameIssuedStatements
    /\ UnattachedIsFirst

\* What it says of one request.
WellFormed(r) ==
    \/ r = NoRequest
    \/ /\ r.pc \in Labels \ {"idle"} /\ r.batch \in Batches
       /\ r.evidence \in SuppliedEvidence(r.batch)
       /\ r.line \in 1..(Len(Recovers[r.batch]) + 1)
       /\ r.read \in 0..1

RequestFits(r) ==
    /\ WellFormed(r)
    /\ r.pc \in Labels \ {"idle", "close"} =>
          Closed(r.batch) /\ remittance[r.batch] = r.evidence
    /\ StandsBehind(r)

\* The invariant is the two together.
LEMMA InvInHalves ==
    CompletionInv <=> /\ RowsHold
                      /\ request \in [Actors -> RequestRows]
                      /\ \A a \in Actors : RequestFits(request[a])
  BY DEF CompletionInv, ChainIsEarned, TypeOK, ChainFollowsTheMovement, RowsTyped,
         RequestsStandBehind, RowsHold, ClosesFit, DocumentsTyped, RequestFits, WellFormed

\* And in the next state.
LEMMA HalvesMakeInv ==
    ASSUME RowsHold', request' \in [Actors -> RequestRows],
           \A a \in Actors : RequestFits(request[a])'
    PROVE  CompletionInv'
  BY DEF CompletionInv, ChainIsEarned, TypeOK, ChainFollowsTheMovement, RowsTyped,
         RequestsStandBehind, RowsHold, ClosesFit, DocumentsTyped, RequestFits, WellFormed

\* The lines of a batch are notes.
LEMMA LinesAreNotes ==
    ASSUME NEW b \in Batches
    PROVE  /\ Len(Recovers[b]) \in Nat /\ DOMAIN Recovers[b] = 1..Len(Recovers[b])
           /\ \A k \in DOMAIN Recovers[b] : Recovers[b][k] \in Notes
<1>1. Recovers[b] \in Seq(Notes)
  BY CompletionAssumption
<1> QED
  BY <1>1

\* A request that has ended asks nothing of the tables.
LEMMA NoRequestFits == NoRequest \in RequestRows /\ RequestFits(NoRequest) /\ RequestFits(NoRequest)'
  BY CompletionAssumption
     DEF NoRequest, RequestRows, Labels, RequestFits, WellFormed, StandsBehind, Attaching

\* Before the first request nothing is closed, posted or attached.
LEMMA InitEstablishesInv == Init => CompletionInv
<1> SUFFICES ASSUME Init PROVE CompletionInv
  OBVIOUS
<1> USE CompletionAssumption
<1>1. ClosesFit /\ DocumentsTyped
  BY DEF Init, ClosesFit, DocumentsTyped, Unattached
<1>2. CompletionIsEarned /\ NotesNameIssuedStatements /\ UnattachedIsFirst
  BY DEF Init, CompletionIsEarned, Completed, NotesNameIssuedStatements, UnattachedIsFirst, Unattached
<1>3. RowsHold
  BY <1>1, <1>2 DEF Init, RowsHold
<1>4. request \in [Actors -> RequestRows] /\ \A a \in Actors : RequestFits(request[a])
  BY NoRequestFits DEF Init
<1> QED
  BY <1>3, <1>4, InvInHalves

\* What no step undoes: a close and its evidence, a posting, a statement, an
\* attachment, a version.
Grows ==
    /\ \A b \in Batches : Closed(b) => closure'[b] = closure[b] /\ remittance'[b] = remittance[b]
    /\ paid \subseteq paid' /\ paid' \subseteq Batches \ ZeroNet
    /\ statement \subseteq statement' /\ version \subseteq version'
    /\ \A n \in Notes : note[n].batch # Unattached => note'[n] = note[n]

\* So nothing a request stands behind is taken from it by another.
LEMMA FitsSurvives ==
    ASSUME Grows, NEW r \in RequestRows, RequestFits(r)
    PROVE  RequestFits(r)'
<1>1. CASE r = NoRequest
  BY <1>1, NoRequestFits
<1>2. CASE r # NoRequest
  <2>1. r.batch \in Batches /\ WellFormed(r) /\ r.line \in 1..(Len(Recovers[r.batch]) + 1)
    BY <1>2 DEF RequestFits, WellFormed
  <2>2. \A k \in DOMAIN Recovers[r.batch] : note[Recovers[r.batch][k]].batch # Unattached =>
           note'[Recovers[r.batch][k]].batch # Unattached
    BY <2>1, LinesAreNotes DEF Grows
  <2>3. 1..(r.line - 1) \subseteq DOMAIN Recovers[r.batch]
    BY <2>1, LinesAreNotes
  <2>4. StandsBehind(r)'
    BY <2>1, <2>2, <2>3 DEF RequestFits, StandsBehind, Grows, Attaching
  <2>5. r.pc \in Labels \ {"idle", "close"} =>
           Closed(r.batch)' /\ remittance'[r.batch] = r.evidence
    BY <2>1 DEF RequestFits, Grows, Closed
  <2> QED
    BY <2>1, <2>4, <2>5 DEF RequestFits, WellFormed
<1> QED
  BY <1>1, <1>2

\* A step of one request that only adds to the tables.
LEMMA StepKeepsInv ==
    ASSUME CompletionInv, NEW a \in Actors,
           request' \in [Actors -> RequestRows],
           \A c \in Actors : c # a => request'[c] = request[c],
           Grows, RowsHold',
           \A r \in RequestRows : r = request'[a] => RequestFits(r)'
    PROVE  CompletionInv'
<1>1. request \in [Actors -> RequestRows] /\ \A c \in Actors : RequestFits(request[c])
  BY InvInHalves
<1>2. \A c \in Actors : RequestFits(request[c])'
  <2> SUFFICES ASSUME NEW c \in Actors PROVE RequestFits(request[c])'
    OBVIOUS
  <2>1. \A r \in RequestRows : RequestFits(r) => RequestFits(r)'
    BY FitsSurvives
  <2>2. request'[c] \in RequestRows
    OBVIOUS
  <2>3. \A r \in RequestRows : r = request'[c] => RequestFits(r)'
    BY <1>1, <2>1
  <2>4. \A r \in RequestRows : r = request'[c] => RequestFits(request[c])'
    BY <2>3 DEF RequestFits, WellFormed, StandsBehind, Closed
  <2> QED
    BY <2>2, <2>4
<1> QED
  BY <1>2, HalvesMakeInv

\* The tables stay as they are.
LEMMA TablesStand ==
    ASSUME CompletionInv, UNCHANGED <<closure, remittance, documents>>
    PROVE  RowsHold' /\ Grows
<1>1. RowsHold
  BY InvInHalves
<1>2. RowsHold'
  BY <1>1 DEF RowsHold, ClosesFit, DocumentsTyped, CompletionIsEarned, Completed, Closed,
              NotesNameIssuedStatements, UnattachedIsFirst, documents
<1> QED
  BY <1>1, <1>2 DEF Grows, RowsHold, DocumentsTyped, documents

\* What a step uses of its request.
LEMMA RequestTyped ==
    ASSUME CompletionInv, NEW a \in Actors
    PROVE  /\ request \in [Actors -> RequestRows] /\ request[a] \in RequestRows
           /\ RequestFits(request[a])
           /\ request[a].pc # "idle" =>
                 /\ request[a].batch \in Batches
                 /\ request[a].evidence \in SuppliedEvidence(request[a].batch)
                 /\ request[a].line \in 1..(Len(Recovers[request[a].batch]) + 1)
                 /\ request[a].read \in 0..1
  BY InvInHalves DEF RequestFits, WellFormed, NoRequest

\* A request ends: a crash, a refusal, or the process that served it is gone.
LEMMA EndsKeepInv ==
    ASSUME CompletionInv, NEW a \in Actors, Crash(a) \/ Refuse(a)
    PROVE  CompletionInv'
<1>1. request' = [request EXCEPT ![a] = NoRequest] /\ UNCHANGED <<closure, remittance, documents>>
  BY DEF Crash, Refuse
<1>2. RowsHold' /\ Grows
  BY <1>1, TablesStand
<1> QED
  BY <1>1, <1>2, RequestTyped, NoRequestFits, StepKeepsInv

\* A request enters the chain, before its close or behind one whose evidence it
\* has.
LEMMA EntersKeepInv ==
    ASSUME CompletionInv, NEW a \in Actors, NEW b \in Batches, NEW e \in SuppliedEvidence(b),
           Execute(a, b, e) \/ Heal(a, b, e)
    PROVE  CompletionInv'
<1> DEFINE label == IF Execute(a, b, e) THEN "close" ELSE FirstStep(b)
<1>1. RowsHold' /\ Grows
  BY TablesStand DEF Execute, Heal
<1>2. /\ label \in {"close", FirstStep(b)}
      /\ label # "close" => Closed(b) /\ remittance[b] = e
      /\ EnterChain(a, b, e, label)
  BY DEF Execute, Heal, Healable, SameMovement
<1>3. UNCHANGED <<closure, remittance, documents>>
  BY DEF Execute, Heal
<1>4. e \in Evidence \cup {NoEvidence} /\ label \in Labels
  BY <1>2 DEF SuppliedEvidence, Labels, FirstStep
<1> HIDE DEF label
<1>5. /\ request' \in [Actors -> RequestRows]
      /\ \A c \in Actors : c # a => request'[c] = request[c]
      /\ request'[a].pc = label /\ request'[a].batch = b /\ request'[a].evidence = e
      /\ request'[a].line = 1 /\ request'[a].read = 0
  BY <1>2, <1>4, RequestTyped DEF EnterChain, RequestRows
<1>6. ASSUME NEW r \in RequestRows, r = request'[a] PROVE RequestFits(r)'
  <2>1. WellFormed(r)'
    BY <1>2, <1>4, <1>5, <1>6, LinesAreNotes DEF WellFormed, Labels, FirstStep
  <2>2. r.pc \in Labels \ {"idle", "close"} => Closed(r.batch)' /\ remittance'[r.batch] = r.evidence
    BY <1>2, <1>3, <1>5, <1>6 DEF Closed
  <2>3. StandsBehind(r)'
    BY <1>1, <1>2, <1>5, <1>6, CompletionAssumption
       DEF StandsBehind, FirstStep, Attaching, RowsHold, DocumentsTyped
  <2> QED
    BY <2>1, <2>2, <2>3 DEF RequestFits
<1> QED
  BY <1>1, <1>5, <1>6, StepKeepsInv

\* Going to another place of the chain, and to the next line.
LEMMA GotoTyped ==
    ASSUME CompletionInv, NEW a \in Actors, NEW l \in Labels, Goto(a, l)
    PROVE  /\ request' \in [Actors -> RequestRows]
           /\ \A c \in Actors : c # a => request'[c] = request[c]
           /\ request'[a].pc = l /\ request'[a].batch = request[a].batch
           /\ request'[a].evidence = request[a].evidence
           /\ request'[a].line = request[a].line /\ request'[a].read = request[a].read
  BY RequestTyped DEF Goto, RequestRows

\* The loop over the manifest moves its request to a line and touches no other
\* request.
LEMMA NextLineTyped ==
    ASSUME CompletionInv, NEW a \in Actors, NextLine(a)
    PROVE  /\ request' \in [Actors -> RequestRows]
           /\ \A c \in Actors : c # a => request'[c] = request[c]
           /\ request'[a].pc = "attach" /\ request'[a].batch = request[a].batch
           /\ request'[a].evidence = request[a].evidence
           /\ request'[a].line = request[a].line + 1 /\ request'[a].read = request[a].read
<1>1. request \in [Actors -> RequestRows] /\ request[a] \in RequestRows /\ request[a].line \in Nat
  BY RequestTyped DEF RequestRows
<1> DEFINE new == [request[a] EXCEPT !.pc = "attach", !.line = @ + 1]
<1>2. /\ new \in RequestRows /\ new.pc = "attach" /\ new.batch = request[a].batch
      /\ new.evidence = request[a].evidence /\ new.line = request[a].line + 1
      /\ new.read = request[a].read
  <2>1. request[a].line + 1 \in Nat /\ "attach" \in Labels
    BY <1>1 DEF Labels
  <2> QED
    BY <1>1, <2>1 DEF RequestRows
<1>3. request' = [request EXCEPT ![a] = new]
  BY <1>1 DEF NextLine
<1> HIDE DEF new
<1> QED
  BY <1>1, <1>2, <1>3

\* The close: a batch that no request has closed, or one closed with the
\* evidence this request holds.
LEMMA CloseKeepsInv ==
    ASSUME CompletionInv, NEW a \in Actors, Close(a)
    PROVE  CompletionInv'
<1> DEFINE b == request[a].batch
           e == request[a].evidence
<1>1. /\ RowsHold /\ b \in Batches /\ e \in SuppliedEvidence(b)
      /\ request[a].line \in 1..(Len(Recovers[b]) + 1) /\ request[a].read \in 0..1
      /\ FirstStep(b) \in {"pay", "statement"} /\ request[a].line = 1
  <2>1. RequestFits(request[a]) /\ request[a].pc = "close"
    BY RequestTyped DEF Close
  <2>2. request[a].line = 1
    BY <2>1 DEF RequestFits, StandsBehind
  <2> QED
    BY <2>1, <2>2, InvInHalves, RequestTyped DEF FirstStep
<1>2. Goto(a, FirstStep(b)) /\ UNCHANGED documents
  BY DEF Close
<1>3. /\ request' \in [Actors -> RequestRows]
      /\ \A c \in Actors : c # a => request'[c] = request[c]
      /\ request'[a].pc = FirstStep(b) /\ request'[a].batch = b /\ request'[a].evidence = e
      /\ request'[a].line = request[a].line /\ request'[a].read = request[a].read
  BY <1>1, <1>2, GotoTyped DEF Labels
<1>4. closure'[b] # "none" /\ remittance'[b] = e
  BY <1>1 DEF Close, Closed, Lane, SameMovement, RowsHold
<1>5. \A d \in Batches : Closed(d) => closure'[d] = closure[d] /\ remittance'[d] = remittance[d]
  BY <1>1 DEF Close, Closed, RowsHold
<1>6. RowsHold'
  <2>1. /\ closure' \in [Batches -> {"none", "remitted", "zero_net"}]
        /\ remittance' \in [Batches -> Evidence \cup {NoEvidence}]
    BY <1>1 DEF Close, Lane, RowsHold, SuppliedEvidence
  <2>2. ClosesFit'
    <3>1. CASE UNCHANGED <<closure, remittance>>
      BY <1>1, <3>1 DEF RowsHold, ClosesFit
    <3>2. CASE /\ closure' = [closure EXCEPT ![b] = Lane(b)]
               /\ remittance' = [remittance EXCEPT ![b] = e]
      <4>1. \A d \in Batches : /\ closure'[d] = IF d = b THEN Lane(b) ELSE closure[d]
                               /\ remittance'[d] = IF d = b THEN e ELSE remittance[d]
        BY <1>1, <3>2 DEF RowsHold
      <4>2. Lane(b) = "remitted" <=> e # NoEvidence
        BY <1>1, CompletionAssumption DEF Lane, SuppliedEvidence
      <4> HIDE DEF b, e
      <4> QED
        BY <1>1, <2>1, <4>1, <4>2 DEF RowsHold, ClosesFit
    <3> QED
      BY <3>1, <3>2 DEF Close
  <2>3. CompletionIsEarned'
    BY <1>1, <1>2, <1>5 DEF RowsHold, CompletionIsEarned, Completed, Closed, documents
  <2> QED
    BY <1>1, <1>2, <2>1, <2>2, <2>3
       DEF RowsHold, DocumentsTyped, NotesNameIssuedStatements, UnattachedIsFirst, documents
<1>7. Grows
  BY <1>1, <1>2, <1>5 DEF Grows, RowsHold, DocumentsTyped, documents
<1>8. ASSUME NEW r \in RequestRows, r = request'[a] PROVE RequestFits(r)'
  <2> HIDE DEF b, e
  <2>1. WellFormed(r)'
    BY <1>1, <1>3, <1>8 DEF WellFormed, Labels
  <2>2. StandsBehind(r)'
    BY <1>1, <1>3, <1>6, <1>8 DEF StandsBehind, FirstStep, Attaching, RowsHold, DocumentsTyped
  <2> QED
    BY <1>3, <1>4, <1>8, <2>1, <2>2 DEF RequestFits, Closed
<1> QED
  BY <1>3, <1>6, <1>7, <1>8, StepKeepsInv

\* The posting, then the statement, each once for the batch.
LEMMA PostingsKeepInv ==
    ASSUME CompletionInv, NEW a \in Actors, PostPaid(a) \/ EnsureStatement(a)
    PROVE  CompletionInv'
<1> DEFINE b == request[a].batch
           label == IF request[a].pc = "pay" THEN "statement" ELSE "attach"
<1>1. /\ RowsHold /\ b \in Batches /\ RequestFits(request[a])
      /\ request[a].line \in 1..(Len(Recovers[b]) + 1) /\ request[a].read \in 0..1
      /\ request[a].evidence \in SuppliedEvidence(b)
  BY InvInHalves, RequestTyped DEF PostPaid, EnsureStatement
<1>2. Goto(a, label) /\ label \in Labels /\ UNCHANGED <<closure, remittance, note, version, audit>>
  BY DEF PostPaid, EnsureStatement, Labels
<1>3. /\ request' \in [Actors -> RequestRows]
      /\ \A c \in Actors : c # a => request'[c] = request[c]
      /\ request'[a].pc = label /\ request'[a].batch = b
      /\ request'[a].evidence = request[a].evidence
      /\ request'[a].line = request[a].line /\ request'[a].read = request[a].read
  BY <1>2, GotoTyped
<1>4. /\ paid \subseteq paid' /\ paid' \subseteq Batches \ ZeroNet
      /\ statement \subseteq statement' /\ statement' \subseteq Batches
  BY <1>1 DEF PostPaid, EnsureStatement, RowsHold, DocumentsTyped, RequestFits, StandsBehind
<1>5. /\ b \in paid' <=> b \notin ZeroNet
      /\ label = "attach" => b \in statement'
  BY <1>1, <1>4 DEF PostPaid, EnsureStatement, RequestFits, StandsBehind
<1>6. RowsHold'
  <2>1. DocumentsTyped'
    BY <1>1, <1>2, <1>4 DEF RowsHold, DocumentsTyped
  <2>2. CompletionIsEarned'
    BY <1>1, <1>2, <1>4 DEF RowsHold, CompletionIsEarned, Completed, Closed
  <2>3. NotesNameIssuedStatements'
    BY <1>1, <1>2, <1>4 DEF RowsHold, NotesNameIssuedStatements
  <2> QED
    BY <1>1, <1>2, <2>1, <2>2, <2>3 DEF RowsHold, ClosesFit, UnattachedIsFirst
<1>7. Grows
  BY <1>1, <1>2, <1>4 DEF Grows, RowsHold, DocumentsTyped
<1>8. ASSUME NEW r \in RequestRows, r = request'[a] PROVE RequestFits(r)'
  <2>1. /\ request[a].line = 1 /\ Closed(b) /\ remittance[b] = request[a].evidence
        /\ label \in {"statement", "attach"}
    BY <1>1 DEF PostPaid, EnsureStatement, RequestFits, StandsBehind, Labels
  <2> HIDE DEF b, label
  <2>2. WellFormed(r)'
    BY <1>1, <1>3, <1>8, <2>1 DEF WellFormed, Labels
  <2>3. StandsBehind(r)'
    BY <1>3, <1>5, <1>8, <2>1 DEF StandsBehind, Attaching
  <2> QED
    BY <1>2, <1>3, <1>8, <2>1, <2>2, <2>3 DEF RequestFits, Closed
<1> QED
  BY <1>3, <1>6, <1>7, <1>8, StepKeepsInv

\* What a request among its lines knows.
LEMMA AmongLines ==
    ASSUME CompletionInv, NEW a \in Actors, request[a].pc \in Attaching,
           request[a].pc = "attach" => LinesLeft(a)
    PROVE  /\ request[a].line \in DOMAIN Recovers[request[a].batch] /\ Line(a) \in Notes
           /\ request[a].line \in Nat /\ request[a].batch \in Batches
           /\ request[a].line + 1 \in 1..(Len(Recovers[request[a].batch]) + 1)
           /\ request[a].read \in 0..1
           /\ request[a].pc # "attach" => request[a].read = 1
           /\ request[a].evidence \in SuppliedEvidence(request[a].batch)
           /\ Closed(request[a].batch) /\ remittance[request[a].batch] = request[a].evidence
           /\ request[a].batch \in paid <=> request[a].batch \notin ZeroNet
           /\ request[a].batch \in statement
           /\ \A k \in 1..(request[a].line - 1) :
                 note[Recovers[request[a].batch][k]].batch # Unattached
           /\ request[a].pc \in {"attach_version", "attach_audit"} =>
                 note[Line(a)].batch # Unattached
           /\ request[a].pc = "attach_audit" => [note |-> Line(a), number |-> 2] \in version
<1> DEFINE r == request[a]
<1>1. /\ r \in RequestRows /\ RequestFits(r) /\ r.batch \in Batches
      /\ r.line \in 1..(Len(Recovers[r.batch]) + 1) /\ r.read \in 0..1
      /\ r.evidence \in SuppliedEvidence(r.batch)
  BY RequestTyped DEF Attaching
<1>2. Len(Recovers[r.batch]) \in Nat /\ DOMAIN Recovers[r.batch] = 1..Len(Recovers[r.batch])
  BY <1>1, LinesAreNotes
<1>3. r.pc \in Labels \ {"idle", "close"}
  BY DEF Attaching, Labels
<1>4. StandsBehind(r) /\ Closed(r.batch) /\ remittance[r.batch] = r.evidence
  BY <1>1, <1>3 DEF RequestFits
<1>5. r.line \in DOMAIN Recovers[r.batch]
  BY <1>1, <1>2, <1>4 DEF StandsBehind, LinesLeft, Attaching
<1>6. Line(a) \in Notes
  BY <1>1, <1>5, LinesAreNotes DEF Line
<1>7. r.line \in Nat /\ r.line + 1 \in 1..(Len(Recovers[r.batch]) + 1)
  BY <1>2, <1>5
<1>8. /\ r.pc # "attach" => r.read = 1
      /\ r.batch \in paid <=> r.batch \notin ZeroNet
      /\ r.batch \in statement
      /\ \A k \in 1..(r.line - 1) : note[Recovers[r.batch][k]].batch # Unattached
      /\ r.pc \in {"attach_version", "attach_audit"} => note[Line(a)].batch # Unattached
      /\ r.pc = "attach_audit" => [note |-> Line(a), number |-> 2] \in version
  BY <1>4 DEF StandsBehind, Attaching, Line
<1> QED
  BY <1>1, <1>4, <1>5, <1>6, <1>7, <1>8

\* Passing to the next line, once the note of this one is attached.
LEMMA NextLineFits ==
    ASSUME CompletionInv, NEW a \in Actors, request[a].pc \in Attaching,
           request[a].pc = "attach" => LinesLeft(a),
           NextLine(a), Grows, note'[Line(a)].batch # Unattached,
           NEW r \in RequestRows, r = request'[a]
    PROVE  RequestFits(r)'
<1> DEFINE q == request[a]
<1>1. /\ r.pc = "attach" /\ r.batch = q.batch /\ r.evidence = q.evidence
      /\ r.line = q.line + 1 /\ r.read = q.read
  BY NextLineTyped
<1>2. /\ q.line \in Nat /\ q.batch \in Batches /\ r.line \in 1..(Len(Recovers[q.batch]) + 1)
      /\ q.read \in 0..1 /\ q.evidence \in SuppliedEvidence(q.batch)
      /\ q.line \in DOMAIN Recovers[q.batch]
      /\ Closed(q.batch) /\ remittance[q.batch] = q.evidence
      /\ q.batch \in paid <=> q.batch \notin ZeroNet
      /\ q.batch \in statement
      /\ \A k \in 1..(q.line - 1) : note[Recovers[q.batch][k]].batch # Unattached
  BY <1>1, AmongLines
<1>3. \A k \in 1..q.line : note'[Recovers[q.batch][k]].batch # Unattached
  <2> SUFFICES ASSUME NEW k \in 1..q.line PROVE note'[Recovers[q.batch][k]].batch # Unattached
    OBVIOUS
  <2>1. Recovers[q.batch][k] \in Notes
    BY <1>2, LinesAreNotes
  <2>2. CASE k = q.line
    BY <2>2 DEF Line
  <2>3. CASE k # q.line
    <3>1. k \in 1..(q.line - 1)
      BY <1>2, <2>3
    <3> QED
      BY <1>2, <2>1, <3>1 DEF Grows
  <2> QED
    BY <2>2, <2>3
<1>4. r.line - 1 = q.line
  BY <1>1, <1>2
<1> HIDE DEF q
<1>5. WellFormed(r)'
  BY <1>1, <1>2 DEF WellFormed, Labels
<1>6. StandsBehind(r)'
  BY <1>1, <1>2, <1>3, <1>4 DEF StandsBehind, Attaching, Grows
<1>7. Closed(r.batch)' /\ remittance'[r.batch] = r.evidence
  BY <1>1, <1>2 DEF Grows, Closed
<1> QED
  BY <1>5, <1>6, <1>7 DEF RequestFits

\* A note is read: passed over when it has its statement.
LEMMA AttachReadKeepsInv ==
    ASSUME CompletionInv, NEW a \in Actors, AttachRead(a)
    PROVE  CompletionInv'
<1> DEFINE q == request[a]
<1>1. /\ q.pc = "attach" /\ LinesLeft(a) /\ q.pc \in Attaching
      /\ UNCHANGED <<closure, remittance, documents>>
  BY DEF AttachRead, Attaching
<1>2. RowsHold /\ RowsHold' /\ Grows
  BY <1>1, TablesStand, InvInHalves
<1>3. Line(a) \in Notes /\ q.line \in DOMAIN Recovers[q.batch]
  BY <1>1, AmongLines
<1>4. CASE note[Line(a)].batch # Unattached
  <2>1. NextLine(a) /\ note'[Line(a)].batch # Unattached
    BY <1>1, <1>4 DEF AttachRead, documents
  <2> QED
    BY <1>1, <1>2, <2>1, NextLineTyped, NextLineFits, StepKeepsInv
<1>5. CASE note[Line(a)].batch = Unattached
  <2>1. note[Line(a)].version = 1
    BY <1>2, <1>3, <1>5 DEF RowsHold, UnattachedIsFirst
  <2>2. request' = [request EXCEPT ![a].pc = "attach_head", ![a].read = 1]
    BY <1>5, <2>1 DEF AttachRead
  <2>3. /\ request' \in [Actors -> RequestRows]
        /\ \A c \in Actors : c # a => request'[c] = request[c]
        /\ request'[a].pc = "attach_head" /\ request'[a].batch = q.batch
        /\ request'[a].evidence = q.evidence
        /\ request'[a].line = q.line /\ request'[a].read = 1
    <3> DEFINE new == [request[a] EXCEPT !.pc = "attach_head", !.read = 1]
    <3>1. /\ new \in RequestRows /\ new.pc = "attach_head" /\ new.batch = q.batch
          /\ new.evidence = q.evidence /\ new.line = q.line /\ new.read = 1
      <4>1. q \in RequestRows /\ 1 \in 0..1 /\ "attach_head" \in Labels
        BY RequestTyped DEF Labels
      <4> HIDE DEF q
      <4>2. new = [q EXCEPT !.pc = "attach_head", !.read = 1]
        BY DEF q
      <4> HIDE DEF new
      <4> QED
        BY <4>1, <4>2 DEF RequestRows
    <3>2. request' = [request EXCEPT ![a] = new]
      BY <2>2, RequestTyped
    <3> HIDE DEF new, q
    <3> QED
      BY <3>1, <3>2, RequestTyped
  <2>4. ASSUME NEW r \in RequestRows, r = request'[a] PROVE RequestFits(r)'
    <3>1. RequestFits(q) /\ q \in RequestRows /\ q # NoRequest
      BY <1>1, RequestTyped DEF NoRequest
    <3> HIDE DEF q
    <3>3. WellFormed(r)'
      BY <1>1, <2>3, <2>4, <3>1 DEF RequestFits, WellFormed, Labels
    <3>4. Closed(r.batch)' /\ remittance'[r.batch] = r.evidence
      BY <1>1, <2>3, <2>4, <3>1 DEF RequestFits, Labels, Closed
    <3>5. StandsBehind(r)'
      BY <1>1, <1>3, <2>3, <2>4, <3>1 DEF RequestFits, StandsBehind, Attaching, documents
    <3> QED
      BY <3>3, <3>4, <3>5 DEF RequestFits
  <2> QED
    BY <1>2, <2>3, <2>4, StepKeepsInv
<1> QED
  BY <1>4, <1>5

\* The head of the note: written once, by a batch that recovered it and has its
\* statement.
LEMMA AttachHeadKeepsInv ==
    ASSUME CompletionInv, NEW a \in Actors, AttachHead(a)
    PROVE  CompletionInv'
<1> DEFINE q == request[a]
           n == Line(a)
<1>1. /\ q.pc = "attach_head" /\ q.pc \in Attaching
      /\ UNCHANGED <<closure, remittance, paid, statement, version, audit>>
  BY DEF AttachHead, Attaching
<1>2. RowsHold
  BY InvInHalves
<1>3. /\ n \in Notes /\ q.line \in DOMAIN Recovers[q.batch] /\ q.batch \in Batches
      /\ q.read = 1 /\ q.batch \in statement /\ n = Recovers[q.batch][q.line]
  BY <1>1, AmongLines DEF Line
<1>4. CASE note[n].batch # Unattached
  <2>1. NextLine(a) /\ UNCHANGED documents
    BY <1>1, <1>4 DEF AttachHead, StillUnattached, documents
  <2>2. RowsHold' /\ Grows
    BY <1>1, <2>1, TablesStand
  <2>3. note'[Line(a)].batch # Unattached
    BY <1>4, <2>1 DEF documents
  <2> QED
    BY <1>1, <2>1, <2>2, <2>3, NextLineTyped, NextLineFits, StepKeepsInv
<1>5. CASE note[n].batch = Unattached
  <2> DEFINE row == [batch |-> q.batch, version |-> 2]
  <2>1. note' = [note EXCEPT ![n] = row] /\ Goto(a, "attach_version")
    BY <1>3, <1>5 DEF AttachHead, StillUnattached
  <2>2. /\ row \in [batch : Batches \cup {Unattached}, version : {1, 2}]
        /\ row.batch = q.batch /\ row.version = 2 /\ row.batch # Unattached
    BY <1>3, CompletionAssumption DEF Unattached
  <2> HIDE DEF row, n
  <2>3. /\ note' \in [Notes -> [batch : Batches \cup {Unattached}, version : {1, 2}]]
        /\ \A m \in Notes : note'[m] = IF m = n THEN row ELSE note[m]
    BY <1>2, <1>3, <2>1, <2>2 DEF RowsHold, DocumentsTyped
  <2>4. Grows
    BY <1>1, <1>2, <1>5, <2>3 DEF Grows, RowsHold, DocumentsTyped
  <2>5. RowsHold'
    <3>1. DocumentsTyped'
      BY <1>1, <1>2, <2>3 DEF RowsHold, DocumentsTyped
    <3>2. CompletionIsEarned'
      <4>1. \A b \in Batches : \A k \in DOMAIN Recovers[b] :
               note[Recovers[b][k]].batch # Unattached => note'[Recovers[b][k]].batch # Unattached
        BY <2>4, LinesAreNotes DEF Grows
      <4> QED
        BY <1>1, <1>2, <4>1 DEF RowsHold, CompletionIsEarned, Completed, Closed
    <3>3. NotesNameIssuedStatements'
      <4> SUFFICES ASSUME NEW m \in Notes, note'[m].batch # Unattached
                   PROVE  /\ note'[m].batch \in statement
                          /\ \E k \in DOMAIN Recovers[note'[m].batch] :
                                Recovers[note'[m].batch][k] = m
        BY <1>1, <1>2 DEF RowsHold, NotesNameIssuedStatements
      <4>1. CASE m = n
        <5>1. note'[m].batch = q.batch /\ Recovers[q.batch][q.line] = m
          BY <1>3, <2>2, <2>3, <4>1
        <5> HIDE DEF q
        <5> QED
          BY <1>3, <5>1
      <4>2. CASE m # n
        BY <1>2, <2>3, <4>2 DEF RowsHold, NotesNameIssuedStatements
      <4> QED
        BY <4>1, <4>2
    <3>4. UnattachedIsFirst'
      BY <1>2, <2>2, <2>3 DEF RowsHold, UnattachedIsFirst
    <3> QED
      BY <1>1, <1>2, <3>1, <3>2, <3>3, <3>4 DEF RowsHold, ClosesFit
  <2>6. /\ request' \in [Actors -> RequestRows]
        /\ \A c \in Actors : c # a => request'[c] = request[c]
        /\ request'[a].pc = "attach_version" /\ request'[a].batch = q.batch
        /\ request'[a].evidence = q.evidence
        /\ request'[a].line = q.line /\ request'[a].read = q.read
    BY <2>1, GotoTyped DEF Labels
  <2>7. ASSUME NEW r \in RequestRows, r = request'[a] PROVE RequestFits(r)'
    <3>1. \A s \in RequestRows : RequestFits(s) => RequestFits(s)'
      BY <2>4, FitsSurvives
    <3>2. q \in RequestRows /\ RequestFits(q) /\ note'[n].batch # Unattached
      BY <1>3, <2>2, <2>3, RequestTyped
    <3>3. PICK s \in RequestRows : s = q /\ RequestFits(s)'
      BY <3>1, <3>2
    <3>4. /\ r.pc = "attach_version" /\ r.batch = s.batch /\ r.evidence = s.evidence
          /\ r.line = s.line /\ r.read = s.read /\ s.pc = "attach_head" /\ s # NoRequest
      BY <1>1, <2>6, <2>7, <3>3 DEF NoRequest
    <3>5. WellFormed(r)' /\ Closed(r.batch)' /\ remittance'[r.batch] = r.evidence
      BY <3>3, <3>4 DEF RequestFits, WellFormed, Labels, Closed
    <3>6. note'[Recovers[r.batch][r.line]].batch # Unattached
      BY <1>3, <3>2, <3>3, <3>4
    <3>7. StandsBehind(r)'
      BY <3>3, <3>4, <3>6 DEF RequestFits, StandsBehind, Attaching
    <3> QED
      BY <3>4, <3>5, <3>7 DEF RequestFits
  <2> QED
    BY <2>4, <2>5, <2>6, <2>7, StepKeepsInv
<1> QED
  BY <1>4, <1>5

\* The version row, then the audit of the attachment, then the next line.
LEMMA AttachVersionKeepsInv ==
    ASSUME CompletionInv, NEW a \in Actors, AttachVersion(a)
    PROVE  CompletionInv'
<1> DEFINE q == request[a]
           row == [note |-> Line(a), number |-> 2]
<1>1. q.pc = "attach_version" /\ q.pc \in Attaching
  BY DEF AttachVersion, Attaching
<1>2. RowsHold
  BY InvInHalves
<1>3. /\ Line(a) \in Notes /\ q.line \in DOMAIN Recovers[q.batch]
      /\ q.read = 1 /\ Line(a) = Recovers[q.batch][q.line]
  BY <1>1, AmongLines DEF Line
<1>4. /\ version' = version \cup {row} /\ Goto(a, "attach_audit")
      /\ UNCHANGED <<closure, remittance, paid, statement, note, audit>>
  BY <1>3 DEF AttachVersion
<1>5. row \in [note : Notes, number : {1, 2}] /\ row \in version'
  BY <1>3, <1>4
<1> HIDE DEF row
<1>6. Grows
  BY <1>2, <1>4 DEF Grows, RowsHold, DocumentsTyped
<1>7. RowsHold'
  BY <1>2, <1>4, <1>5
     DEF RowsHold, ClosesFit, DocumentsTyped, CompletionIsEarned, Completed, Closed,
         NotesNameIssuedStatements, UnattachedIsFirst
<1>8. /\ request' \in [Actors -> RequestRows]
      /\ \A c \in Actors : c # a => request'[c] = request[c]
      /\ request'[a].pc = "attach_audit" /\ request'[a].batch = q.batch
      /\ request'[a].evidence = q.evidence
      /\ request'[a].line = q.line /\ request'[a].read = q.read
  BY <1>4, GotoTyped DEF Labels
<1>9. ASSUME NEW r \in RequestRows, r = request'[a] PROVE RequestFits(r)'
  <2>1. \A s \in RequestRows : RequestFits(s) => RequestFits(s)'
    BY <1>6, FitsSurvives
  <2>2. PICK s \in RequestRows : s = q /\ RequestFits(s)'
    BY <2>1, RequestTyped
  <2>3. /\ r.pc = "attach_audit" /\ r.batch = s.batch /\ r.evidence = s.evidence
        /\ r.line = s.line /\ r.read = s.read /\ s.pc = "attach_version" /\ s # NoRequest
    BY <1>1, <1>8, <1>9, <2>2 DEF NoRequest
  <2>4. WellFormed(r)' /\ Closed(r.batch)' /\ remittance'[r.batch] = r.evidence
    BY <2>2, <2>3 DEF RequestFits, WellFormed, Labels, Closed
  <2>5. [note |-> Recovers[r.batch][r.line], number |-> 2] \in version'
    BY <1>3, <1>5, <2>2, <2>3 DEF row
  <2>6. StandsBehind(r)'
    BY <2>2, <2>3, <2>5 DEF RequestFits, StandsBehind, Attaching
  <2> QED
    BY <2>3, <2>4, <2>6 DEF RequestFits
<1> QED
  BY <1>6, <1>7, <1>8, <1>9, StepKeepsInv

\* The audit of an attachment, and the step to the next line, keep the invariant.
LEMMA AttachAuditKeepsInv ==
    ASSUME CompletionInv, NEW a \in Actors, AttachAudit(a)
    PROVE  CompletionInv'
<1>1. /\ request[a].pc = "attach_audit" /\ request[a].pc \in Attaching /\ NextLine(a)
      /\ audit' = audit \cup {<<"attached", Line(a)>>}
      /\ UNCHANGED <<closure, remittance, paid, statement, note, version>>
  BY DEF AttachAudit, Attaching
<1>2. RowsHold
  BY InvInHalves
<1>3. /\ Line(a) \in Notes /\ note[Line(a)].batch # Unattached
      /\ [note |-> Line(a), number |-> 2] \in version
  BY <1>1, AmongLines
<1>4. Grows
  BY <1>1, <1>2 DEF Grows, RowsHold, DocumentsTyped
<1>5. RowsHold'
  <2>1. \A b \in Batches : Completed(b)' => Completed(b)
    BY <1>1 DEF Completed
  <2>2. CompletionIsEarned'
    BY <1>1, <1>2, <2>1 DEF RowsHold, CompletionIsEarned, Closed
  <2>3. NotesNameIssuedStatements'
    BY <1>1, <1>2, <1>3 DEF RowsHold, NotesNameIssuedStatements
  <2> QED
    BY <1>1, <1>2, <2>2, <2>3 DEF RowsHold, ClosesFit, DocumentsTyped, UnattachedIsFirst
<1>6. note'[Line(a)].batch # Unattached
  BY <1>1, <1>3
<1> QED
  BY <1>1, <1>4, <1>5, <1>6, NextLineTyped, NextLineFits, StepKeepsInv

\* The completion audit: every line has been passed, so every note is attached.
LEMMA AuditCompletionKeepsInv ==
    ASSUME CompletionInv, NEW a \in Actors, AuditCompletion(a)
    PROVE  CompletionInv'
<1> DEFINE q == request[a]
<1>1. /\ q.pc = "attach" /\ ~LinesLeft(a)
      /\ audit' = audit \cup {<<"completed", q.batch>>}
      /\ request' = [request EXCEPT ![a] = NoRequest]
      /\ UNCHANGED <<closure, remittance, paid, statement, note, version>>
  BY DEF AuditCompletion
<1>2. RowsHold /\ RequestFits(q) /\ q.batch \in Batches
      /\ q.line \in 1..(Len(Recovers[q.batch]) + 1)
  BY <1>1, InvInHalves, RequestTyped
<1>3. Grows
  BY <1>1, <1>2 DEF Grows, RowsHold, DocumentsTyped
<1>4. /\ Closed(q.batch) /\ q.batch \in statement
      /\ q.batch \in paid <=> q.batch \notin ZeroNet
      /\ \A k \in DOMAIN Recovers[q.batch] : note[Recovers[q.batch][k]].batch # Unattached
  <2>1. /\ Len(Recovers[q.batch]) \in Nat
        /\ DOMAIN Recovers[q.batch] = 1..Len(Recovers[q.batch])
    BY <1>2, LinesAreNotes
  <2>2. DOMAIN Recovers[q.batch] = 1..(q.line - 1)
    BY <1>1, <1>2, <2>1 DEF LinesLeft
  <2>3. StandsBehind(q) /\ Closed(q.batch)
    BY <1>1, <1>2 DEF RequestFits, Labels
  <2> HIDE DEF q
  <2> QED
    BY <1>1, <2>2, <2>3 DEF StandsBehind, Attaching
<1>5. RowsHold'
  <2>1. CompletionIsEarned'
    <3> HIDE DEF q
    <3>1. \A b \in Batches : Completed(b)' => Completed(b) \/ b = q.batch
      BY <1>1 DEF Completed
    <3> QED
      BY <1>1, <1>2, <1>4, <3>1 DEF RowsHold, CompletionIsEarned, Closed
  <2>2. NotesNameIssuedStatements'
    BY <1>1, <1>2 DEF RowsHold, NotesNameIssuedStatements
  <2> QED
    BY <1>1, <1>2, <2>1, <2>2 DEF RowsHold, ClosesFit, DocumentsTyped, UnattachedIsFirst
<1> QED
  BY <1>1, <1>3, <1>5, RequestTyped, NoRequestFits, StepKeepsInv

\* One step of the chain, or none.
LEMMA NextKeepsInv == CompletionInv /\ [Next]_vars => CompletionInv'
<1> SUFFICES ASSUME CompletionInv, [Next]_vars PROVE CompletionInv'
  OBVIOUS
<1>1. CASE UNCHANGED vars
  <2>1. RowsHold' /\ Grows /\ UNCHANGED request
    BY <1>1, TablesStand DEF vars, documents
  <2>2. request \in [Actors -> RequestRows] /\ \A c \in Actors : RequestFits(request[c])
    BY InvInHalves
  <2>3. \A c \in Actors : RequestFits(request[c])'
    BY <1>1, <2>2 DEF vars, RequestFits, WellFormed, StandsBehind, Closed
  <2> QED
    BY <2>1, <2>2, <2>3, HalvesMakeInv
<1>2. ASSUME NEW a \in Actors, NEW b \in Batches, NEW e \in SuppliedEvidence(b),
             Execute(a, b, e) \/ Heal(a, b, e)
      PROVE  CompletionInv'
  BY <1>2, EntersKeepInv
<1>3. ASSUME NEW a \in Actors, Chain(a) \/ Crash(a) PROVE CompletionInv'
  BY <1>3, CloseKeepsInv, PostingsKeepInv, AttachReadKeepsInv, AttachHeadKeepsInv,
     AttachVersionKeepsInv, AttachAuditKeepsInv, AuditCompletionKeepsInv, EndsKeepInv
     DEF Chain
<1> QED
  BY <1>1, <1>2, <1>3 DEF Next

\* Wherever requests die, a request stands behind what it has done and no other
\* request undoes it.
THEOREM CompletionInvariant == Spec => []CompletionInv
  BY InitEstablishesInv, NextKeepsInv, PTL DEF Spec

\* The chain behind a close is earned: the completion audit of a batch means
\* its close, its posting unless nothing moved, its statement and every note it
\* recovered attached; a note names a batch that recovered it and has its
\* statement; and nobody in the chain is without the evidence of the movement.
THEOREM ChainsAreEarned == Spec => []ChainIsEarned
<1>1. CompletionInv => ChainIsEarned
  BY DEF CompletionInv
<1> QED
  BY <1>1, CompletionInvariant, PTL

\* The statement of a credit note is attached once: no later batch that also
\* recovers the debt, and no retry, writes over it.
THEOREM NotesAttachedOnce == Spec => AttachedOnce
<1> DEFINE Kept == \A n \in Notes : note[n].batch # Unattached => note'[n] = note[n]
<1>1. ASSUME CompletionInv, [Next]_vars PROVE [Kept]_vars
  <2>1. CASE note' = note
    BY <2>1
  <2>2. ASSUME NEW a \in Actors, AttachHead(a) PROVE Kept
    <3>1. note \in [Notes -> [batch : Batches \cup {Unattached}, version : {1, 2}]]
      BY <1>1, InvInHalves DEF RowsHold, DocumentsTyped
    <3> QED
      BY <2>2, <3>1 DEF AttachHead, StillUnattached
  <2> QED
    BY <1>1, <2>1, <2>2
       DEF Next, vars, Execute, Heal, Chain, Close, PostPaid, EnsureStatement, AttachRead,
           AttachVersion, AttachAudit, AuditCompletion, Refuse, Crash, documents
<1>2. CompletionInv /\ [Next]_vars => [Kept]_vars
  BY <1>1
<1> QED
  BY <1>2, CompletionInvariant, PTL DEF Spec, AttachedOnce
=============================================================================
