--------------------------- MODULE CorporateProofs ---------------------------
(***************************************************************************)
(* Proofs about the corporate side: a campaign with its queue and its      *)
(* claims, for any contacts, sweeps, recipients and users, the books of    *)
(* the treasury, for any events, dates, desks and runs, and the documents  *)
(* of the deals, for any deals, clerks and approvers.                      *)
(***************************************************************************)
EXTENDS CorporateCampaign, CorporateInvoicing, Treasury, SumTheorems, TLAPS

-----------------------------------------------------------------------------
(***************************************************************************)
(* One step of a sweep, an export or a recipient.                          *)
(***************************************************************************)

\* A minting keeps the types of the claim: its number stays within the bound.
LEMMA MintTyped ==
    ASSUME DispatchTypeOK, NEW k \in Contacts, Mint(k)
    PROVE  /\ claim' \in [Contacts -> Final \cup {"none", "pending"}]
           /\ token' \in [Contacts -> 0..MaxTokens] /\ lapsed' \subseteq Contacts
<1>1. token[k] + 1 \in 0..MaxTokens
  BY DispatchAssumption DEF DispatchTypeOK, Mint
<1> QED
  BY <1>1 DEF DispatchTypeOK, Mint, MintStatus

\* Only the winner of the conditional update goes on to mint.
LEMMA ClaimJobKeepsInv ==
    ASSUME DispatchInv, NEW w \in Workers, ClaimJob(w)
    PROVE  DispatchInv'
<1> USE DEF Unclaimed
<1>0. /\ work[w] \in [pc : {"idle", "claim", "mint", "write", "deliver"},
                       of : Contacts \cup {"none"}, tries : Nat]
      /\ work[w].of \in Contacts /\ attempts[work[w].of] \in Nat
  BY DEF ClaimJob, DispatchInv, DispatchTypeOK, SweepFits
<1>1. DispatchTypeOK'
  <2>1. attempts' \in [Contacts -> Nat] /\ [job EXCEPT ![work[w].of] = "processing"]
           \in [Contacts -> {"none", "pending", "processing", "dispatched", "failed"}]
    BY <1>0 DEF ClaimJob, DispatchInv, DispatchTypeOK, queueTables
  <2>2. work' \in [Workers -> [pc : {"idle", "claim", "mint", "write", "deliver"},
                               of : Contacts \cup {"none"}, tries : Nat]]
    BY <1>0 DEF ClaimJob, DispatchInv, DispatchTypeOK, NoWork
  <2> QED
    BY <2>1, <2>2 DEF ClaimJob, DispatchInv, DispatchTypeOK, queueTables, claimTables
<1>2. \A z \in Workers : SweepFits(z)'
  <2>1. /\ \A z \in Workers : z # w => work'[z] = work[z]
        /\ \/ work'[w] = NoWork
           \/ work'[w].pc = "mint" /\ work'[w].of = work[w].of /\ job'[work[w].of] = "processing"
    BY <1>0 DEF ClaimJob, DispatchInv, DispatchTypeOK
  <2>2. /\ \A k \in Contacts : job'[k] = job[k] \/ job'[k] = "processing"
        /\ token' = token
    BY DEF ClaimJob, DispatchInv, DispatchTypeOK, queueTables, claimTables
  <2>3. ASSUME NEW z \in Workers, z # w PROVE SweepFits(z)'
    BY <2>1, <2>2, <2>3 DEF DispatchInv, SweepFits
  <2>4. SweepFits(w)'
    BY <1>0, <2>1 DEF SweepFits, NoWork, Holding
  <2> QED
    BY <2>3, <2>4
<1>3. HeldByOne'
  <2>1. \A z \in Workers : z # w => work'[z] = work[z]
    BY DEF ClaimJob, DispatchInv, DispatchTypeOK
  <2>2. work'[w].pc \in Holding => job[work[w].of] = "pending" /\ work'[w].of = work[w].of
    BY DEF ClaimJob, DispatchInv, DispatchTypeOK, NoWork, Holding
  <2>3. \A z \in Workers : work[z].pc \in Holding => job[work[z].of] = "processing"
    BY DEF DispatchInv, SweepFits, Holding
  <2> QED
    BY <2>1, <2>2, <2>3 DEF DispatchInv, HeldByOne
<1>4. ExportFits'
  BY DEF ClaimJob, DispatchInv, queueTables, claimTables, DispatchTypeOK, ExportFits
<1>5. \A z \in Visits : VisitFits(z)'
  BY DEF ClaimJob, DispatchInv, claimTables, VisitFits
<1>6. \A z \in Contacts : ClaimFits(z)'
  BY DEF ClaimJob, DispatchInv, queueTables, claimTables, DispatchTypeOK, ClaimFits
<1> QED
  BY <1>1, <1>2, <1>3, <1>4, <1>5, <1>6 DEF DispatchInv

\* A job whose claim cannot be minted fails; the others wait for their token.
LEMMA MintCheckKeepsInv ==
    ASSUME DispatchInv, NEW w \in Workers, MintCheck(w)
    PROVE  DispatchInv'
<1>0. work[w].of \in Contacts /\ job[work[w].of] = "processing"
  BY DEF MintCheck, DispatchInv, SweepFits, Holding
<1>1. DispatchTypeOK'
  <2>1. job' \in [Contacts -> {"none", "pending", "processing", "dispatched", "failed"}]
    BY <1>0 DEF MintCheck, DispatchInv, DispatchTypeOK
  <2>2. work' \in [Workers -> [pc : {"idle", "claim", "mint", "write", "deliver"},
                               of : Contacts \cup {"none"}, tries : Nat]]
    <3> DEFINE W == [pc : {"idle", "claim", "mint", "write", "deliver"}, of : Contacts \cup {"none"}, tries : Nat]
    <3>1. work \in [Workers -> W] /\ NoWork \in W
      BY DEF DispatchInv, DispatchTypeOK, NoWork
    <3>2. work[w] \in W /\ [work[w] EXCEPT !.pc = "write"] \in W
      BY <3>1
    <3>3. work' = [work EXCEPT ![w] = NoWork] \/ work' = [work EXCEPT ![w] = [work[w] EXCEPT !.pc = "write"]]
      BY DEF MintCheck
    <3> HIDE DEF W
    <3>4. work' \in [Workers -> W]
      BY <3>1, <3>2, <3>3
    <3> QED
      BY <3>4 DEF W
  <2> QED
    BY <2>1, <2>2 DEF MintCheck, DispatchInv, DispatchTypeOK, claimTables
<1>2. \A z \in Workers : SweepFits(z)'
  <2>1. SweepFits(w)'
    BY <1>0 DEF MintCheck, DispatchInv, DispatchTypeOK, SweepFits, NoWork
  <2>2. ASSUME NEW z \in Workers, z # w PROVE SweepFits(z)'
    <3>1. work'[z] = work[z] /\ token' = token /\ SweepFits(z)
      BY <2>2 DEF MintCheck, DispatchInv, DispatchTypeOK, claimTables
    <3>2. /\ \A x \in Contacts : x # work[w].of => job'[x] = job[x]
          /\ job'[work[w].of] # "none"
      <4>1. job \in [Contacts -> {"none", "pending", "processing", "dispatched", "failed"}]
        BY DEF DispatchInv, DispatchTypeOK
      <4>2. job' = job \/ job' = [job EXCEPT ![work[w].of] = "failed"]
        BY DEF MintCheck
      <4> QED
        BY <1>0, <4>1, <4>2
    <3>3. work[z].pc \in Holding => work[z].of # work[w].of
      BY <2>2 DEF MintCheck, DispatchInv, HeldByOne, Holding
    <3> QED
      BY <3>1, <3>2, <3>3 DEF SweepFits
  <2> QED
    BY <2>1, <2>2
<1>3. HeldByOne'
  BY DEF MintCheck, DispatchInv, DispatchTypeOK, HeldByOne, NoWork, Holding
<1>4. ExportFits'
  BY DEF MintCheck, DispatchInv, claimTables, DispatchTypeOK, ExportFits, SweepFits, Holding
<1>5. \A z \in Visits : VisitFits(z)'
  BY DEF MintCheck, DispatchInv, claimTables, VisitFits
<1>6. \A z \in Contacts : ClaimFits(z)'
  <2>1. \A k \in Contacts : job'[k] = job[k] \/ (job[k] = "processing" /\ job'[k] = "failed")
    BY <1>0 DEF MintCheck, DispatchInv, DispatchTypeOK
  <2>2. UNCHANGED <<claimTables, export, lost>>
    BY DEF MintCheck
  <2> QED
    BY <2>1, <2>2 DEF DispatchInv, claimTables, ClaimFits
<1> QED
  BY <1>1, <1>2, <1>3, <1>4, <1>5, <1>6 DEF DispatchInv

\* A minting opens a claim and changes the status of none that exists.
LEMMA MintWriteKeepsInv ==
    ASSUME DispatchInv, NEW w \in Workers, MintWrite(w)
    PROVE  DispatchInv'
<1>1. DispatchTypeOK'
  <2>1. work[w].of \in Contacts
    BY DEF MintWrite, DispatchInv, SweepFits
  <2>2. work' \in [Workers -> [pc : {"idle", "claim", "mint", "write", "deliver"},
                               of : Contacts \cup {"none"}, tries : Nat]]
    BY DEF MintWrite, DispatchInv, DispatchTypeOK
  <2> QED
    BY <2>1, <2>2, MintTyped DEF MintWrite, DispatchInv, DispatchTypeOK, queueTables, Mint
<1>2. \A z \in Workers : SweepFits(z)'
  BY DEF MintWrite, Mint, DispatchInv, queueTables, DispatchTypeOK, SweepFits, Holding
<1>3. HeldByOne'
  BY DEF MintWrite, DispatchInv, HeldByOne, Holding
<1>4. ExportFits'
  BY DEF MintWrite, Mint, DispatchInv, queueTables, ExportFits, SweepFits, Holding
<1>5. \A z \in Visits : VisitFits(z)'
  BY DEF MintWrite, Mint, DispatchInv, VisitFits
<1>6. \A z \in Contacts : ClaimFits(z)'
  BY DEF MintWrite, Mint, MintStatus, DispatchInv, queueTables, ClaimFits, SweepFits, Outcomes,
      Holding
<1> QED
  BY <1>1, <1>2, <1>3, <1>4, <1>5, <1>6 DEF DispatchInv

\* The job of a delivery is dispatched, pending again, or failed; no link moves.
LEMMA DeliverKeepsInv ==
    ASSUME DispatchInv, NEW w \in Workers, Deliver(w)
    PROVE  DispatchInv'
<1> DEFINE W == [pc : {"idle", "claim", "mint", "write", "deliver"}, of : Contacts \cup {"none"}, tries : Nat]
           k == work[w].of
<1>0. k \in Contacts /\ job[k] = "processing"
  BY DEF Deliver, DispatchInv, SweepFits, Holding
<1>1. PICK st \in {"dispatched", "pending", "failed"} : job' = [job EXCEPT ![k] = st]
  BY DEF Deliver, Settled
<1>2. /\ job' \in [Contacts -> {"none", "pending", "processing", "dispatched", "failed"}]
      /\ job'[k] = st /\ \A x \in Contacts : x # k => job'[x] = job[x]
  BY <1>0, <1>1 DEF DispatchInv, DispatchTypeOK
<1>3. work' \in [Workers -> W] /\ work'[w] = NoWork /\ \A z \in Workers : z # w => work'[z] = work[z]
  BY DEF Deliver, DispatchInv, DispatchTypeOK, NoWork
<1>4. UNCHANGED <<contact, due, frozen, attempts, claimTables, visit, export, deaths, lost>>
  BY DEF Deliver
<1>5. DispatchTypeOK'
  BY <1>2, <1>3, <1>4 DEF DispatchInv, DispatchTypeOK, claimTables
<1>6. ASSUME NEW z \in Workers PROVE SweepFits(z)'
  <2>1. CASE z = w
    BY <1>3, <2>1 DEF SweepFits, NoWork
  <2>2. CASE z # w
    <3>1. work[z].pc \in Holding => work[z].of # k
      BY <2>2 DEF Deliver, DispatchInv, HeldByOne, Holding
    <3> QED
      BY <1>1, <1>2, <1>3, <1>4, <2>2, <3>1 DEF DispatchInv, SweepFits, claimTables
  <2> QED
    BY <2>1, <2>2
<1>7. HeldByOne'
  BY <1>3 DEF DispatchInv, HeldByOne, NoWork, Holding
<1>8. ExportFits'
  BY <1>0, <1>2, <1>4 DEF DispatchInv, ExportFits, claimTables
<1>9. \A z \in Visits : VisitFits(z)'
  BY <1>4 DEF DispatchInv, VisitFits, claimTables
<1>10. \A z \in Contacts : ClaimFits(z)'
  BY <1>0, <1>1, <1>2, <1>4 DEF DispatchInv, ClaimFits, claimTables
<1> QED
  BY <1>5, <1>6, <1>7, <1>8, <1>9, <1>10 DEF DispatchInv

\* A sweep that dies leaves its job in processing, held by nobody.
LEMMA SweepDiesKeepsInv ==
    ASSUME DispatchInv, NEW w \in Workers, SweepDies(w)
    PROVE  DispatchInv'
<1>1. DispatchTypeOK'
  <2>1. deaths' \in 0..MaxDeaths
    BY DispatchAssumption DEF SweepDies, DispatchInv, DispatchTypeOK
  <2> QED
    BY <2>1 DEF SweepDies, DispatchInv, DispatchTypeOK, NoWork, queueTables, claimTables
<1>2. \A z \in Workers : SweepFits(z)'
  BY DEF SweepDies, DispatchInv, queueTables, claimTables, SweepFits, NoWork
<1>3. HeldByOne'
  BY DEF SweepDies, DispatchInv, HeldByOne, NoWork, Holding
<1>4. ExportFits'
  BY DEF SweepDies, DispatchInv, queueTables, claimTables, ExportFits
<1>5. \A z \in Visits : VisitFits(z)'
  BY DEF SweepDies, DispatchInv, claimTables, VisitFits
<1>6. \A z \in Contacts : ClaimFits(z)'
  BY DEF SweepDies, DispatchInv, queueTables, claimTables, ClaimFits
<1> QED
  BY <1>1, <1>2, <1>3, <1>4, <1>5, <1>6 DEF DispatchInv

\* The batch read holds nothing yet.
LEMMA SweepReadsKeepsInv ==
    ASSUME DispatchInv, NEW w \in Workers, NEW k \in Contacts, SweepReads(w, k)
    PROVE  DispatchInv'
<1>1. DispatchTypeOK'
  BY DEF SweepReads, DispatchInv, queueTables, claimTables, DispatchTypeOK
<1>2. \A z \in Workers : SweepFits(z)'
  BY DEF SweepReads, DispatchInv, queueTables, claimTables, SweepFits, Holding
<1>3. HeldByOne'
  BY DEF SweepReads, DispatchInv, HeldByOne, Holding
<1>4. ExportFits'
  BY DEF SweepReads, DispatchInv, queueTables, claimTables, ExportFits
<1>5. \A z \in Visits : VisitFits(z)'
  BY DEF SweepReads, DispatchInv, claimTables, VisitFits
<1>6. \A z \in Contacts : ClaimFits(z)'
  BY DEF SweepReads, DispatchInv, queueTables, claimTables, ClaimFits
<1> QED
  BY <1>1, <1>2, <1>3, <1>4, <1>5, <1>6 DEF DispatchInv

\* An export begins with a dispatched job.
LEMMA ExportCheckKeepsInv ==
    ASSUME DispatchInv, NEW k \in Contacts, ExportCheck(k)
    PROVE  DispatchInv'
<1>1. DispatchTypeOK'
  BY DEF ExportCheck, DispatchInv, queueTables, claimTables, DispatchTypeOK
<1>2. \A z \in Workers : SweepFits(z)'
  BY DEF ExportCheck, DispatchInv, queueTables, claimTables, SweepFits
<1>3. HeldByOne'
  BY DEF ExportCheck, DispatchInv, HeldByOne
<1>4. ExportFits'
  BY DEF ExportCheck, queueTables, ExportFits
<1>5. \A z \in Visits : VisitFits(z)'
  BY DEF ExportCheck, DispatchInv, claimTables, VisitFits
<1>6. \A z \in Contacts : ClaimFits(z)'
  BY DEF ExportCheck, DispatchInv, queueTables, claimTables, ClaimFits, NoExport
<1> QED
  BY <1>1, <1>2, <1>3, <1>4, <1>5, <1>6 DEF DispatchInv

\* The export rotates the token of a dispatched job; the link is now its own.
LEMMA ExportMintKeepsInv == ASSUME DispatchInv, ExportMint PROVE DispatchInv'
<1>1. DispatchTypeOK'
  <2>1. export.of \in Contacts
    BY DEF ExportMint, DispatchInv, ExportFits
  <2> QED
    BY <2>1, MintTyped DEF ExportMint, DispatchInv, DispatchTypeOK, queueTables, Mint
<1>2. \A z \in Workers : SweepFits(z)'
  BY DEF ExportMint, Mint, DispatchInv, queueTables, SweepFits, Holding, ExportFits
<1>3. HeldByOne'
  BY DEF ExportMint, DispatchInv, HeldByOne
<1>4. ExportFits'
  BY DEF ExportMint, Mint, DispatchInv, queueTables, DispatchTypeOK, ExportFits
<1>5. \A z \in Visits : VisitFits(z)'
  BY DEF ExportMint, Mint, DispatchInv, VisitFits
<1>6. \A z \in Contacts : ClaimFits(z)'
  <2>1. PICK k \in Contacts : k = export.of
    BY DEF ExportMint, DispatchInv, ExportFits
  <2>2. job[k] = "dispatched" /\ export' = [pc |-> "return", of |-> k]
    BY <2>1 DEF ExportMint, DispatchInv, DispatchTypeOK, ExportFits
  <2>3. /\ \A x \in Contacts : x # k => token'[x] = token[x] /\ claim'[x] = claim[x]
        /\ claim'[k] = claim[k] \/ (claim'[k] = "pending" /\ claim[k] = "none")
    BY <2>1 DEF ExportMint, Mint, MintStatus, DispatchInv, DispatchTypeOK
  <2>4. UNCHANGED <<job, links, delivery, verified, lost>> /\ export.pc = "write"
    BY DEF ExportMint, Mint, queueTables
  <2>5. ASSUME NEW x \in Contacts, x # k PROVE ClaimFits(x)'
    BY <2>2, <2>3, <2>4, <2>5 DEF DispatchInv, ClaimFits
  <2>6. ClaimFits(k)'
    BY <2>2, <2>3, <2>4 DEF DispatchInv, ClaimFits, Outcomes
  <2> QED
    BY <2>5, <2>6
<1> QED
  BY <1>1, <1>2, <1>3, <1>4, <1>5, <1>6 DEF DispatchInv

\* The export hands out the link it has minted.
LEMMA ExportReturnKeepsInv == ASSUME DispatchInv, ExportReturn PROVE DispatchInv'
<1>1. DispatchTypeOK'
  BY DEF ExportReturn, DispatchInv, queueTables, DispatchTypeOK, NoExport, ExportFits
<1>2. \A z \in Workers : SweepFits(z)'
  BY DEF ExportReturn, DispatchInv, queueTables, SweepFits
<1>3. HeldByOne'
  BY DEF ExportReturn, DispatchInv, HeldByOne
<1>4. ExportFits'
  BY DEF ExportReturn, ExportFits, NoExport
<1>5. \A z \in Visits : VisitFits(z)'
  BY DEF ExportReturn, DispatchInv, VisitFits
<1>6. \A z \in Contacts : ClaimFits(z)'
  <2>1. PICK k \in Contacts : k = export.of
    BY DEF ExportReturn, DispatchInv, ExportFits
  <2>2. /\ export.pc = "return" /\ job[k] = "dispatched"
        /\ UNCHANGED <<job, claim, token, delivery, verified>> /\ lost' = lost \ {k}
    BY <2>1 DEF ExportReturn, DispatchInv, ExportFits, queueTables
  <2>3. /\ \A x \in Contacts : x # k => links'[x] = links[x]
        /\ token'[k] \in links'[k]
    BY <2>1 DEF ExportReturn, DispatchInv, DispatchTypeOK
  <2>4. ASSUME NEW x \in Contacts, x # k PROVE ClaimFits(x)'
    <3>1. export # [pc |-> "return", of |-> x]
      BY <2>1, <2>4
    <3> QED
      BY <2>2, <2>3, <2>4, <3>1 DEF DispatchInv, ClaimFits
  <2>5. ClaimFits(k)'
    BY <2>2, <2>3 DEF DispatchInv, ClaimFits
  <2> QED
    BY <2>4, <2>5
<1> QED
  BY <1>1, <1>2, <1>3, <1>4, <1>5, <1>6 DEF DispatchInv

\* An export that fails behind its minting loses the link it has minted.
LEMMA ExportFailsKeepsInv == ASSUME DispatchInv, ExportFails PROVE DispatchInv'
<1>0. lost' \subseteq Contacts /\ lost \subseteq lost'
  BY DEF ExportFails, DispatchInv, DispatchTypeOK, ExportFits
<1>1. DispatchTypeOK'
  BY <1>0 DEF ExportFails, DispatchInv, queueTables, claimTables, DispatchTypeOK, NoExport
<1>2. \A z \in Workers : SweepFits(z)'
  BY DEF ExportFails, DispatchInv, queueTables, claimTables, SweepFits
<1>3. HeldByOne'
  BY DEF ExportFails, DispatchInv, HeldByOne
<1>4. ExportFits'
  BY DEF ExportFails, ExportFits, NoExport
<1>5. \A z \in Visits : VisitFits(z)'
  BY DEF ExportFails, DispatchInv, claimTables, VisitFits
<1>6. \A z \in Contacts : ClaimFits(z)'
  <2>1. UNCHANGED <<job, claimTables>>
    BY DEF ExportFails, queueTables
  <2>2. ASSUME NEW k \in Contacts, export = [pc |-> "return", of |-> k] PROVE k \in lost'
    BY <2>2 DEF ExportFails
  <2> QED
    BY <1>0, <2>1, <2>2 DEF DispatchInv, claimTables, ClaimFits
<1> QED
  BY <1>1, <1>2, <1>3, <1>4, <1>5, <1>6 DEF DispatchInv

\* Only a pending claim expires.
LEMMA LazyExpiryKeepsInv ==
    ASSUME DispatchInv, NEW k \in Contacts, LazyExpiry(k)
    PROVE  DispatchInv'
<1>1. DispatchTypeOK'
  BY DEF LazyExpiry, procs, DispatchInv, queueTables, DispatchTypeOK, Final
<1>2. \A z \in Workers : SweepFits(z)'
  BY DEF LazyExpiry, procs, DispatchInv, queueTables, SweepFits
<1>3. HeldByOne'
  BY DEF LazyExpiry, procs, DispatchInv, HeldByOne
<1>4. ExportFits'
  BY DEF LazyExpiry, procs, DispatchInv, queueTables, ExportFits
<1>5. \A z \in Visits : VisitFits(z)'
  BY DEF LazyExpiry, procs, DispatchInv, VisitFits
<1>6. \A z \in Contacts : ClaimFits(z)'
  BY DEF LazyExpiry, HoldsLink, procs, DispatchInv, queueTables, ClaimFits, Outcomes
<1> QED
  BY <1>1, <1>2, <1>3, <1>4, <1>5, <1>6 DEF DispatchInv

\* One more recipient has shown the code.
LEMMA VerifyOtpKeepsInv ==
    ASSUME DispatchInv, NEW k \in Contacts, VerifyOtp(k)
    PROVE  DispatchInv'
<1>1. DispatchTypeOK'
  BY DEF VerifyOtp, procs, DispatchInv, queueTables, DispatchTypeOK
<1>2. \A z \in Workers : SweepFits(z)'
  BY DEF VerifyOtp, procs, DispatchInv, queueTables, SweepFits
<1>3. HeldByOne'
  BY DEF VerifyOtp, procs, DispatchInv, HeldByOne
<1>4. ExportFits'
  BY DEF VerifyOtp, procs, DispatchInv, queueTables, ExportFits
<1>5. \A z \in Visits : VisitFits(z)'
  BY DEF VerifyOtp, procs, DispatchInv, VisitFits
<1>6. \A z \in Contacts : ClaimFits(z)'
  BY DEF VerifyOtp, procs, DispatchInv, queueTables, ClaimFits
<1> QED
  BY <1>1, <1>2, <1>3, <1>4, <1>5, <1>6 DEF DispatchInv

\* Time passes over a pending claim.
LEMMA ClaimLapsesKeepsInv ==
    ASSUME DispatchInv, NEW k \in Contacts, ClaimLapses(k)
    PROVE  DispatchInv'
<1>1. DispatchTypeOK'
  BY DEF ClaimLapses, procs, DispatchInv, queueTables, DispatchTypeOK
<1>2. \A z \in Workers : SweepFits(z)'
  BY DEF ClaimLapses, procs, DispatchInv, queueTables, SweepFits
<1>3. HeldByOne'
  BY DEF ClaimLapses, procs, DispatchInv, HeldByOne
<1>4. ExportFits'
  BY DEF ClaimLapses, procs, DispatchInv, queueTables, ExportFits
<1>5. \A z \in Visits : VisitFits(z)'
  BY DEF ClaimLapses, procs, DispatchInv, VisitFits
<1>6. \A z \in Contacts : ClaimFits(z)'
  BY DEF ClaimLapses, procs, DispatchInv, queueTables, ClaimFits
<1> QED
  BY <1>1, <1>2, <1>3, <1>4, <1>5, <1>6 DEF DispatchInv

\* A request of a recipient begins with a session.
LEMMA VisitLoadsKeepsInv ==
    ASSUME DispatchInv, NEW k \in Contacts, NEW v \in Visits, NEW to \in Outcomes, VisitLoads(v, k, to)
    PROVE  DispatchInv'
<1>1. DispatchTypeOK'
  BY DEF VisitLoads, DispatchInv, queueTables, claimTables, DispatchTypeOK
<1>2. \A z \in Workers : SweepFits(z)'
  BY DEF VisitLoads, DispatchInv, queueTables, claimTables, SweepFits
<1>3. HeldByOne'
  BY DEF VisitLoads, DispatchInv, HeldByOne
<1>4. ExportFits'
  BY DEF VisitLoads, DispatchInv, queueTables, claimTables, ExportFits
<1>5. \A z \in Visits : VisitFits(z)'
  BY DEF VisitLoads, HasSession, DispatchInv, claimTables, VisitFits
<1>6. \A z \in Contacts : ClaimFits(z)'
  BY DEF VisitLoads, DispatchInv, queueTables, claimTables, ClaimFits
<1> QED
  BY <1>1, <1>2, <1>3, <1>4, <1>5, <1>6 DEF DispatchInv

\* The conditional update decides a claim that is still pending, the address with it.
LEMMA VisitWritesKeepsInv ==
    ASSUME DispatchInv, NEW v \in Visits, VisitWrites(v)
    PROVE  DispatchInv'
<1>1. DispatchTypeOK'
  BY DEF VisitWrites, DispatchInv, queueTables, DispatchTypeOK, NoVisit, Final, VisitFits
<1>2. \A z \in Workers : SweepFits(z)'
  BY DEF VisitWrites, DispatchInv, queueTables, SweepFits
<1>3. HeldByOne'
  BY DEF VisitWrites, DispatchInv, HeldByOne
<1>4. ExportFits'
  BY DEF VisitWrites, DispatchInv, queueTables, ExportFits
<1>5. \A z \in Visits : VisitFits(z)'
  BY DEF VisitWrites, DispatchInv, VisitFits
<1>6. \A z \in Contacts : ClaimFits(z)'
  BY DEF VisitWrites, StillOpen, DispatchInv, queueTables, DispatchTypeOK, ClaimFits, VisitFits
<1> QED
  BY <1>1, <1>2, <1>3, <1>4, <1>5, <1>6 DEF DispatchInv

-----------------------------------------------------------------------------
(***************************************************************************)
(* The queue and the claims.                                               *)
(***************************************************************************)
\* Every step of a sweep, an export or a recipient keeps the invariant.
LEMMA DispatchKeepsInv == ASSUME DispatchInv, DispatchNext PROVE DispatchInv'
  BY ClaimJobKeepsInv, MintCheckKeepsInv, MintWriteKeepsInv, DeliverKeepsInv,
     SweepDiesKeepsInv, SweepReadsKeepsInv, ExportCheckKeepsInv, ExportMintKeepsInv,
     ExportReturnKeepsInv, ExportFailsKeepsInv, LazyExpiryKeepsInv, VerifyOtpKeepsInv,
     ClaimLapsesKeepsInv, VisitLoadsKeepsInv, VisitWritesKeepsInv
     DEF DispatchNext

\* A sweep moves live jobs only: it creates none, and never touches one that is
\* dispatched or has failed.
LEMMA SettledJobsStay ==
    ASSUME DispatchInv, DispatchNext, NEW k \in Contacts,
           job[k] \in {"none", "dispatched", "failed"}
    PROVE  job'[k] = job[k]
<1>1. job \in [Contacts -> {"none", "pending", "processing", "dispatched", "failed"}]
  BY DEF DispatchInv, DispatchTypeOK
<1>2. ASSUME NEW w \in Workers, ClaimJob(w) PROVE job'[k] = job[k]
  BY <1>1, <1>2 DEF ClaimJob, Unclaimed, queueTables
<1>3. ASSUME NEW w \in Workers, MintCheck(w) \/ Deliver(w) PROVE job'[k] = job[k]
  <2>1. job[work[w].of] = "processing"
    BY <1>3 DEF MintCheck, Deliver, DispatchInv, SweepFits, Holding
  <2> QED
    BY <1>1, <1>3, <2>1 DEF MintCheck, Deliver
<1>4. CASE UNCHANGED job
  BY <1>4
<1> QED
  BY <1>2, <1>3, <1>4
     DEF DispatchNext, MintWrite, SweepDies, SweepReads, ExportCheck, LazyExpiry, VerifyOtp,
         ClaimLapses, VisitLoads, ExportMint, ExportReturn, ExportFails, VisitWrites,
         queueTables, procs

\* What the organisation and the retention do to the queue: they add jobs, and
\* take away contacts and the frozen option.
LEMMA OfficeKeepsDispatchInv ==
    ASSUME DispatchInv,
           UNCHANGED <<attempts, claimTables, procs>>,
           contact' \in [Contacts -> {"active", "archived", "gone"}],
           due' \subseteq Contacts, frozen' \in BOOLEAN,
           job' = job \/ \E S : Enqueue(S)
    PROVE  DispatchInv'
<1>1. job' \in [Contacts -> {"none", "pending", "processing", "dispatched", "failed"}]
  BY DEF DispatchInv, DispatchTypeOK, Enqueue
<1>2. DispatchTypeOK'
  BY <1>1 DEF DispatchInv, DispatchTypeOK, claimTables, procs
<1>3. \A k \in Contacts : /\ job[k] # "none" => job'[k] = job[k]
                          /\ job[k] = "none" => job'[k] \in {"none", "pending"}
  BY DEF DispatchInv, DispatchTypeOK, Enqueue
<1>4. ASSUME NEW w \in Workers PROVE SweepFits(w)'
  BY <1>3 DEF DispatchInv, SweepFits, Holding, claimTables, procs
<1>5. HeldByOne'
  BY DEF DispatchInv, HeldByOne, procs
<1>6. ExportFits'
  BY <1>3 DEF DispatchInv, ExportFits, claimTables, procs
<1>7. ASSUME NEW v \in Visits PROVE VisitFits(v)'
  BY DEF DispatchInv, VisitFits, claimTables, procs
<1>8. ASSUME NEW k \in Contacts PROVE ClaimFits(k)'
  BY <1>3 DEF DispatchInv, ClaimFits, claimTables, procs
<1> QED
  BY <1>2, <1>4, <1>5, <1>6, <1>7, <1>8 DEF DispatchInv

\* Nothing is queued at the start.
LEMMA InitDispatch == DispatchInit => DispatchInv
<1> SUFFICES ASSUME DispatchInit PROVE DispatchInv
  OBVIOUS
<1>1. DispatchTypeOK
  <2>1. /\ 0 \in 0..MaxTokens /\ 0 \in 0..MaxDeaths
        /\ NoWork \in [pc : {"idle", "claim", "mint", "write", "deliver"},
                       of : Contacts \cup {"none"}, tries : Nat]
        /\ NoVisit \in [of : Contacts \cup {"none"}, to : Outcomes \cup {"none"}]
        /\ NoExport \in [pc : {"idle", "write", "return"}, of : Contacts \cup {"none"}]
    BY DispatchAssumption DEF NoWork, NoVisit, NoExport
  <2> QED
    BY <2>1 DEF DispatchInit, DispatchTypeOK
<1>2. /\ \A w \in Workers : work[w].pc = "idle"
      /\ \A v \in Visits : visit[v] = NoVisit
      /\ export.pc = "idle"
      /\ \A k \in Contacts : job[k] = "none" /\ claim[k] = "none" /\ k \notin delivery /\ links[k] = {}
  BY DEF DispatchInit, NoWork, NoExport
<1> QED
  BY <1>1, <1>2
     DEF DispatchInv, SweepFits, HeldByOne, Holding, ExportFits, VisitFits, ClaimFits, Outcomes

-----------------------------------------------------------------------------
(***************************************************************************)
(* The campaign.                                                           *)
(***************************************************************************)
\* The requests keep their shape when one of them begins.
LEMMA LoadsKeepInv ==
    ASSUME CampaignInv, NEW c \in OrgCalls,
           NEW pc \in {"option", "add", "remove", "submit", "approve", "changes", "cancel",
                       "dispatch"},
           NEW u \in Users \cup {"none"}, NEW k \in Contacts \cup {"none"},
           NEW opt \in 0..MaxOptions, NEW who \in SUBSET Contacts,
           pc = "approve" => u \in OtherThanMaker,
           pc = "add" => k \in Contacts,
           Loaded(c, pc, u, k, opt, who)
    PROVE  CampaignInv'
<1>1. CampaignTypeOK'
  BY DEF CampaignInv, CampaignTypeOK, Loaded, campaignTables, dispatchVars, DispatchTypeOK,
         queueTables, claimTables, procs
<1>2. DispatchInv'
  BY OfficeKeepsDispatchInv
     DEF CampaignInv, DispatchInv, DispatchTypeOK, Loaded, dispatchVars, queueTables
<1>3. ASSUME NEW z \in OrgCalls PROVE CallFits(z)'
  BY DEF CampaignInv, CampaignTypeOK, CallFits, Loaded, OtherThanMaker
<1> QED
  BY <1>1, <1>2, <1>3
     DEF CampaignInv, Loaded, campaignTables, dispatchVars, queueTables, CompletedMeansSettled

\* A request ends, and the rest of its write is as given.
LEMMA EndedTyped ==
    ASSUME CampaignInv, NEW c \in OrgCalls, Ended(c)
    PROVE  /\ orgCall' \in [OrgCalls -> [pc : {"idle", "option", "add", "remove", "submit",
                                               "approve", "changes", "cancel", "dispatch"},
                                         by : Users \cup {"none"}, of : Contacts \cup {"none"},
                                         opt : 0..MaxOptions, who : SUBSET Contacts]]
           /\ \A z \in OrgCalls : CallFits(z)'
<1>1. orgCall' \in [OrgCalls -> [pc : {"idle", "option", "add", "remove", "submit",
                                       "approve", "changes", "cancel", "dispatch"},
                                 by : Users \cup {"none"}, of : Contacts \cup {"none"},
                                 opt : 0..MaxOptions, who : SUBSET Contacts]]
  BY CampaignAssumption DEF CampaignInv, CampaignTypeOK, Ended, NoOrgCall
<1>2. ASSUME NEW z \in OrgCalls PROVE CallFits(z)'
  BY DEF CampaignInv, CampaignTypeOK, CallFits, Ended, NoOrgCall, OtherThanMaker
<1> QED
  BY <1>1, <1>2

\* The writes of the organisation that leave the queue alone.
LEMMA EditsKeepInv ==
    ASSUME CampaignInv, NEW c \in OrgCalls,
           \/ SetGiftOption(c) \/ AddRecipients(c) \/ RemoveRecipient(c) \/ SubmitForApproval(c)
           \/ ApproveCampaign(c) \/ RequestChanges(c) \/ CancelCampaign(c)
    PROVE  CampaignInv'
<1>1. Ended(c) /\ UNCHANGED <<contact, due, queueTables, claimTables, procs>>
  BY DEF SetGiftOption, AddRecipients, RemoveRecipient, SubmitForApproval, ApproveCampaign,
         RequestChanges, CancelCampaign, dispatchVars
<1>2. frozen' \in BOOLEAN
  BY DEF CampaignInv, DispatchInv, DispatchTypeOK, SetGiftOption, AddRecipients,
         RemoveRecipient, SubmitForApproval, ApproveCampaign, RequestChanges, CancelCampaign,
         dispatchVars
<1>3. DispatchInv'
  BY <1>1, <1>2, OfficeKeepsDispatchInv
     DEF CampaignInv, DispatchInv, DispatchTypeOK, queueTables
<1>4. \/ UNCHANGED approver /\ camp' # "approved"
      \/ UNCHANGED <<camp, approver>>
      \/ approver' \in OtherThanMaker
  BY DEF CampaignInv, CallFits, SetGiftOption, AddRecipients, RemoveRecipient,
         SubmitForApproval, ApproveCampaign, RequestChanges, CancelCampaign
<1>5. /\ camp' \in CampaignCancellable \cup {"dispatching", "completed", "cancelled"}
      /\ camp' = "completed" => camp = "completed"
      /\ approver' \in Users \cup {"none"}
  BY DEF CampaignInv, CampaignTypeOK, CallFits, OtherThanMaker, CampaignCancellable,
         SetGiftOption, AddRecipients, RemoveRecipient, SubmitForApproval, ApproveCampaign,
         RequestChanges, CancelCampaign
<1>6. option' \in 0..MaxOptions /\ invited' \subseteq Contacts /\ reviewed' \subseteq Contacts
  BY CampaignAssumption
     DEF CampaignInv, CampaignTypeOK, CallFits, SetGiftOption, AddRecipients,
         RemoveRecipient, SubmitForApproval, ApproveCampaign, RequestChanges, CancelCampaign
<1>7. CampaignTypeOK'
  BY <1>1, <1>3, <1>5, <1>6, EndedTyped DEF CampaignTypeOK, DispatchInv
<1>8. /\ camp' = "approved" => approver' \in OtherThanMaker
      /\ \A k \in Contacts : job'[k] # "none" => approver' \in OtherThanMaker
  BY <1>1, <1>4 DEF CampaignInv, queueTables
<1> QED
  BY <1>1, <1>3, <1>5, <1>7, <1>8, EndedTyped
     DEF CampaignInv, CompletedMeansSettled, queueTables

\* The flip to dispatching, and the queue it fills.
LEMMA DispatchCampaignKeepsInv ==
    ASSUME CampaignInv, NEW c \in OrgCalls, DispatchCampaign(c)
    PROVE  CampaignInv'
<1>1. /\ Ended(c)
      /\ UNCHANGED <<contact, due, frozen, claimTables, procs, option, invited, approver, reviewed>>
  BY DEF DispatchCampaign
<1>2. CASE ~Flips
  BY <1>1, <1>2, EndedTyped, OfficeKeepsDispatchInv
     DEF DispatchCampaign, CampaignInv, CampaignTypeOK, DispatchInv, DispatchTypeOK, queueTables,
         CompletedMeansSettled
<1>3. CASE Flips
  <2>1. approver \in OtherThanMaker /\ camp' = "dispatching"
    BY <1>3 DEF CampaignInv, Flips, DispatchCampaign
  <2>2. DispatchInv'
    BY <1>1, <1>3, OfficeKeepsDispatchInv
       DEF DispatchCampaign, CampaignInv, DispatchInv, DispatchTypeOK, Enqueue
  <2>3. CampaignTypeOK'
    BY <1>1, <2>1, <2>2, EndedTyped DEF CampaignInv, CampaignTypeOK, DispatchInv
  <2> QED
    BY <1>1, <2>1, <2>2, <2>3, EndedTyped DEF CampaignInv, CompletedMeansSettled
<1> QED
  BY <1>2, <1>3

\* The end of a wave, and what happens to the roster.
LEMMA RosterKeepsInv ==
    ASSUME CampaignInv,
           \/ CompleteFinished \/ RosterPurge
           \/ \E k \in Contacts : ArchiveContact(k) \/ RetentionEnds(k)
    PROVE  CampaignInv'
<1>1. UNCHANGED <<frozen, queueTables, claimTables, procs, option, approver, reviewed, orgCall>>
  BY DEF CompleteFinished, RosterPurge, ArchiveContact, RetentionEnds, dispatchVars,
         campaignTables
<1>2. /\ contact' \in [Contacts -> {"active", "archived", "gone"}] /\ due' \subseteq Contacts
      /\ invited' \subseteq Contacts
  <2> USE DEF CampaignInv, CampaignTypeOK, DispatchTypeOK
  <2>1. CASE CompleteFinished
    BY <2>1 DEF CompleteFinished, dispatchVars
  <2>2. CASE RosterPurge
    BY <2>2 DEF RosterPurge
  <2>3. ASSUME NEW k \in Contacts, ArchiveContact(k) \/ RetentionEnds(k)
        PROVE  /\ contact' \in [Contacts -> {"active", "archived", "gone"}]
               /\ due' \subseteq Contacts /\ invited' \subseteq Contacts
    BY <2>3 DEF ArchiveContact, RetentionEnds, campaignTables
  <2> QED
    BY <2>1, <2>2, <2>3
<1>3. \/ camp' = camp
      \/ camp' = "completed" /\ NoLiveJob
  BY DEF CompleteFinished, RosterPurge, ArchiveContact, RetentionEnds, campaignTables
<1>4. DispatchInv'
  BY <1>1, <1>2, OfficeKeepsDispatchInv DEF CampaignInv, DispatchInv, DispatchTypeOK, queueTables
<1>5. CampaignTypeOK'
  BY <1>1, <1>2, <1>3, <1>4 DEF CampaignInv, CampaignTypeOK, DispatchInv
<1>6. CompletedMeansSettled'
  BY <1>1, <1>3
     DEF CampaignInv, CampaignTypeOK, DispatchTypeOK, CompletedMeansSettled, NoLiveJob,
         LiveStates, queueTables
<1>7. \A c \in OrgCalls : CallFits(c)'
  BY <1>1 DEF CampaignInv, CallFits
<1> QED
  BY <1>1, <1>3, <1>4, <1>5, <1>6, <1>7 DEF CampaignInv, queueTables

\* The queue and the claims move under a campaign that stays as it is.
LEMMA QueueKeepsCampaignInv ==
    ASSUME CampaignInv, DispatchNext, UNCHANGED <<campaignTables, orgCall>>
    PROVE  CampaignInv'
<1>1. DispatchInv /\ DispatchInv'
  BY DispatchKeepsInv DEF CampaignInv
<1>2. CampaignTypeOK'
  BY <1>1 DEF CampaignInv, CampaignTypeOK, DispatchInv, campaignTables
<1>3. \A k \in Contacts : job[k] \in {"none", "dispatched", "failed"} => job'[k] = job[k]
  BY <1>1, SettledJobsStay
<1>4. \A c \in OrgCalls : CallFits(c)'
  BY DEF CampaignInv, CallFits
<1> QED
  BY <1>1, <1>2, <1>3, <1>4 DEF CampaignInv, CompletedMeansSettled, campaignTables

\* A campaign starts as a draft with an empty queue.
LEMMA InitCampaign == CampaignInit => CampaignInv
  BY InitDispatch, CampaignAssumption
     DEF CampaignInit, CampaignInv, CampaignTypeOK, DispatchInv, DispatchInit, CallFits,
         CompletedMeansSettled, NoOrgCall, CampaignCancellable

\* Every step keeps the invariant.
LEMMA CampaignKeepsInv == CampaignInv /\ [CampaignNext]_campaignVars => CampaignInv'
<1> SUFFICES ASSUME CampaignInv, [CampaignNext]_campaignVars PROVE CampaignInv'
  OBVIOUS
<1>1. option \in 0..MaxOptions /\ invited \in SUBSET Contacts /\ 0 \in 0..MaxOptions
  BY CampaignAssumption DEF CampaignInv, CampaignTypeOK
<1>2. ASSUME NEW c \in OrgCalls,
             \/ SetGiftOptionLoad(c) \/ SubmitLoad(c) \/ CancelCampaignLoad(c) \/ DispatchLoad(c)
             \/ \E k \in Contacts : AddRecipientsLoad(c, k) \/ RemoveRecipientLoad(c, k)
             \/ \E u \in Users : ApproveLoad(c, u) \/ RequestChangesLoad(c, u)
      PROVE  CampaignInv'
  BY <1>1, <1>2, LoadsKeepInv
     DEF SetGiftOptionLoad, SubmitLoad, CancelCampaignLoad, DispatchLoad, AddRecipientsLoad,
         RemoveRecipientLoad, ApproveLoad, RequestChangesLoad, MayReview, OtherThanMaker
<1>3. CASE UNCHANGED campaignVars
  <2>1. UNCHANGED <<campaignTables, orgCall, contact, due, frozen, queueTables, claimTables, procs>>
    BY <1>3 DEF campaignVars, dispatchVars
  <2>2. DispatchInv'
    BY <2>1, OfficeKeepsDispatchInv DEF CampaignInv, DispatchInv, DispatchTypeOK, queueTables
  <2>3. CampaignTypeOK'
    BY <2>1, <2>2 DEF CampaignInv, CampaignTypeOK, DispatchInv, campaignTables
  <2> QED
    BY <2>1, <2>2, <2>3
       DEF CampaignInv, CallFits, CompletedMeansSettled, campaignTables, queueTables
<1> QED
  BY <1>2, <1>3, EditsKeepInv, DispatchCampaignKeepsInv, RosterKeepsInv, QueueKeepsCampaignInv
     DEF CampaignNext

-----------------------------------------------------------------------------
\* The inductive invariant holds in every reachable state of a campaign.
THEOREM CampaignInvariant == CampaignSpec => []CampaignInv
<1> QED
  BY InitCampaign, CampaignKeepsInv, PTL DEF CampaignSpec

\* However the office, the sweeps, the exports and the recipients overlap:
\* nothing is queued before somebody other than the maker has approved, a
\* completed campaign has no job left, the link an export has handed out opens its
\* claim until it is decided unless another export takes it along (a dispatch by
\* itself hands out none), an address is kept for claimed gifts only, and every
\* decision is that of a recipient who has shown a code.
THEOREM CampaignsAgree == CampaignSpec => []CampaignAgrees
<1>1. CampaignInv => CampaignAgrees
  <2> SUFFICES ASSUME CampaignInv PROVE CampaignAgrees
    OBVIOUS
  <2>1. QueuedOnlyIfApproved
    BY DEF CampaignInv, DispatchInv, ClaimFits, QueuedOnlyIfApproved, OtherThanMaker
  <2>2. ExportedLinkOpens
    BY DEF CampaignInv, DispatchInv, ClaimFits, ExportedLinkOpens
  <2>3. AddressOfClaimedOnly /\ DecidedByTheRecipient
    BY DEF CampaignInv, DispatchInv, ClaimFits, AddressOfClaimedOnly, DecidedByTheRecipient
  <2> QED
    BY <2>1, <2>2, <2>3 DEF CampaignInv, CampaignAgrees
<1> QED
  BY <1>1, CampaignInvariant, PTL

\* A claim that is decided keeps its outcome: no minting, no second visit and
\* no expiry that comes late changes it.
LEMMA DecisionsStay ==
    ASSUME CampaignInv, [CampaignNext]_campaignVars, NEW k \in Contacts, claim[k] \in Final
    PROVE  claim'[k] = claim[k]
<1>1. claim \in [Contacts -> Final \cup {"none", "pending"}]
  BY DEF CampaignInv, DispatchInv, DispatchTypeOK
<1>2. claim[k] # "none" /\ claim[k] # "pending"
  BY DEF Final, Outcomes
<1>3. ASSUME NEW j \in Contacts, Mint(j) PROVE claim'[k] = claim[k]
  BY <1>1, <1>2, <1>3 DEF Mint, MintStatus
<1>4. ASSUME NEW w \in Workers, MintWrite(w) PROVE claim'[k] = claim[k]
  BY <1>3, <1>4 DEF MintWrite, CampaignInv, DispatchInv, SweepFits
<1>5. ASSUME ExportMint PROVE claim'[k] = claim[k]
  BY <1>3, <1>5 DEF ExportMint, CampaignInv, DispatchInv, ExportFits
<1>6. ASSUME NEW j \in Contacts, LazyExpiry(j) PROVE claim'[k] = claim[k]
  BY <1>1, <1>2, <1>6 DEF LazyExpiry, HoldsLink
<1>7. ASSUME NEW v \in Visits, VisitWrites(v) PROVE claim'[k] = claim[k]
  BY <1>1, <1>2, <1>7 DEF VisitWrites, StillOpen
<1>8. ASSUME DispatchNext PROVE claim'[k] = claim[k]
  BY <1>4, <1>5, <1>6, <1>7, <1>8
     DEF DispatchNext, ClaimJob, MintCheck, Deliver, SweepDies, SweepReads, ExportCheck,
         VerifyOtp, ClaimLapses, VisitLoads, ExportReturn, ExportFails, claimTables
<1>9. CASE UNCHANGED claimTables
  BY <1>9 DEF claimTables
<1> QED
  BY <1>8, <1>9
     DEF CampaignNext, SetGiftOptionLoad, SubmitLoad, CancelCampaignLoad, DispatchLoad,
         AddRecipientsLoad, RemoveRecipientLoad, ApproveLoad, RequestChangesLoad, Loaded,
         SetGiftOption, AddRecipients, RemoveRecipient, SubmitForApproval, ApproveCampaign,
         RequestChanges, CancelCampaign, DispatchCampaign, CompleteFinished, ArchiveContact,
         RetentionEnds, RosterPurge, campaignVars, dispatchVars

\* "claimed gifts are irrevocable", and so are declined and expired ones.
THEOREM DecisionsAreFinal == CampaignSpec => DecidedForGood
<1>1. CampaignInv /\ [CampaignNext]_campaignVars =>
        [\A k \in Contacts : claim[k] \in Final => claim'[k] = claim[k]]_dispatchVars
  BY DecisionsStay
<1> QED
  BY <1>1, CampaignInvariant, PTL DEF CampaignSpec, DecidedForGood

-----------------------------------------------------------------------------
(***************************************************************************)
(* The sums of a reconciliation.                                           *)
(***************************************************************************)
OfKinds(rows, kinds) == {m \in rows : m[1] \in kinds}
AmountOf(rows) == [m \in rows |-> m[2]]

\* A total is a sum over the rows of its kinds.
LEMMA TotalIsSum ==
    ASSUME NEW rows, IsFiniteSet(rows), NEW kinds
    PROVE  Total(rows, kinds) = SumOf(AmountOf(rows), OfKinds(rows, kinds))
<1> DEFINE S == {m \in rows : m[1] \in kinds}
           w == AmountOf(rows)
           Body(g) == [s \in SUBSET S |-> IF s = {} THEN 0 ELSE Chosen(s)[2] + g[s \ {Chosen(s)}]]
<1>1. IsFiniteSet(S) /\ \A x \in S : w[x] = x[2]
  BY FS_Subset DEF AmountOf
<1>2. Total(rows, kinds) = (CHOOSE g : g = Body(g))[S]
  BY DEF Total, MapThenSumSet, MapThenFoldSet, Chosen
<1>3. S = OfKinds(rows, kinds)
  BY DEF OfKinds
<1> HIDE DEF S, w
<1>4. ASSUME NEW g PROVE (g = Body(g)) <=> Unfolds(g, w, S)
  <2>1. \A s \in SUBSET S : s # {} => w[Chosen(s)] = Chosen(s)[2]
    BY <1>1, ChosenInSet
  <2>2. Body(g) = [s \in SUBSET S |-> IF s = {} THEN 0 ELSE w[Chosen(s)] + g[s \ {Chosen(s)}]]
    BY <2>1
  <2> QED
    BY <2>2 DEF Unfolds
<1>5. PICK g : g = Body(g)
  BY <1>1, <1>4, UnfoldsExist
<1> DEFINE h == CHOOSE x : x = Body(x)
<1>6. Unfolds(h, w, S)
  <2> HIDE DEF Body
  <2>1. h = Body(h)
    BY <1>5
  <2> HIDE DEF h
  <2> QED
    BY <1>4, <2>1
<1> HIDE DEF h
<1>7. h[S] = SumOf(w, S)
  BY <1>1, <1>6, SumIsUnfolded
<1> QED
  BY <1>2, <1>3, <1>7 DEF h, w

\* Whatever rows a cut includes, cash and obligations differ by the sweeps that
\* are outstanding, and by nothing else.
LEMMA CutBalances ==
    ASSUME NEW rows, IsFiniteSet(rows), rows \subseteq EntryRows, Paired(rows)
    PROVE  /\ Total(rows, CashIn) - Total(rows, CashOut) \in Int
           /\ (Total(rows, CashIn) - Total(rows, CashOut))
                 - (Total(rows, Obliges) - Total(rows, Discharges)) - Outstanding(rows) = 0
<1> DEFINE w == AmountOf(rows)
           O(kinds) == OfKinds(rows, kinds)
           paid == {"remitted", "refunded", "recovered"}
<1>1. \A m \in rows : m[2] \in Events /\ w[m] = m[2] /\ w[m] \in Nat /\ m = <<m[1], m[2]>>
  <2> SUFFICES ASSUME NEW m \in rows
               PROVE  m[2] \in Events /\ w[m] = m[2] /\ w[m] \in Nat /\ m = <<m[1], m[2]>>
    OBVIOUS
  <2>1. m[2] \in Events /\ m = <<m[1], m[2]>>
    BY DEF EntryRows
  <2>2. w[m] = m[2]
    BY DEF AmountOf
  <2> QED
    BY <2>1, <2>2, TreasuryAssumption
<1>2. ASSUME NEW kinds
      PROVE  IsFiniteSet(O(kinds)) /\ O(kinds) \subseteq rows /\ SumOf(w, O(kinds)) \in Nat
  <2> DEFINE S == O(kinds)
  <2>1. S \subseteq rows
    BY DEF OfKinds
  <2>2. IsFiniteSet(S)
    BY <2>1, FS_Subset
  <2> HIDE DEF S, w
  <2>3. SumOf(w, S) \in Nat
    BY <1>1, <2>1, <2>2, SumIsNatural
  <2> QED
    BY <2>1, <2>2, <2>3 DEF S
<1>3. ASSUME NEW a, NEW b, a \cap b = {}
      PROVE  Total(rows, a \cup b) = SumOf(w, O(a)) + SumOf(w, O(b))
  <2> DEFINE A == O(a)
             B == O(b)
  <2>1. A \cap B = {} /\ O(a \cup b) = A \cup B
    BY <1>3 DEF OfKinds
  <2>2. /\ IsFiniteSet(A) /\ IsFiniteSet(B)
        /\ \A x \in A \cup B : w[x] \in Nat
    BY <1>1, <1>2
  <2>3. Total(rows, a \cup b) = SumOf(w, O(a \cup b))
    BY TotalIsSum
  <2> HIDE DEF A, B, O, w
  <2>4. SumOf(w, A \cup B) = SumOf(w, A) + SumOf(w, B)
    BY <2>1, <2>2, SumDisjoint
  <2> QED
    BY <2>1, <2>3, <2>4 DEF A, B
<1>4. Total(rows, CashOut) = SumOf(w, O(paid)) + SumOf(w, O(CompletedSweeps))
  <2>1. CashOut = paid \cup CompletedSweeps /\ paid \cap CompletedSweeps = {}
    BY DEF CashOut, CompletedSweeps
  <2> HIDE DEF paid, O, w
  <2> QED
    BY <1>3, <2>1
<1>5. Total(rows, Discharges) = SumOf(w, O(paid)) + SumOf(w, O(SweepDue))
  <2>1. Discharges = paid \cup SweepDue /\ paid \cap SweepDue = {}
    BY DEF Discharges, SweepDue
  <2> HIDE DEF paid, O, w
  <2> QED
    BY <1>3, <2>1
<1>6. SumOf(w, O(CashIn)) = SumOf(w, O(Obliges))
  <2> DEFINE S == O(CashIn)
             f == [m \in S |-> <<"accrued", m[2]>>]
  <2>1. /\ \A m \in S : f[m] = <<"accrued", m[2]>> /\ m = <<"received", m[2]>> /\ m \in rows
        /\ \A m \in S : f[m] \in rows
    BY <1>1 DEF OfKinds, CashIn, Paired
  <2>2. {f[m] : m \in S} = O(Obliges)
    <3>1. ASSUME NEW m \in S PROVE f[m] \in O(Obliges)
      BY <2>1, <3>1 DEF OfKinds, Obliges
    <3>2. ASSUME NEW n \in O(Obliges) PROVE \E m \in S : n = f[m]
      <4>1. n \in rows /\ n = <<"accrued", n[2]>> /\ n[2] \in Events
        BY <1>1, <3>2 DEF OfKinds, Obliges
      <4>2. <<"received", n[2]>> \in S
        BY <4>1 DEF Paired, OfKinds, CashIn
      <4>3. f[<<"received", n[2]>>] = <<"accrued", n[2]>>
        BY <4>2
      <4> QED
        BY <4>1, <4>2, <4>3
    <3> HIDE DEF f, S, O
    <3> QED
      BY <3>1, <3>2
  <2>3. \A m \in S : w[m] \in Nat /\ w[f[m]] = w[m]
    BY <1>1, <2>1
  <2>4. \A m, n \in S : f[m] = f[n] => m = n
    BY <2>1
  <2>5. IsFiniteSet(S)
    BY <1>2
  <2> HIDE DEF f, S, w, O
  <2>6. SumOf(w, {f[m] : m \in S}) = SumOf(w, S)
    BY <2>3, <2>4, <2>5, SumReindex
  <2> QED
    BY <2>2, <2>6 DEF S
<1>7. /\ Total(rows, CashIn) = SumOf(w, O(CashIn)) /\ Total(rows, Obliges) = SumOf(w, O(Obliges))
      /\ Total(rows, SweepDue) = SumOf(w, O(SweepDue))
      /\ Total(rows, CompletedSweeps) = SumOf(w, O(CompletedSweeps))
  BY TotalIsSum
<1> HIDE DEF w, O, paid
<1> QED
  BY <1>2, <1>4, <1>5, <1>6, <1>7 DEF Outstanding

-----------------------------------------------------------------------------
(***************************************************************************)
(* The treasury's tables.                                                  *)
(***************************************************************************)
\* What is known of a table row is known of it however it is reached.
LEMMA TreasuryTyped ==
    ASSUME TreasuryInv
    PROVE  /\ recon \in [Runs -> ReconRows] /\ desk \in [Staff -> TaskRows]
           /\ entries \subseteq EntryRows /\ attested \subseteq Statements
           /\ valued \in [Events -> Days \cup {0}] /\ sweptOn \in [Events -> Days \cup {0}]
           /\ transfers \subseteq [of : Events, ref : BankRefs, ok : BOOLEAN]
           /\ NoTask \in TaskRows /\ NoRecon \in ReconRows
           /\ 0 \notin Days
  BY TreasuryAssumption
     DEF TreasuryInv, TreasuryTypeOK, EntryRows, Statements, NoTask, NoRecon, TaskRows, ReconRows

\* A request that is left alone still fits when the tables grow.
LEMMA TaskSurvives ==
    ASSUME TreasuryInv, NEW u \in Staff, desk'[u] = desk[u],
           entries \subseteq entries', attested \subseteq attested',
           \A e \in Events : valued[e] # 0 => valued'[e] # 0,
           desk[u].pc = "run" => recon'[desk[u].run].status = "none"
    PROVE  TaskFits(u)'
  BY DEF TreasuryInv, TaskFits, Paired

\* A step of one desk, or of none: the others keep their requests.
OtherDesks(s) == \A u \in Staff : u # s => desk'[u] = desk[u]

\* The postings of the settlement services come with their evidence.
LEMMA PostingKeepsInv ==
    ASSUME TreasuryInv, NEW e \in Events,
           \/ PostRemittance(e)
           \/ \E d \in Days : Remit(e, d) \/ \E k \in DOMAIN PostingsOf : PostEvent(e, k, d)
    PROVE  TreasuryInv'
<1>0. /\ recon \in [Runs -> ReconRows] /\ desk \in [Staff -> TaskRows]
      /\ entries \subseteq EntryRows /\ valued \in [Events -> Days \cup {0}] /\ 0 \notin Days
  BY TreasuryTyped
<1>1. UNCHANGED <<transfers, sweptOn, attested, recon, desk>>
  BY DEF PostRemittance, Remit, PostEvent
<1>2. /\ valued' \in [Events -> Days \cup {0}] /\ valued'[e] # 0
      /\ \A x \in Events : valued[x] # 0 => valued'[x] # 0
  <2>1. ASSUME PostRemittance(e) PROVE UNCHANGED valued /\ valued[e] # 0
    BY <2>1 DEF PostRemittance, TreasuryInv, EntriesFit
  <2>2. ASSUME NEW d \in Days, Evidenced(e, d)
        PROVE  valued' = [valued EXCEPT ![e] = d] /\ d # 0
    BY <1>0, <2>2 DEF Evidenced
  <2> QED
    BY <1>0, <2>1, <2>2 DEF Remit, PostEvent
<1>3. PICK K \in {{"received", "accrued"}, {"refunded"}, {"recovered_no_cash"}, {"recovered"},
                  {"remitted"}} :
        entries' = entries \cup (K \X {e})
  <2>1. ASSUME NEW k \in DOMAIN PostingsOf
        PROVE  PostingsOf[k] \in {{"received", "accrued"}, {"refunded"}, {"recovered_no_cash"}}
    BY DEF PostingsOf
  <2>2. {<<"recovered", e>>} = {"recovered"} \X {e} /\ {<<"remitted", e>>} = {"remitted"} \X {e}
    OBVIOUS
  <2> QED
    BY <2>1, <2>2 DEF PostRemittance, Remit, PostEvent
<1>4. entries' \subseteq EntryRows /\ entries \subseteq entries' /\ IsFiniteSet(entries')
  <2>1. IsFiniteSet(K)
    <3>1. \A x : IsFiniteSet({x})
      BY FS_Singleton
    <3>2. IsFiniteSet({"received"} \cup {"accrued"})
      BY <3>1, FS_Union
    <3>3. {"received"} \cup {"accrued"} = {"received", "accrued"}
      OBVIOUS
    <3> QED
      BY <3>1, <3>2, <3>3
  <2>2. IsFiniteSet({e})
    BY FS_Singleton
  <2>3. IsFiniteSet(K \X {e})
    BY <2>1, <2>2, FS_Product
  <2>4. IsFiniteSet(entries \cup (K \X {e}))
    BY <2>3, FS_Union DEF TreasuryInv, EntriesFit
  <2> QED
    BY <1>0, <1>3, <2>4 DEF EntryRows
<1>5. \A x \in Events : /\ (<<"received", x>> \in entries') <=> (<<"accrued", x>> \in entries')
                        /\ (<<"swept", x>> \in entries') <=> (<<"swept", x>> \in entries)
  BY <1>3 DEF TreasuryInv, EntriesFit, Paired
<1>6. \A m \in entries' : valued'[m[2]] # 0
  <2>1. \A m \in entries : m[2] \in Events /\ valued[m[2]] # 0
    BY <1>0 DEF TreasuryInv, EntriesFit, EntryRows
  <2> QED
    BY <1>2, <1>3, <2>1
<1>7. EntriesFit'
  BY <1>1, <1>4, <1>5, <1>6 DEF TreasuryInv, EntriesFit, Paired, CompletedFor
<1>8. \A u \in Staff : TaskFits(u)'
  BY <1>1, <1>2, <1>4, TaskSurvives DEF TreasuryInv, TaskFits
<1>9. TreasuryTypeOK'
  BY <1>1, <1>2, <1>4 DEF TreasuryInv, TreasuryTypeOK, EntryRows
<1> QED
  BY <1>1, <1>7, <1>8, <1>9
     DEF TreasuryInv, OneWriter, TransfersFit, OnlyTheBankDisagrees

\* The requests that only load: what they have read is what the tables say.
LEMMA LoadsKeepTreasuryInv ==
    ASSUME TreasuryInv, NEW s \in Staff, UNCHANGED treasuryTables, desk[s] = NoTask,
           NEW t \in TaskRows, desk' = [desk EXCEPT ![s] = t],
           \/ /\ t.pc = "transfer" /\ t.of \in Events /\ t.ref \in BankRefs /\ valued[t.of] # 0
           \/ /\ t.pc = "run" /\ t.run \in Runs /\ t.of \in Days
              /\ recon[t.run].status = "none" /\ \A u \in Staff : desk[u].run # t.run
              /\ t.leg \subseteq attested /\ t.rows = entries
           \/ t.pc = "resolve" /\ t.run \in Runs
    PROVE  TreasuryInv'
<1>0. desk \in [Staff -> TaskRows]
  BY TreasuryTyped
<1>1. desk' \in [Staff -> TaskRows] /\ desk'[s] = t /\ OtherDesks(s)
  BY <1>0 DEF OtherDesks
<1>2. TaskFits(s)'
  BY <1>1 DEF TaskFits, treasuryTables, TreasuryInv, EntriesFit
<1>3. ASSUME NEW u \in Staff, u # s PROVE TaskFits(u)'
  BY <1>1, <1>3, TaskSurvives DEF OtherDesks, treasuryTables, TreasuryInv, TaskFits
<1>4. OneWriter'
  BY <1>1 DEF TreasuryInv, OneWriter, OtherDesks, TaskFits
<1>5. TreasuryTypeOK'
  BY <1>1 DEF TreasuryInv, TreasuryTypeOK, treasuryTables, TaskRows
<1> QED
  BY <1>1, <1>2, <1>3, <1>4, <1>5
     DEF TreasuryInv, treasuryTables, EntriesFit, CompletedFor, TransfersFit, OnlyTheBankDisagrees

\* Each load is such a request.
LEMMA EachLoadKeepsTreasuryInv ==
    ASSUME TreasuryInv, NEW s \in Staff,
           \/ \E e \in Events, ref \in BankRefs, ok \in BOOLEAN : TransferLoad(s, e, ref, ok)
           \/ \E d \in Days, r \in Runs : \E leg \in SUBSET StatedAt(d) : RunLoad(s, r, d, leg)
           \/ \E r \in Runs, b \in Runs \cup {"evidence"} : ResolveLoads(s, r, b)
    PROVE  TreasuryInv'
<1>1. ASSUME NEW e \in Events, NEW ref \in BankRefs, NEW ok \in BOOLEAN,
             TransferLoad(s, e, ref, ok)
      PROVE  TreasuryInv'
  <2> DEFINE t == [NoTask EXCEPT !.pc = "transfer", !.of = e, !.ref = ref, !.ok = ok]
  <2>1. /\ desk[s] = NoTask /\ UNCHANGED treasuryTables /\ desk' = [desk EXCEPT ![s] = t]
        /\ valued[e] # 0
    BY <1>1 DEF TransferLoad, Free, Due, TreasuryInv, EntriesFit
  <2>2. t.pc = "transfer" /\ t.of = e /\ t.ref = ref
    BY DEF NoTask
  <2>3. t \in TaskRows
    BY TreasuryTyped DEF NoTask, TaskRows
  <2> HIDE DEF t
  <2> QED
    BY <2>1, <2>2, <2>3, LoadsKeepTreasuryInv
<1>2. ASSUME NEW d \in Days, NEW r \in Runs, NEW leg \in SUBSET StatedAt(d), RunLoad(s, r, d, leg)
      PROVE  TreasuryInv'
  <2> DEFINE t == [NoTask EXCEPT !.pc = "run", !.run = r, !.of = d, !.leg = leg, !.rows = entries]
  <2>1. /\ desk[s] = NoTask /\ UNCHANGED treasuryTables /\ desk' = [desk EXCEPT ![s] = t]
        /\ recon[r] = NoRecon /\ \A u \in Staff : desk[u].run # r
    BY <1>2 DEF RunLoad, Free
  <2>4. recon[r].status = "none" /\ leg \subseteq attested
    BY <2>1 DEF NoRecon, StatedAt
  <2>2. t.pc = "run" /\ t.run = r /\ t.of = d /\ t.leg = leg /\ t.rows = entries
    BY DEF NoTask
  <2>3. t \in TaskRows
    BY <2>4, TreasuryTyped DEF NoTask, TaskRows
  <2> HIDE DEF t
  <2> QED
    BY <2>1, <2>2, <2>3, <2>4, LoadsKeepTreasuryInv
<1>3. ASSUME NEW r \in Runs, NEW b \in Runs \cup {"evidence"}, ResolveLoads(s, r, b)
      PROVE  TreasuryInv'
  <2> DEFINE t == [NoTask EXCEPT !.pc = "resolve", !.run = r, !.basis = b]
  <2>1. desk[s] = NoTask /\ UNCHANGED treasuryTables /\ desk' = [desk EXCEPT ![s] = t]
    BY <1>3 DEF ResolveLoads, Free
  <2>2. t.pc = "resolve" /\ t.run = r
    BY DEF NoTask
  <2>3. t \in TaskRows
    BY TreasuryTyped DEF NoTask, TaskRows
  <2> HIDE DEF t
  <2> QED
    BY <2>1, <2>2, <2>3, LoadsKeepTreasuryInv
<1> QED
  BY <1>1, <1>2, <1>3

\* A sweep of the money a zero-net close has left: the row, its posting, and
\* the two unique indexes that refuse a second one.
LEMMA TransferKeepsInv ==
    ASSUME TreasuryInv, NEW s \in Staff, NEW d \in Days, RecordInternalTransfer(s, d)
    PROVE  TreasuryInv'
<1> DEFINE t == [of |-> desk[s].of, ref |-> desk[s].ref, ok |-> desk[s].ok]
<1>0. /\ desk \in [Staff -> TaskRows] /\ entries \subseteq EntryRows
      /\ sweptOn \in [Events -> Days \cup {0}] /\ NoTask \in TaskRows
      /\ transfers \subseteq [of : Events, ref : BankRefs, ok : BOOLEAN]
  BY TreasuryTyped
<1>1. /\ desk[s].pc = "transfer" /\ t.of = desk[s].of /\ t.ref = desk[s].ref /\ t.ok = desk[s].ok
      /\ t \in [of : Events, ref : BankRefs, ok : BOOLEAN]
      /\ t.of \in Events /\ t.ok \in BOOLEAN /\ valued[t.of] # 0
  BY <1>0 DEF RecordInternalTransfer, TreasuryInv, TaskFits, TaskRows
<1>2. /\ UNCHANGED <<valued, attested, recon>> /\ desk' = [desk EXCEPT ![s] = NoTask]
      /\ IF ~Insertable(t) THEN UNCHANGED <<entries, transfers, sweptOn>>
         ELSE /\ transfers' = transfers \cup {t}
              /\ entries' = IF t.ok THEN entries \cup {<<"swept", t.of>>} ELSE entries
              /\ sweptOn' = IF t.ok /\ sweptOn[t.of] = 0 THEN [sweptOn EXCEPT ![t.of] = d] ELSE sweptOn
  BY DEF RecordInternalTransfer, Frees
<1> HIDE DEF t
<1>3. /\ desk' \in [Staff -> TaskRows] /\ desk'[s] = NoTask
      /\ \A u \in Staff : u # s => desk'[u] = desk[u]
  BY <1>0, <1>2
<1>4. /\ sweptOn' \in [Events -> Days \cup {0}] /\ entries \subseteq entries'
      /\ transfers' \subseteq [of : Events, ref : BankRefs, ok : BOOLEAN]
      /\ entries' \subseteq EntryRows
  BY <1>0, <1>1, <1>2 DEF EntryRows
<1>5. IsFiniteSet(entries')
  <2> DEFINE m == <<"swept", t.of>>
  <2>1. entries' = entries \/ entries' = entries \cup {m}
    BY <1>1, <1>2
  <2> HIDE DEF m
  <2> QED
    BY <2>1, FS_AddElement DEF TreasuryInv, EntriesFit
<1>6. /\ \A m \in entries' : valued[m[2]] # 0
      /\ \A e \in Events : (<<"received", e>> \in entries') <=> (<<"accrued", e>> \in entries')
  BY <1>1, <1>2 DEF TreasuryInv, EntriesFit, Paired
<1>7. ASSUME NEW e \in Events
      PROVE  (<<"swept", e>> \in entries') <=> (\E x \in transfers' : x.of = e /\ x.ok)
  <2>1. (<<"swept", e>> \in entries) <=> (\E x \in transfers : x.of = e /\ x.ok)
    BY DEF TreasuryInv, EntriesFit, CompletedFor
  <2> QED
    BY <1>1, <1>2, <2>1
<1>8. EntriesFit'
  BY <1>2, <1>5, <1>6, <1>7 DEF EntriesFit, Paired, CompletedFor
<1>9. TransfersFit'
  <2>1. Insertable(t) => \A u \in transfers : u.ref # t.ref /\ ~(t.ok /\ u.ok /\ u.of = t.of)
    BY DEF Insertable, ReferenceOnly, CompletedFor
  <2> QED
    BY <1>2, <2>1 DEF TreasuryInv, TransfersFit
<1>10. ASSUME NEW u \in Staff PROVE TaskFits(u)'
  <2>1. CASE u = s
    BY <1>3, <2>1 DEF TaskFits, NoTask
  <2>2. CASE u # s
    BY <1>2, <1>3, <1>4, <2>2, TaskSurvives DEF TreasuryInv, TaskFits
  <2> QED
    BY <2>1, <2>2
<1>11. OneWriter'
  BY <1>3 DEF TreasuryInv, OneWriter, NoTask
<1>12. TreasuryTypeOK'
  BY <1>2, <1>3, <1>4 DEF TreasuryInv, TreasuryTypeOK, EntryRows, TaskRows
<1> QED
  BY <1>2, <1>3, <1>8, <1>9, <1>10, <1>11, <1>12 DEF TreasuryInv, OnlyTheBankDisagrees

\* One more statement of the bank.
LEMMA AttestationKeepsInv ==
    ASSUME TreasuryInv, NEW s \in Staff, NEW d \in Days, NEW b \in Balances,
           RecordAttestation(s, d, b)
    PROVE  TreasuryInv'
<1>1. /\ UNCHANGED <<entries, valued, transfers, sweptOn, recon, desk>>
      /\ attested' = attested \cup {<<d, b, s>>}
  BY DEF RecordAttestation
<1>2. \A u \in Staff : TaskFits(u)'
  BY <1>1, TaskSurvives DEF TreasuryInv, TaskFits
<1>3. TreasuryTypeOK'
  BY <1>1 DEF TreasuryInv, TreasuryTypeOK
<1> QED
  BY <1>1, <1>2, <1>3
     DEF TreasuryInv, OneWriter, EntriesFit, Paired, CompletedFor, TransfersFit,
         OnlyTheBankDisagrees

\* What a run computes from the rows it has read, whenever it looks up their
\* evidence: the legs agree, and every row has its evidence.
LEMMA RunAgrees ==
    ASSUME TreasuryInv, NEW s \in Staff, desk[s].pc = "run"
    PROVE  LET rows == Included(desk[s].rows, EvidenceSeen(s), desk[s].of)
               cash == Total(rows, CashIn) - Total(rows, CashOut)
               owed == Total(rows, Obliges) - Total(rows, Discharges)
           IN  /\ cash \in Int /\ cash - owed - Outstanding(rows) = 0
               /\ ~\E m \in desk[s].rows : m[2] \notin EvidenceSeen(s)
<1> DEFINE rows == Included(desk[s].rows, EvidenceSeen(s), desk[s].of)
<1>1. /\ desk[s].rows \subseteq entries /\ Paired(desk[s].rows) /\ entries \subseteq EntryRows
      /\ \A m \in entries : m[2] \in Events /\ valued[m[2]] # 0
      /\ IsFiniteSet(entries)
  BY TreasuryTyped DEF TreasuryInv, TaskFits, EntriesFit, EntryRows
<1>2. rows \subseteq EntryRows /\ IsFiniteSet(rows)
  BY <1>1, FS_Subset DEF Included
<1>3. Paired(rows)
  BY <1>1 DEF Paired, Included, ValueDate
<1>4. ~\E m \in desk[s].rows : m[2] \notin EvidenceSeen(s)
  BY <1>1 DEF EvidenceSeen
<1> HIDE DEF rows
<1>5. /\ Total(rows, CashIn) - Total(rows, CashOut) \in Int
      /\ (Total(rows, CashIn) - Total(rows, CashOut))
            - (Total(rows, Obliges) - Total(rows, Discharges)) - Outstanding(rows) = 0
  BY <1>2, <1>3, CutBalances
<1> QED
  BY <1>4, <1>5 DEF rows

\* One reconciliation record changes, and at most the desk that writes it.
LEMMA RecordStepKeepsInv ==
    ASSUME TreasuryInv, NEW s \in Staff, NEW r \in Runs, NEW q \in ReconRows,
           UNCHANGED <<entries, valued, transfers, sweptOn, attested>>,
           recon' = [recon EXCEPT ![r] = q],
           q.status # "none", q.leg \subseteq attested,
           q.delta = 0 /\ ~q.unresolved,
           q.status = "mismatched" => \E t \in q.leg : t[2] # q.cash \/ t[2] < 0,
           desk' = [desk EXCEPT ![s] = NoTask] \/ desk' = desk,
           \A u \in Staff : desk'[u].pc = "run" => desk'[u].run # r
    PROVE  TreasuryInv'
<1>0. recon \in [Runs -> ReconRows] /\ desk \in [Staff -> TaskRows] /\ NoTask \in TaskRows
  BY TreasuryTyped
<1>1. /\ desk' \in [Staff -> TaskRows]
      /\ \A u \in Staff : desk'[u] = desk[u] \/ desk'[u] = NoTask
  BY <1>0
<1>2. /\ recon' \in [Runs -> ReconRows] /\ recon'[r] = q
      /\ \A x \in Runs : x # r => recon'[x] = recon[x]
  BY <1>0
<1>3. ASSUME NEW u \in Staff PROVE TaskFits(u)'
  <2>1. CASE desk'[u] = NoTask
    BY <2>1 DEF TaskFits, NoTask
  <2>2. CASE desk'[u] = desk[u]
    <3>1. desk[u].pc = "run" => recon'[desk[u].run].status = "none"
      BY <1>2, <2>2 DEF TreasuryInv, TaskFits
    <3> QED
      BY <2>2, <3>1, TaskSurvives
  <2> QED
    BY <1>1, <2>1, <2>2
<1>4. OneWriter'
  <2>1. \A u \in Staff : desk'[u].pc = "run" => desk'[u] = desk[u]
    BY <1>1 DEF NoTask
  <2> QED
    BY <2>1 DEF TreasuryInv, OneWriter
<1>5. TreasuryTypeOK'
  <2>1. \A u \in Staff : desk'[u].pc \in {"idle", "transfer", "run", "resolve"}
    BY <1>1 DEF TaskRows
  <2>2. \A x \in Runs : /\ recon'[x].status \in {"none", "pending", "matched", "mismatched",
                                                 "investigated", "resolved"}
                        /\ recon'[x].day \in Days \cup {0}
    BY <1>2 DEF ReconRows
  <2>3. \A x \in Runs : recon'[x].leg \subseteq attested
    BY <1>2 DEF TreasuryInv, TreasuryTypeOK
  <2> QED
    BY <2>1, <2>2, <2>3 DEF TreasuryInv, TreasuryTypeOK
<1>6. OnlyTheBankDisagrees'
  BY <1>2 DEF TreasuryInv, OnlyTheBankDisagrees
<1> QED
  BY <1>1, <1>2, <1>3, <1>4, <1>5, <1>6
     DEF TreasuryInv, EntriesFit, Paired, CompletedFor, TransfersFit

\* A run writes its record: if it is a mismatch, the bank is the one that differs.
LEMMA RunKeepsInv ==
    ASSUME TreasuryInv, NEW s \in Staff, RunReconciliation(s)
    PROVE  TreasuryInv'
<1> DEFINE d == desk[s].of
           r == desk[s].run
           rows == Included(desk[s].rows, EvidenceSeen(s), d)
           cash == Total(rows, CashIn) - Total(rows, CashOut)
           owed == Total(rows, Obliges) - Total(rows, Discharges)
           delta == cash - owed - Outstanding(rows)
           unresolved == \E m \in desk[s].rows : m[2] \notin EvidenceSeen(s)
           differs == Differs(desk[s].leg, cash, delta, unresolved)
           verdict == Verdict(desk[s].leg, differs)
           q == [NoRecon EXCEPT !.day = d, !.leg = desk[s].leg, !.cash = cash, !.delta = delta,
                   !.unresolved = unresolved, !.status = verdict]
<1>1. /\ desk[s].pc = "run" /\ desk' = [desk EXCEPT ![s] = NoTask]
      /\ recon' = [recon EXCEPT ![r] = q]
      /\ UNCHANGED <<entries, valued, transfers, sweptOn, attested>>
  BY DEF RunReconciliation, Frees
<1>2. /\ desk \in [Staff -> TaskRows] /\ r \in Runs /\ d \in Days /\ desk[s].leg \subseteq attested
      /\ attested \subseteq Statements
  BY <1>1, TreasuryTyped DEF TreasuryInv, TaskFits
<1>3. cash \in Int /\ delta = 0 /\ unresolved = FALSE
  BY <1>1, RunAgrees
<1> HIDE DEF r, d, rows, cash, owed, delta, unresolved
<1>4. /\ verdict \in {"pending", "matched", "mismatched"}
      /\ verdict = "mismatched" => differs
  BY DEF Verdict
<1>5. differs => \E t \in desk[s].leg : t[2] # cash \/ t[2] < 0
  BY <1>3 DEF Differs
<1> HIDE DEF verdict, differs
<1>6. /\ q.day = d /\ q.leg = desk[s].leg /\ q.cash = cash /\ q.delta = delta
      /\ q.unresolved = unresolved /\ q.status = verdict
  BY DEF NoRecon
<1>7. q \in ReconRows
  <2>1. d \in Days \cup {0} /\ desk[s].leg \in SUBSET Statements
    BY <1>2
  <2>3. cash \in Int /\ delta \in Int
    BY <1>3
  <2>4. unresolved \in BOOLEAN
    BY <1>3, Zenon
  <2>5. verdict \in {"none", "pending", "matched", "mismatched", "investigated", "resolved"}
    BY <1>4
  <2>2. NoRecon \in ReconRows
    BY TreasuryTyped
  <2> QED
    BY <2>1, <2>2, <2>3, <2>4, <2>5 DEF ReconRows
<1>8. \A u \in Staff : desk'[u].pc = "run" => desk'[u].run # r
  <2>1. \A u \in Staff : desk'[u] = IF u = s THEN NoTask ELSE desk[u]
    BY <1>1, <1>2
  <2> QED
    BY <1>1, <2>1 DEF TreasuryInv, OneWriter, NoTask, r
<1> HIDE DEF q
<1>9. /\ q.status # "none" /\ q.leg \subseteq attested /\ q.delta = 0 /\ ~q.unresolved
      /\ q.status = "mismatched" => \E t \in q.leg : t[2] # q.cash \/ t[2] < 0
  BY <1>2, <1>3, <1>4, <1>5, <1>6
<1> QED
  BY <1>1, <1>2, <1>7, <1>8, <1>9, RecordStepKeepsInv

\* The two transitions of a mismatch leave what it says of the books.
LEMMA ReviewKeepsInv ==
    ASSUME TreasuryInv, NEW s \in Staff,
           Resolve(s) \/ \E r \in Runs : Investigate(s, r)
    PROVE  TreasuryInv'
<1>0. recon \in [Runs -> ReconRows] /\ desk \in [Staff -> TaskRows] /\ NoTask \in TaskRows
  BY TreasuryTyped
<1>1. ASSUME NEW r \in Runs, NEW q \in ReconRows, recon[r].status # "none",
             q.status \notin {"none", "mismatched"}, q.leg = recon[r].leg,
             q.delta = recon[r].delta, q.unresolved = recon[r].unresolved,
             recon' = [recon EXCEPT ![r] = q],
             UNCHANGED <<entries, valued, transfers, sweptOn, attested>>,
             desk' = [desk EXCEPT ![s] = NoTask] \/ desk' = desk
      PROVE  TreasuryInv'
  <2>1. q.leg \subseteq attested /\ q.delta = 0 /\ ~q.unresolved
    BY <1>1 DEF TreasuryInv, TreasuryTypeOK, OnlyTheBankDisagrees
  <2>2. \A u \in Staff : desk'[u].pc = "run" => desk'[u].run # r
    <3>1. \A u \in Staff : desk'[u] = desk[u] \/ desk'[u] = NoTask
      BY <1>0, <1>1
    <3> QED
      BY <1>1, <3>1 DEF TreasuryInv, TaskFits, NoTask
  <2> QED
    BY <1>1, <2>1, <2>2, RecordStepKeepsInv
<1>2. ASSUME NEW r \in Runs, Investigate(s, r) PROVE TreasuryInv'
  <2> DEFINE q == [recon[r] EXCEPT !.status = "investigated"]
  <2>1. /\ q \in ReconRows /\ q.status = "investigated" /\ q.leg = recon[r].leg
        /\ q.delta = recon[r].delta /\ q.unresolved = recon[r].unresolved
    BY <1>0 DEF ReconRows
  <2>2. /\ recon[r].status = "mismatched" /\ recon' = [recon EXCEPT ![r] = q] /\ desk' = desk
        /\ UNCHANGED <<entries, valued, transfers, sweptOn, attested>>
    BY <1>2 DEF Investigate
  <2> HIDE DEF q
  <2> QED
    BY <1>1, <2>1, <2>2
<1>3. ASSUME Resolve(s), Resolvable(desk[s].run) PROVE TreasuryInv'
  <2> DEFINE r == desk[s].run
             q == [recon[r] EXCEPT !.status = "resolved", !.by = s, !.basis = desk[s].basis]
  <2>1. r \in Runs /\ desk[s].basis \in Runs \cup {"evidence", "none"}
    BY <1>0, <1>3 DEF Resolve, TreasuryInv, TaskFits, TaskRows
  <2>2. /\ q \in ReconRows /\ q.status = "resolved" /\ q.leg = recon[r].leg
        /\ q.delta = recon[r].delta /\ q.unresolved = recon[r].unresolved
    <3>1. recon[r] \in ReconRows /\ s \in Staff \cup {"none"}
      BY <1>0, <2>1
    <3> QED
      BY <2>1, <3>1 DEF ReconRows
  <2>3. recon' = [recon EXCEPT ![r] = q]
    BY <1>0, <1>3, <2>1 DEF Resolve
  <2>4. /\ recon[r].status = "investigated" /\ desk' = [desk EXCEPT ![s] = NoTask]
        /\ UNCHANGED <<entries, valued, transfers, sweptOn, attested>>
    BY <1>3 DEF Resolve, Resolvable, Frees
  <2> HIDE DEF q, r
  <2> QED
    BY <1>1, <2>1, <2>2, <2>3, <2>4
<1>4. ASSUME Resolve(s), ~Resolvable(desk[s].run) PROVE TreasuryInv'
  <2>1. UNCHANGED treasuryTables /\ desk' = [desk EXCEPT ![s] = NoTask]
    BY <1>4 DEF Resolve, Frees, treasuryTables
  <2>2. /\ desk' \in [Staff -> TaskRows] /\ desk'[s] = NoTask
        /\ \A u \in Staff : u # s => desk'[u] = desk[u]
    BY <1>0, <2>1
  <2>3. ASSUME NEW u \in Staff PROVE TaskFits(u)'
    <3>1. CASE u = s
      BY <2>2, <3>1 DEF TaskFits, NoTask
    <3>2. CASE u # s
      BY <2>1, <2>2, <3>2, TaskSurvives DEF treasuryTables, TreasuryInv, TaskFits
    <3> QED
      BY <3>1, <3>2
  <2>4. OneWriter'
    BY <2>2 DEF TreasuryInv, OneWriter, NoTask
  <2>5. TreasuryTypeOK'
    BY <2>1, <2>2 DEF TreasuryInv, TreasuryTypeOK, treasuryTables, TaskRows
  <2> QED
    BY <2>1, <2>2, <2>3, <2>4, <2>5
       DEF TreasuryInv, treasuryTables, EntriesFit, Paired, CompletedFor, TransfersFit,
           OnlyTheBankDisagrees
<1> QED
  BY <1>2, <1>3, <1>4

\* The books are empty at the start.
LEMMA InitTreasury == TreasuryInit => TreasuryInv
<1> SUFFICES ASSUME TreasuryInit PROVE TreasuryInv
  OBVIOUS
<1>1. NoTask \in TaskRows /\ NoRecon \in ReconRows
  BY DEF NoTask, NoRecon, TaskRows, ReconRows
<1>2. /\ \A s \in Staff : desk[s] = NoTask /\ desk[s].pc = "idle"
      /\ \A r \in Runs : recon[r].status = "none" /\ recon[r].day = 0 /\ recon[r].leg = {}
      /\ entries = {} /\ transfers = {} /\ attested = {}
      /\ valued \in [Events -> Days \cup {0}] /\ sweptOn \in [Events -> Days \cup {0}]
  BY DEF TreasuryInit, NoTask, NoRecon
<1>3. recon \in [Runs -> ReconRows] /\ desk \in [Staff -> TaskRows]
  BY <1>1 DEF TreasuryInit
<1>4. TreasuryTypeOK
  BY <1>2 DEF TreasuryTypeOK
<1> QED
  BY <1>2, <1>3, <1>4, FS_EmptySet
     DEF TreasuryInv, TaskFits, OneWriter, EntriesFit, Paired, CompletedFor, TransfersFit,
         OnlyTheBankDisagrees

\* Every step keeps the invariant.
LEMMA TreasuryKeepsInv == TreasuryInv /\ [TreasuryNext]_treasuryVars => TreasuryInv'
<1> SUFFICES ASSUME TreasuryInv, [TreasuryNext]_treasuryVars PROVE TreasuryInv'
  OBVIOUS
<1>1. CASE UNCHANGED treasuryVars
  BY <1>1
     DEF treasuryVars, treasuryTables, TreasuryInv, TreasuryTypeOK, TaskFits, OneWriter,
         EntriesFit, Paired, CompletedFor, TransfersFit, OnlyTheBankDisagrees
<1> QED
  BY <1>1, PostingKeepsInv, EachLoadKeepsTreasuryInv, TransferKeepsInv, AttestationKeepsInv,
     RunKeepsInv, ReviewKeepsInv
     DEF TreasuryNext

-----------------------------------------------------------------------------
\* The inductive invariant holds in every reachable state of the treasury.
THEOREM TreasuryInvariant == TreasurySpec => []TreasuryInv
<1> QED
  BY InitTreasury, TreasuryKeepsInv, PTL DEF TreasurySpec

\* The books of the safeguarding account agree at every cut date, for any
\* number of postings, desks and runs: cash and obligations differ by nothing
\* but the bank, whatever a run has caught half way, and a zero-net close is
\* swept once.
THEOREM TreasuryBooksAgree == TreasurySpec => []BooksAgree
<1>1. TreasuryInv => BooksAgree
  <2> SUFFICES ASSUME TreasuryInv PROVE BooksAgree
    OBVIOUS
  <2>1. ASSUME NEW e \in Events PROVE Cardinality(CompletedFor(e)) <= 1
    <3>1. \A t, u \in CompletedFor(e) : t = u
      BY DEF CompletedFor, TreasuryInv, TransfersFit
    <3>2. CASE CompletedFor(e) = {}
      BY <3>2, FS_EmptySet
    <3>3. CASE CompletedFor(e) # {}
      <4>1. PICK t : CompletedFor(e) = {t}
        BY <3>1, <3>3
      <4> QED
        BY <4>1, FS_Singleton
    <3> QED
      BY <3>2, <3>3
  <2>2. SweptOnce
    BY <2>1 DEF SweptOnce, TreasuryInv, EntriesFit, TransfersFit
  <2> QED
    BY <2>2 DEF BooksAgree, TreasuryInv
<1> QED
  BY <1>1, TreasuryInvariant, PTL

\* A resolved mismatch keeps the name and the basis it was resolved with: the
\* second of two resolvers writes nothing, and no run writes its record again.
LEMMA ResolvedStays ==
    ASSUME TreasuryInv, [TreasuryNext]_treasuryVars, NEW r \in Runs, recon[r].status = "resolved"
    PROVE  recon'[r] = recon[r]
<1>0. recon \in [Runs -> ReconRows]
  BY TreasuryTyped
<1>1. ASSUME NEW s \in Staff, RunReconciliation(s) PROVE recon'[r] = recon[r]
  <2>1. desk[s].run # r
    BY <1>1 DEF RunReconciliation, TreasuryInv, TaskFits
  <2> QED
    BY <1>0, <1>1, <2>1 DEF RunReconciliation
<1>2. ASSUME NEW s \in Staff, NEW x \in Runs, Investigate(s, x) PROVE recon'[r] = recon[r]
  BY <1>0, <1>2 DEF Investigate
<1>3. ASSUME NEW s \in Staff, Resolve(s) PROVE recon'[r] = recon[r]
  BY <1>0, <1>3 DEF Resolve, Resolvable
<1>4. ASSUME ~\E s \in Staff : RunReconciliation(s) \/ Resolve(s) \/ \E x \in Runs : Investigate(s, x)
      PROVE  recon' = recon
  <2>1. ASSUME NEW e \in Events, PostRemittance(e) \/ \E d \in Days : Remit(e, d)
        PROVE  recon' = recon
    BY <2>1 DEF PostRemittance, Remit
  <2>2. ASSUME NEW e \in Events, NEW d \in Days, NEW k \in DOMAIN PostingsOf, PostEvent(e, k, d)
        PROVE  recon' = recon
    BY <2>2 DEF PostEvent
  <2>3. ASSUME NEW s \in Staff, NEW e \in Events, NEW ref \in BankRefs, NEW ok \in BOOLEAN,
               TransferLoad(s, e, ref, ok)
        PROVE  recon' = recon
    BY <2>3 DEF TransferLoad, treasuryTables
  <2>4. ASSUME NEW s \in Staff, NEW d \in Days,
               \/ RecordInternalTransfer(s, d) \/ \E b \in Balances : RecordAttestation(s, d, b)
               \/ \E x \in Runs, leg \in SUBSET StatedAt(d) : RunLoad(s, x, d, leg)
        PROVE  recon' = recon
    BY <2>4 DEF RecordInternalTransfer, RecordAttestation, RunLoad, treasuryTables
  <2>5. ASSUME NEW s \in Staff, NEW x \in Runs, NEW b \in Runs \cup {"evidence"}, ResolveLoads(s, x, b)
        PROVE  recon' = recon
    BY <2>5 DEF ResolveLoads, treasuryTables
  <2>6. CASE UNCHANGED treasuryVars
    BY <2>6 DEF treasuryVars, treasuryTables
  <2> QED
    BY <1>4, <2>1, <2>2, <2>3, <2>4, <2>5, <2>6 DEF TreasuryNext
<1> QED
  BY <1>1, <1>2, <1>3, <1>4

\* A mismatch is closed once.
THEOREM MismatchesResolvedOnce == TreasurySpec => ResolvedOnce
<1>1. TreasuryInv /\ [TreasuryNext]_treasuryVars =>
        [\A r \in Runs : recon[r].status = "resolved" => recon'[r] = recon[r]]_treasuryVars
  BY ResolvedStays
<1> QED
  BY <1>1, TreasuryInvariant, PTL DEF TreasurySpec, ResolvedOnce

-----------------------------------------------------------------------------
(***************************************************************************)
(* The documents of approved campaigns, for any campaigns, approvals,      *)
(* clerks and prices.                                                      *)
(***************************************************************************)

ApprovalRows == [pc : {"idle", "freeze", "ensure", "issue", "post"}, of : Deals \cup {"none"},
                 leg : InvoiceLegs, price : 0..MaxPrice]

ClerkRows == [of : Deals \cup {"none"}, to : References]

\* The invoices, their series and the ledger.
DocumentBooks ==
    /\ series \in 0..Cardinality(Deals)
    /\ invoice \in [Keys -> [num : Nat, price : 0..MaxPrice]] /\ posted \in [Keys -> 0..MaxPrice]
    /\ SeriesGapFree /\ PostedAsIssued
    /\ \A k \in Issued : invoice[k].price # 0
    /\ Cardinality(Invoiced) = series

\* The campaigns, the prices and the merchants' references.
DealRows ==
    /\ deal \in [Deals -> {"pending", "approved", "left"}]
    /\ price \in 1..MaxPrice /\ snapshot \in [Deals -> 0..MaxPrice] /\ faults \in 0..MaxFaults
    /\ legal \in [Deals -> References] /\ OnBehalfIsMandated
    /\ \A d \in Deals : deal[d] # "pending" => snapshot[d] # 0

\* The sweep of the repair.
SweepRows ==
    /\ sweep \in [pc : {"idle", "repairing", "swept"}, missing : SUBSET Keys, issued : SUBSET Keys]
    /\ RepairFits /\ SweptMeansPosted

\* A document is never changed, and an entry never taken back.
DocumentsGrow ==
    /\ \A k \in Issued : k \in Issued' /\ invoice'[k] = invoice[k]
    /\ \A k \in Keys : posted[k] # 0 => posted'[k] = posted[k]

\* The parts of the invariant.
LEMMA InvoicingParts ==
    InvoicingInv <=> /\ DocumentBooks /\ DealRows /\ SweepRows
                     /\ approval \in [Approvals -> ApprovalRows] /\ clerk \in [Clerks -> ClerkRows]
                     /\ \A a \in Approvals : ApprovalFits(a)
                     /\ \A c \in Clerks : ClerkFits(c)
  BY DEF InvoicingInv, DocumentsAgree, InvoicingTypeOK, DocumentBooks, DealRows, SweepRows, ApprovalRows, ClerkRows

\* The same of the next state.
LEMMA InvoicingPartsNext ==
    (InvoicingInv <=> /\ DocumentBooks /\ DealRows /\ SweepRows
                      /\ approval \in [Approvals -> ApprovalRows] /\ clerk \in [Clerks -> ClerkRows]
                      /\ \A a \in Approvals : ApprovalFits(a)
                      /\ \A c \in Clerks : ClerkFits(c))'
  BY InvoicingParts, PTL

\* What every step does.
InvoicingLawful ==
    /\ DocumentBooks' /\ DocumentsGrow /\ DealRows' /\ SweepRows'
    /\ approval' \in [Approvals -> ApprovalRows] /\ clerk' \in [Clerks -> ClerkRows]
    /\ \A a \in Approvals : approval'[a] = approval[a] \/ ApprovalFits(a)'
    /\ \A c \in Clerks : clerk'[c] = clerk[c] \/ ClerkFits(c)'

\* Steps of that kind keep the invariant.
LEMMA LawfulKeepsInvoicing ==
    ASSUME InvoicingInv, InvoicingLawful
    PROVE  InvoicingInv'
<1>1. ASSUME NEW a \in Approvals PROVE ApprovalFits(a)'
  <2>1. CASE approval'[a] = approval[a]
    <3>1. ApprovalFits(a) /\ Leg(a)' = Leg(a)
      BY <2>1, InvoicingParts DEF Leg
    <3> QED
      BY <2>1, <3>1 DEF ApprovalFits, InvoicingLawful, DocumentsGrow
  <2> QED
    BY <2>1 DEF InvoicingLawful
<1>2. ASSUME NEW c \in Clerks PROVE ClerkFits(c)'
  <2>1. CASE clerk'[c] = clerk[c]
    BY <2>1, InvoicingParts DEF ClerkFits
  <2> QED
    BY <2>1 DEF InvoicingLawful
<1> QED
  BY <1>1, <1>2, InvoicingPartsNext DEF InvoicingLawful

\* The documents stay as they are.
LEMMA SameDocuments ==
    ASSUME InvoicingInv, UNCHANGED documents
    PROVE  DocumentBooks' /\ DocumentsGrow /\ Issued' = Issued
<1>1. UNCHANGED <<series, invoice, posted>>
  BY DEF documents
<1>2. DocumentBooks
  BY InvoicingParts
<1>3. Issued' = Issued /\ Invoiced' = Invoiced
  BY <1>1 DEF Issued, Invoiced
<1>4. SeriesGapFree' /\ PostedAsIssued'
  BY <1>1, <1>2, <1>3 DEF DocumentBooks, SeriesGapFree, PostedAsIssued
<1> QED
  BY <1>1, <1>2, <1>3, <1>4 DEF DocumentBooks, DocumentsGrow

\* The sweep stays as it is.
LEMMA SameSweep ==
    ASSUME InvoicingInv, UNCHANGED sweep, DocumentsGrow, posted' \in [Keys -> 0..MaxPrice]
    PROVE  SweepRows'
<1>1. SweepRows
  BY InvoicingParts
<1>2. sweep' = sweep
  OBVIOUS
<1>3. sweep.missing \subseteq Keys /\ sweep.issued \subseteq Keys
  BY <1>1 DEF SweepRows
<1> QED
  BY <1>1, <1>2, <1>3 DEF SweepRows, RepairFits, SweptMeansPosted, DocumentsGrow

\* The next leg, or the end, of an approval.
LEMMA NextLegFits ==
    ASSUME InvoicingInv, NEW a \in Approvals, approval[a].pc # "idle", NextLeg(a)
    PROVE  /\ approval' \in [Approvals -> ApprovalRows]
           /\ \A b \in Approvals : approval'[b] = approval[b] \/ ApprovalFits(b)'
<1>1. approval \in [Approvals -> ApprovalRows] /\ ApprovalFits(a)
  BY InvoicingParts
<1>2. NoApproval \in ApprovalRows
  BY InvoicingAssumption DEF NoApproval, ApprovalRows, InvoiceLegs
<1>3. CASE approval[a].leg = "service"
  <2>1. approval' = [approval EXCEPT ![a] = [approval[a] EXCEPT !.pc = "ensure", !.leg = "goods"]]
    BY <1>1, <1>3 DEF NextLeg
  <2>2. approval' \in [Approvals -> ApprovalRows]
    BY <1>1, <2>1 DEF ApprovalRows, InvoiceLegs
  <2>3. approval'[a].pc = "ensure" /\ approval'[a].of \in Deals
    BY <1>1, <2>1 DEF ApprovalRows, ApprovalFits
  <2> QED
    BY <1>1, <2>1, <2>2, <2>3 DEF ApprovalFits
<1>4. CASE approval[a].leg # "service"
  <2>1. approval' = [approval EXCEPT ![a] = NoApproval]
    BY <1>1, <1>4 DEF NextLeg
  <2> QED
    BY <1>1, <1>2, <2>1 DEF ApprovalFits, NoApproval
<1> QED
  BY <1>3, <1>4

\* A fault is counted.
LEMMA FaultTyped == ASSUME InvoicingInv, Fault PROVE faults' \in 0..MaxFaults
  BY InvoicingParts, InvoicingAssumption DEF Fault, DealRows

\* The price moves, and campaigns leave.
LEMMA DealsLawful ==
    ASSUME InvoicingInv, PriceChanges \/ \E d \in Deals : DealLeaves(d)
    PROVE  InvoicingLawful
<1>1. UNCHANGED <<documents, legal, approval, clerk, sweep, faults>>
  BY DEF PriceChanges, DealLeaves
<1>2. DocumentBooks' /\ DocumentsGrow
  BY <1>1, SameDocuments
<1>3. DealRows'
  <2>1. CASE PriceChanges
    BY <1>1, <2>1, InvoicingParts, InvoicingAssumption DEF PriceChanges, DealRows, OnBehalfIsMandated
  <2>2. ASSUME NEW d \in Deals, DealLeaves(d) PROVE DealRows'
    BY <1>1, <2>2, InvoicingParts DEF DealLeaves, DealRows, OnBehalfIsMandated
  <2> QED
    BY <2>1, <2>2
<1>4. SweepRows'
  BY <1>1, <1>2, SameSweep DEF DocumentBooks
<1> QED
  BY <1>1, <1>2, <1>3, <1>4, InvoicingParts DEF InvoicingLawful

\* An approval reads, freezes the price, looks for its document, or is cut off.
LEMMA ApprovalLawful ==
    ASSUME InvoicingInv, NEW a \in Approvals,
           \/ \E d \in Deals : ApprovalLoads(a, d)
           \/ ApprovalFreezes(a) \/ EnsureReads(a) \/ ApprovalCutOff(a)
    PROVE  InvoicingLawful
<1>1. UNCHANGED <<documents, legal, clerk, sweep>>
  BY DEF ApprovalLoads, ApprovalFreezes, EnsureReads, ApprovalCutOff
<1>2. DocumentBooks' /\ DocumentsGrow
  BY <1>1, SameDocuments
<1>3. SweepRows'
  BY <1>1, <1>2, SameSweep DEF DocumentBooks
<1>4. approval \in [Approvals -> ApprovalRows] /\ approval[a] \in ApprovalRows /\ ApprovalFits(a) /\ DealRows
  BY InvoicingParts
<1> DEFINE Fitting == /\ DealRows' /\ approval' \in [Approvals -> ApprovalRows]
                      /\ \A b \in Approvals : approval'[b] = approval[b] \/ ApprovalFits(b)'
<1>5. ASSUME NEW d \in Deals, ApprovalLoads(a, d) PROVE Fitting
  <2> DEFINE new == [pc |-> "freeze", of |-> d, leg |-> "service", price |-> price]
  <2>1. new \in ApprovalRows /\ new.price # 0
    BY <1>4, InvoicingAssumption DEF DealRows, ApprovalRows, InvoiceLegs
  <2>2. approval' = [approval EXCEPT ![a] = new]
    BY <1>5 DEF ApprovalLoads
  <2>3. DealRows'
    BY <1>4, <1>5 DEF ApprovalLoads, DealRows, OnBehalfIsMandated
  <2> QED
    BY <1>4, <2>1, <2>2, <2>3 DEF ApprovalFits
<1>6. ASSUME ApprovalFreezes(a) PROVE Fitting
  <2>1. approval[a].of \in Deals /\ approval[a].price \in 0..MaxPrice /\ approval[a].price # 0
    BY <1>4, <1>6 DEF ApprovalFits, ApprovalFreezes, ApprovalRows
  <2>2. /\ deal' = [deal EXCEPT ![approval[a].of] = "approved"]
        /\ snapshot' = [snapshot EXCEPT ![approval[a].of] = approval[a].price]
        /\ approval' = [approval EXCEPT ![a].pc = "ensure"] /\ UNCHANGED <<price, faults, legal>>
    BY <1>6 DEF ApprovalFreezes
  <2>3. DealRows'
    BY <1>4, <2>1, <2>2 DEF DealRows, OnBehalfIsMandated
  <2>4. approval' \in [Approvals -> ApprovalRows] /\ approval'[a].pc = "ensure" /\ approval'[a].of \in Deals
    BY <1>4, <2>1, <2>2 DEF ApprovalRows
  <2> QED
    BY <1>4, <2>2, <2>3, <2>4 DEF ApprovalFits
<1>7. ASSUME EnsureReads(a) PROVE Fitting
  <2>1. DealRows'
    BY <1>4, <1>7 DEF EnsureReads, DealRows, OnBehalfIsMandated
  <2>2. CASE Leg(a) \notin Issued /\ deal[approval[a].of] = "approved"
    <3>1. approval[a].of \in Deals
      BY <1>4, <1>7 DEF ApprovalFits, EnsureReads
    <3>2. snapshot[approval[a].of] \in 0..MaxPrice /\ snapshot[approval[a].of] # 0
      BY <1>4, <2>2, <3>1 DEF DealRows
    <3>3. approval' = [approval EXCEPT ![a].pc = "issue", ![a].price = snapshot[approval[a].of]]
      BY <1>7, <2>2 DEF EnsureReads
    <3>4. /\ approval' \in [Approvals -> ApprovalRows] /\ approval'[a].pc = "issue" /\ approval'[a].of \in Deals
          /\ approval'[a].price # 0
      BY <1>4, <3>1, <3>2, <3>3 DEF ApprovalRows
    <3> QED
      BY <1>4, <2>1, <3>3, <3>4 DEF ApprovalFits
  <2>3. CASE ~(Leg(a) \notin Issued /\ deal[approval[a].of] = "approved")
    BY <1>7, <2>1, <2>3, NextLegFits DEF EnsureReads
  <2> QED
    BY <2>2, <2>3
<1>8. ASSUME ApprovalCutOff(a) PROVE Fitting
  <2>1. NoApproval \in ApprovalRows
    BY InvoicingAssumption DEF NoApproval, ApprovalRows, InvoiceLegs
  <2>2. DealRows'
    BY <1>1, <1>4, <1>8, FaultTyped DEF ApprovalCutOff, DealRows, OnBehalfIsMandated
  <2> QED
    BY <1>4, <1>8, <2>1, <2>2 DEF ApprovalCutOff, ApprovalFits, NoApproval
<1>9. Fitting
  BY <1>5, <1>6, <1>7, <1>8
<1> QED
  BY <1>1, <1>2, <1>3, <1>9, InvoicingParts DEF InvoicingLawful

\* A new service invoice takes the next number, and is the only one to have it.
LEMMA NumberedDocument ==
    ASSUME InvoicingInv, NEW k \in Keys, k \notin Issued, k[1] = "service",
           NEW amount \in 0..MaxPrice, amount # 0,
           invoice' = [invoice EXCEPT ![k] = [num |-> series + 1, price |-> amount]],
           series' = series + 1, UNCHANGED posted
    PROVE  DocumentBooks' /\ DocumentsGrow /\ k \in Issued'
<1> DEFINE numbered == {j \in Issued : j[1] = "service"}
<1> USE InvoicingAssumption
<1>1. DocumentBooks
  BY InvoicingParts
<1>2. /\ invoice' \in [Keys -> [num : Nat, price : 0..MaxPrice]]
      /\ invoice'[k] = [num |-> series + 1, price |-> amount]
      /\ \A j \in Keys : j # k => invoice'[j] = invoice[j]
  BY <1>1 DEF DocumentBooks
<1>3. Issued' = Issued \cup {k} /\ Issued \subseteq Keys
  BY <1>2 DEF Issued, NoDocument
<1>4. PICK d \in Deals : k = <<"service", d>>
  BY DEF Keys, InvoiceLegs
<1>5. Invoiced' = Invoiced \cup {d} /\ d \notin Invoiced /\ Invoiced \subseteq Deals /\ Invoiced' \subseteq Deals
  BY <1>3, <1>4 DEF Invoiced
<1>6. IsFiniteSet(Invoiced) /\ IsFiniteSet(Invoiced')
  BY <1>5, FS_Subset
<1>7. Cardinality(Invoiced') = series' /\ series' \in 0..Cardinality(Deals)
  <2>1. Cardinality(Invoiced') = Cardinality(Invoiced) + 1
    BY <1>5, <1>6, FS_AddElement
  <2>2. Cardinality(Invoiced') <= Cardinality(Deals) /\ Cardinality(Deals) \in Nat
    BY <1>5, FS_Subset, FS_CardinalityType
  <2> QED
    BY <1>1, <2>1, <2>2 DEF DocumentBooks
<1>8. (\A j \in Issued : invoice[j].price # 0)' /\ PostedAsIssued' /\ DocumentsGrow
  <2>1. \A j \in Issued : j # k
    OBVIOUS
  <2> QED
    BY <1>1, <1>2, <1>3, <2>1 DEF DocumentBooks, PostedAsIssued, DocumentsGrow
<1>9. SeriesGapFree'
  <2>1. {j \in Issued : j[1] = "service"}' = numbered \cup {k} /\ k \notin numbered
    BY <1>3
  <2>2. \A j \in numbered : invoice'[j] = invoice[j]
    BY <1>2, <1>3
  <2>3. IsFiniteSet(numbered) /\ Cardinality(numbered) = series /\ {invoice[j].num : j \in numbered} = 1..series
    <3>1. IsFiniteSet(Keys)
      <4>1. IsFiniteSet(InvoiceLegs)
        <5>1. IsFiniteSet({"service"})
          BY FS_Singleton
        <5>2. InvoiceLegs = {"service"} \cup {"goods"}
          BY DEF InvoiceLegs
        <5> QED
          BY <5>1, <5>2, FS_AddElement
      <4> QED
        BY <4>1, FS_Product DEF Keys
    <3>2. IsFiniteSet(numbered)
      BY <1>3, <3>1, FS_Subset
    <3> QED
      BY <1>1, <3>2 DEF DocumentBooks, SeriesGapFree
  <2>4. Cardinality(numbered \cup {k}) = series + 1
    BY <2>1, <2>3, FS_AddElement
  <2>5. {invoice'[j].num : j \in numbered \cup {k}} = {invoice[j].num : j \in numbered} \cup {series + 1}
    BY <1>2, <2>2
  <2>6. 1..(series + 1) = (1..series) \cup {series + 1}
    BY <1>1 DEF DocumentBooks
  <2> QED
    BY <2>1, <2>3, <2>4, <2>5, <2>6 DEF SeriesGapFree
<1> QED
  BY <1>1, <1>2, <1>3, <1>7, <1>8, <1>9 DEF DocumentBooks

\* A new goods invoice is outside the series.
LEMMA GoodsDocument ==
    ASSUME InvoicingInv, NEW k \in Keys, k \notin Issued, k[1] = "goods",
           NEW amount \in 0..MaxPrice, amount # 0,
           invoice' = [invoice EXCEPT ![k] = [num |-> 0, price |-> amount]],
           UNCHANGED <<series, posted>>
    PROVE  DocumentBooks' /\ DocumentsGrow /\ k \in Issued'
<1>1. DocumentBooks
  BY InvoicingParts
<1>2. /\ invoice' \in [Keys -> [num : Nat, price : 0..MaxPrice]]
      /\ invoice'[k] = [num |-> 0, price |-> amount]
      /\ \A j \in Keys : j # k => invoice'[j] = invoice[j]
  BY <1>1 DEF DocumentBooks
<1>3. Issued' = Issued \cup {k} /\ Issued \subseteq Keys
  BY <1>2 DEF Issued, NoDocument
<1>4. Invoiced' = Invoiced
  BY <1>3 DEF Invoiced
<1>5. (\A j \in Issued : invoice[j].price # 0)' /\ PostedAsIssued' /\ DocumentsGrow
  <2>1. \A j \in Issued : j # k
    OBVIOUS
  <2> QED
    BY <1>1, <1>2, <1>3, <2>1 DEF DocumentBooks, PostedAsIssued, DocumentsGrow
<1>6. SeriesGapFree'
  <2> DEFINE numbered == {j \in Issued : j[1] = "service"}
  <2>1. {j \in Issued : j[1] = "service"}' = numbered
    BY <1>3
  <2>2. {invoice'[j].num : j \in numbered} = {invoice[j].num : j \in numbered}
    BY <1>2, <1>3
  <2> QED
    BY <1>1, <2>1, <2>2 DEF DocumentBooks, SeriesGapFree
<1> QED
  BY <1>1, <1>2, <1>3, <1>4, <1>5, <1>6 DEF DocumentBooks

\* An issuance creates the document, or leaves all as it is.
LEMMA IssueLawful ==
    ASSUME InvoicingInv, NEW a \in Approvals, IssueDocument(a)
    PROVE  InvoicingLawful
<1> DEFINE k == Leg(a)
<1>1. /\ approval \in [Approvals -> ApprovalRows] /\ approval[a] \in ApprovalRows /\ ApprovalFits(a) /\ DealRows
      /\ approval[a].pc = "issue" /\ UNCHANGED <<deal, price, snapshot, posted, legal, clerk, sweep>>
  BY InvoicingParts DEF IssueDocument
<1>2. k \in Keys /\ k[1] = approval[a].leg /\ approval[a].price \in 0..MaxPrice /\ approval[a].price # 0
      /\ approval[a].leg \in InvoiceLegs /\ approval[a].of \in Deals
  BY <1>1 DEF ApprovalFits, ApprovalRows, Leg, Keys
<1>3. posted' \in [Keys -> 0..MaxPrice]
  BY <1>1, InvoicingParts DEF DocumentBooks
<1>4. CASE /\ k \notin Issued /\ faults' = faults
           /\ invoice' = [invoice EXCEPT ![k] = [num |-> IF approval[a].leg = "service" THEN series + 1 ELSE 0,
                                                 price |-> approval[a].price]]
           /\ series' = IF approval[a].leg = "service" THEN SeriesAfter(TRUE) ELSE series
           /\ approval' = [approval EXCEPT ![a].pc = "post"]
  <2> HIDE DEF k
  <2>1. DocumentBooks' /\ DocumentsGrow /\ k \in Issued'
    <3>1. CASE approval[a].leg = "service"
      <4>1. invoice' = [invoice EXCEPT ![k] = [num |-> series + 1, price |-> approval[a].price]]
            /\ series' = series + 1
        BY <1>4, <3>1 DEF SeriesAfter
      <4> QED
        BY <1>1, <1>2, <1>4, <3>1, <4>1, NumberedDocument
    <3>2. CASE approval[a].leg = "goods"
      <4>1. invoice' = [invoice EXCEPT ![k] = [num |-> 0, price |-> approval[a].price]] /\ series' = series
        BY <1>4, <3>2
      <4> QED
        BY <1>1, <1>2, <1>4, <3>2, <4>1, GoodsDocument
    <3> QED
      BY <1>2, <3>1, <3>2 DEF InvoiceLegs
  <2>2. /\ approval' \in [Approvals -> ApprovalRows] /\ approval'[a].pc = "post"
        /\ approval'[a].of = approval[a].of /\ approval'[a].leg = approval[a].leg
        /\ \A b \in Approvals : b # a => approval'[b] = approval[b]
    BY <1>1, <1>4 DEF ApprovalRows
  <2>3. ApprovalFits(a)'
    <3>1. Leg(a)' = k
      BY <2>2 DEF Leg, k
    <3> QED
      BY <1>2, <2>1, <2>2, <3>1 DEF ApprovalFits
  <2>4. DealRows'
    BY <1>1, <1>4 DEF DealRows, OnBehalfIsMandated
  <2>5. SweepRows'
    BY <1>1, <1>3, <2>1, SameSweep
  <2> QED
    BY <1>1, <2>1, <2>2, <2>3, <2>4, <2>5, InvoicingParts DEF InvoicingLawful
<1>5. CASE /\ k \in Issued \/ faults < MaxFaults
           /\ faults' = IF k \in Issued THEN faults ELSE faults + 1
           /\ series' = IF approval[a].leg = "service" THEN SeriesAfter(FALSE) ELSE series
           /\ NextLeg(a) /\ invoice' = invoice
  <2>1. UNCHANGED documents
    BY <1>1, <1>5 DEF SeriesAfter, documents
  <2>2. DocumentBooks' /\ DocumentsGrow
    BY <2>1, SameDocuments
  <2>3. DealRows'
    <3>1. faults' \in 0..MaxFaults
      BY <1>1, <1>5, InvoicingAssumption DEF DealRows
    <3> QED
      BY <1>1, <3>1 DEF DealRows, OnBehalfIsMandated
  <2>4. SweepRows'
    BY <1>1, <1>3, <2>2, SameSweep
  <2>5. /\ approval' \in [Approvals -> ApprovalRows]
        /\ \A b \in Approvals : approval'[b] = approval[b] \/ ApprovalFits(b)'
    BY <1>1, <1>5, NextLegFits
  <2> QED
    BY <1>1, <2>2, <2>3, <2>4, <2>5, InvoicingParts DEF InvoicingLawful
<1> QED
  BY <1>4, <1>5 DEF IssueDocument

\* A posting under a key is for the amount of the key's document.
LEMMA RecordBooks ==
    ASSUME InvoicingInv, NEW k \in Issued, Record(k, invoice[k].price), UNCHANGED <<series, invoice>>
    PROVE  /\ DocumentBooks' /\ DocumentsGrow /\ Issued' = Issued /\ posted'[k] # 0
           /\ posted' \in [Keys -> 0..MaxPrice]
<1>1. DocumentBooks /\ Issued \subseteq Keys
  BY InvoicingParts DEF Issued
<1>2. /\ posted' \in [Keys -> 0..MaxPrice] /\ \A j \in Keys : j # k => posted'[j] = posted[j]
      /\ posted'[k] = IF posted[k] = 0 THEN invoice[k].price ELSE posted[k]
  BY <1>1 DEF Record, DocumentBooks
<1>3. Issued' = Issued /\ Invoiced' = Invoiced
  BY DEF Issued, Invoiced
<1>4. SeriesGapFree'
  BY <1>1, <1>3 DEF DocumentBooks, SeriesGapFree
<1>5. PostedAsIssued' /\ posted'[k] # 0 /\ DocumentsGrow
  BY <1>1, <1>2, <1>3 DEF DocumentBooks, PostedAsIssued, DocumentsGrow
<1> QED
  BY <1>1, <1>2, <1>3, <1>4, <1>5 DEF DocumentBooks

\* An approval posts its document, or fails to.
LEMMA PostLawful ==
    ASSUME InvoicingInv, NEW a \in Approvals, PostDocument(a)
    PROVE  InvoicingLawful
<1>1. /\ ApprovalFits(a) /\ DealRows /\ approval[a].pc = "post" /\ NextLeg(a)
      /\ UNCHANGED <<deal, price, snapshot, series, invoice, legal, clerk, sweep>>
      /\ \/ Record(Leg(a), invoice[Leg(a)].price) /\ faults' = faults
         \/ Fault /\ posted' = posted
  BY InvoicingParts DEF PostDocument
<1>2. Leg(a) \in Issued
  BY <1>1 DEF ApprovalFits
<1>3. DocumentBooks' /\ DocumentsGrow
  <2>1. CASE Record(Leg(a), invoice[Leg(a)].price)
    BY <1>1, <1>2, <2>1, RecordBooks
  <2>2. CASE posted' = posted
    BY <1>1, <2>2, SameDocuments DEF documents
  <2> QED
    BY <1>1, <2>1, <2>2
<1>4. DealRows'
  BY <1>1, FaultTyped DEF DealRows, OnBehalfIsMandated
<1>5. SweepRows'
  BY <1>1, <1>3, SameSweep DEF DocumentBooks
<1>6. /\ approval' \in [Approvals -> ApprovalRows]
      /\ \A b \in Approvals : approval'[b] = approval[b] \/ ApprovalFits(b)'
  BY <1>1, NextLegFits
<1> QED
  BY <1>1, <1>3, <1>4, <1>5, <1>6, InvoicingParts DEF InvoicingLawful

\* The repair: the list of what is missing, one posting after another, the end.
LEMMA RepairLawful ==
    ASSUME InvoicingInv, RepairAll \/ RepairEnds \/ \E k \in Keys : RepairInvoice(k)
    PROVE  InvoicingLawful
<1>1. DealRows /\ SweepRows /\ DocumentBooks /\ Issued \subseteq Keys
  BY InvoicingParts DEF Issued
<1>2. UNCHANGED <<deal, price, snapshot, series, invoice, legal, approval, clerk>>
  BY DEF RepairAll, RepairEnds, RepairInvoice, documents
<1> DEFINE Fitting == DocumentBooks' /\ DocumentsGrow /\ DealRows' /\ SweepRows'
<1>3. ASSUME RepairAll PROVE Fitting
  <2>1. UNCHANGED documents /\ faults' = faults /\ posted' = posted
    BY <1>3 DEF RepairAll, documents
  <2>2. DocumentBooks' /\ DocumentsGrow /\ Issued' = Issued
    BY <2>1, SameDocuments
  <2>3. sweep' = [pc |-> "repairing", missing |-> MissingPostings, issued |-> Issued]
    BY <1>3 DEF RepairAll
  <2>4. MissingPostings \subseteq Issued /\ \A k \in Issued \ MissingPostings : posted[k] # 0
    BY DEF MissingPostings
  <2>5. SweepRows'
    BY <1>1, <2>1, <2>2, <2>3, <2>4 DEF SweepRows, RepairFits, SweptMeansPosted
  <2>6. DealRows'
    BY <1>1, <1>2, <2>1 DEF DealRows, OnBehalfIsMandated
  <2> QED
    BY <2>2, <2>5, <2>6
<1>4. ASSUME NEW k \in Keys, RepairInvoice(k) PROVE Fitting
  <2>1. /\ k \in sweep.missing /\ k \in Issued /\ sweep.pc = "repairing" /\ faults' = faults
        /\ Record(k, invoice[k].price) /\ sweep' = [sweep EXCEPT !.missing = @ \ {k}]
    BY <1>1, <1>4 DEF RepairInvoice, RepairAmount, SweepRows, RepairFits
  <2>2. DocumentBooks' /\ DocumentsGrow /\ Issued' = Issued /\ posted'[k] # 0
    BY <1>2, <2>1, RecordBooks
  <2>3. /\ sweep'.pc = "repairing" /\ sweep'.missing = sweep.missing \ {k} /\ sweep'.issued = sweep.issued
        /\ sweep' \in [pc : {"idle", "repairing", "swept"}, missing : SUBSET Keys, issued : SUBSET Keys]
    BY <1>1, <2>1 DEF SweepRows
  <2>4. \A j \in Keys : posted[j] # 0 => posted'[j] # 0
    BY <2>2 DEF DocumentsGrow
  <2>5. SweepRows'
    BY <1>1, <2>1, <2>2, <2>3, <2>4 DEF SweepRows, RepairFits, SweptMeansPosted
  <2>6. DealRows'
    BY <1>1, <1>2, <2>1 DEF DealRows, OnBehalfIsMandated
  <2> QED
    BY <2>2, <2>5, <2>6
<1>5. ASSUME RepairEnds PROVE Fitting
  <2>1. UNCHANGED documents /\ posted' = posted
    BY <1>5 DEF RepairEnds, documents
  <2>2. DocumentBooks' /\ DocumentsGrow /\ Issued' = Issued
    BY <2>1, SameDocuments
  <2>3. DealRows'
    BY <1>1, <1>2, <1>5, FaultTyped DEF RepairEnds, DealRows, OnBehalfIsMandated
  <2>4. SweepRows'
    <3>1. CASE sweep.missing = {} /\ sweep' = [sweep EXCEPT !.pc = "swept"]
      BY <1>1, <1>5, <2>1, <2>2, <3>1 DEF SweepRows, RepairFits, SweptMeansPosted, RepairEnds
    <3>2. CASE sweep' = NoSweep
      BY <3>2 DEF SweepRows, RepairFits, SweptMeansPosted, NoSweep
    <3> QED
      BY <1>5, <3>1, <3>2 DEF RepairEnds
  <2> QED
    BY <2>2, <2>3, <2>4
<1> QED
  BY <1>2, <1>3, <1>4, <1>5, InvoicingParts DEF InvoicingLawful

\* A clerk reads the row and writes it back with the reference.
LEMMA AttachLawful ==
    ASSUME InvoicingInv, NEW c \in Clerks,
           \/ \E d \in Deals, in \in References : AttachLoads(c, d, in)
           \/ AttachWrites(c)
    PROVE  InvoicingLawful
<1>1. DealRows /\ clerk \in [Clerks -> ClerkRows] /\ ClerkFits(c)
  BY InvoicingParts
<1>2. UNCHANGED <<deal, price, snapshot, documents, approval, sweep, faults>>
  BY DEF AttachLoads, AttachWrites
<1>3. DocumentBooks' /\ DocumentsGrow
  BY <1>2, SameDocuments
<1>4. SweepRows'
  BY <1>2, <1>3, SameSweep DEF DocumentBooks
<1> DEFINE Fitting == /\ DealRows' /\ clerk' \in [Clerks -> ClerkRows]
                      /\ \A e \in Clerks : clerk'[e] = clerk[e] \/ ClerkFits(e)'
<1>5. ASSUME NEW d \in Deals, NEW in \in References, AttachLoads(c, d, in) PROVE Fitting
  <2> DEFINE to == [number |-> IF legal[d].number = "none" THEN in.number ELSE legal[d].number,
                    source |-> in.source, mandate |-> in.mandate \/ legal[d].mandate]
  <2>1. clerk' = [clerk EXCEPT ![c] = [of |-> d, to |-> to]] /\ Mandated(to) /\ legal' = legal
    BY <1>5 DEF AttachLoads
  <2>2. legal[d] \in References
    BY <1>1 DEF DealRows
  <2>3. to \in References
    BY <2>2 DEF References
  <2> HIDE DEF to
  <2>4. clerk' \in [Clerks -> ClerkRows] /\ clerk'[c] = [of |-> d, to |-> to]
    BY <1>1, <2>1, <2>3 DEF ClerkRows
  <2>5. ClerkFits(c)'
    BY <2>1, <2>4 DEF ClerkFits, Mandated
  <2>6. DealRows'
    BY <1>1, <1>2, <2>1 DEF DealRows, OnBehalfIsMandated
  <2> QED
    BY <1>1, <2>1, <2>4, <2>5, <2>6
<1>6. ASSUME AttachWrites(c) PROVE Fitting
  <2>1. /\ clerk[c].of \in Deals /\ clerk[c].to \in References /\ Mandated(clerk[c].to)
        /\ legal' = [legal EXCEPT ![clerk[c].of] = clerk[c].to] /\ clerk' = [clerk EXCEPT ![c] = NoClerk]
    BY <1>1, <1>6 DEF AttachWrites, ClerkFits, ClerkRows
  <2>2. NoClerk \in ClerkRows /\ Mandated(NoClerk.to)
    BY DEF NoClerk, NoReference, ClerkRows, References, Mandated
  <2>3. clerk' \in [Clerks -> ClerkRows] /\ clerk'[c] = NoClerk
    BY <1>1, <2>1, <2>2
  <2>4. ClerkFits(c)'
    BY <2>2, <2>3 DEF ClerkFits, Mandated
  <2>5. DealRows'
    BY <1>1, <1>2, <2>1 DEF DealRows, OnBehalfIsMandated, Mandated
  <2> QED
    BY <1>1, <2>1, <2>3, <2>4, <2>5
<1> QED
  BY <1>2, <1>3, <1>4, <1>5, <1>6, InvoicingParts DEF InvoicingLawful

\* The QC series is gap-free, the ledger has one entry per document and for its
\* amount, a sweep that ended has left nothing of what it found, and no
\* on-behalf reference is without its mandate: for any campaigns, approvals,
\* clerks and prices, through failed writes and requests cut off.
THEOREM DocumentsAgreeAlways == InvoicingSpec => []DocumentsAgree
<1>1. InvoicingInit => InvoicingInv
  <2> SUFFICES ASSUME InvoicingInit PROVE InvoicingInv
    OBVIOUS
  <2> USE InvoicingAssumption DEF InvoicingInit
  <2>1. NoDocument \in [num : Nat, price : 0..MaxPrice] /\ NoReference \in References /\ NoClerk \in ClerkRows
        /\ NoApproval \in ApprovalRows
    BY DEF NoDocument, NoReference, NoClerk, References, ClerkRows, NoApproval, ApprovalRows, InvoiceLegs
  <2>2. Issued = {} /\ Invoiced = {}
    BY DEF Issued, Invoiced
  <2>3. Cardinality({}) = 0
    BY FS_EmptySet
  <2>4. SeriesGapFree
    <3> DEFINE numbered == {k \in Issued : k[1] = "service"}
    <3>1. numbered = {} /\ {invoice[k].num : k \in numbered} = {} /\ 1..0 = {}
      BY <2>2
    <3> QED
      BY <2>3, <3>1 DEF SeriesGapFree
  <2>5. Cardinality(Deals) \in Nat
    BY FS_CardinalityType
  <2>6. DocumentBooks
    BY <2>1, <2>2, <2>3, <2>4, <2>5 DEF DocumentBooks, PostedAsIssued
  <2>7. DealRows
    BY <2>1 DEF DealRows, OnBehalfIsMandated, NoReference
  <2>8. SweepRows
    BY DEF SweepRows, RepairFits, SweptMeansPosted, NoSweep
  <2>9. \A a \in Approvals : ApprovalFits(a)
    BY DEF ApprovalFits, NoApproval
  <2>10. \A c \in Clerks : ClerkFits(c)
    BY DEF ClerkFits, NoClerk, NoReference, Mandated
  <2> QED
    BY <2>1, <2>6, <2>7, <2>8, <2>9, <2>10, InvoicingParts
<1>2. InvoicingInv /\ [InvoicingNext]_invoicingVars => InvoicingInv'
  <2> SUFFICES ASSUME InvoicingInv, [InvoicingNext]_invoicingVars PROVE InvoicingInv'
    OBVIOUS
  <2>1. CASE InvoicingNext
    <3>1. InvoicingLawful
      BY <2>1, DealsLawful, ApprovalLawful, IssueLawful, PostLawful, RepairLawful, AttachLawful DEF InvoicingNext
    <3> QED
      BY <3>1, LawfulKeepsInvoicing
  <2>2. CASE UNCHANGED invoicingVars
    <3>1. UNCHANGED <<deal, price, snapshot, documents, legal, approval, clerk, sweep, faults>>
      BY <2>2 DEF invoicingVars
    <3>2. DocumentBooks' /\ DocumentsGrow
      BY <3>1, SameDocuments
    <3>3. SweepRows'
      BY <3>1, <3>2, SameSweep DEF DocumentBooks
    <3>4. DealRows'
      BY <3>1, InvoicingParts DEF DealRows, OnBehalfIsMandated
    <3>5. InvoicingLawful
      BY <3>1, <3>2, <3>3, <3>4, InvoicingParts DEF InvoicingLawful
    <3> QED
      BY <3>5, LawfulKeepsInvoicing
  <2> QED
    BY <2>1, <2>2
<1>3. InvoicingInv => DocumentsAgree
  BY DEF InvoicingInv
<1> QED
  BY <1>1, <1>2, <1>3, PTL DEF InvoicingSpec
=============================================================================
