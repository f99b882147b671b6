# Qift: TLA+ models, model checks and proofs

This directory is the verification project of the Qift platform backend
(NestJS over Prisma/PostgreSQL). It models how the backend moves money (what is
collected for an invoice, refunded, remitted to the merchant, who may authorise
it, what survives a crash) and what surrounds it: gifts and orders, corporate
campaigns and their documents, the treasury's books, notifications, accounts,
what people may read of each other, stores, and the decisions of operators.

Contents: [1 inventory](#1-inventory-of-the-system) ·
[2 modules and the code](#2-modules-and-the-code) ·
[3 runs](#3-what-the-runs-check) · [4 fairness](#4-fairness) ·
[5 proofs](#5-what-is-proved) ·
[6 disagreements](#6-where-the-code-and-its-documentation-disagree) ·
[7 not modelled](#7-what-is-not-modelled) · [8 plan](#8-plan)

## 1. Inventory of the system

| part | state it keeps | operations | what is hard about it | what makes it correct |
|---|---|---|---|---|
| Settlement engine (`settlement-engine.service.ts`) | items, batches, receivables, remittances | assemble, mark failed, retry, hold, supersede, link successor, settle, settle at zero net | requests read rows and write later; items and receivables are shared by batches, refunds and eligibility | an item is paid once, for what was left of it; debts are recovered once; a batch closes one way |
| Eligibility (`settlement-eligibility.service.ts`) | item state, payout identity | evaluate, verify payout identity | guarded write racing refunds | only pending, unbound items become eligible |
| Execution (`settlement-execution.service.ts`, `-binding.ts`, `-approval-policy.ts`) | previews, approvals, statements | preview, approve, execute, close at zero net | four-eyes rules over votes that lapse; several commits after the money has moved, each healed by calling again | duties separate, the level covers the day's aggregate; a closed batch gets its whole evidence chain |
| Receipts (`settlement-receipts.service.ts`) | receipts, invoice status, coverage artifacts | record receipt, derive coverage | coverage runs after the receipt's commit; refunds of the fee change what is owed | nothing is collected twice, only money pays, revenue is what the credits left |
| Refunds (`settlement-refunds.service.ts`) | refunds, refund requests, credit notes | record, record fee refund, request, approve, execute, cancel | maker-checker with a latch; evidence reuse; a crash inside execute; rounding of a split refund | no one refunds alone, a transfer satisfies one request, VAT reversed stays within the VAT charged |
| Ledger (`financial-ledger.service.ts`) and audit | append-only postings, audit rows | record (idempotent by key), audit | at-least-once callers | one row per key |
| Treasury (`treasury-reconciliation.service.ts`, `-internal-transfer.service.ts`) | attestations, reconciliations, internal transfers | attest, reconcile, investigate, resolve; record a sweep | evidence arrives in any order of its dates; reads in several statements; two unique indexes guard the sweep | books that are right agree at every cut date; one completed sweep per settlement |
| Corporate campaigns (`corporate/campaign`, `dispatch`, `dispatch-worker`, `claim`, `claim-mint`, `claim-export`, `roster`, `roster-purge`) | campaigns, rosters, claims, dispatch jobs | edit, submit, approve, cancel, dispatch; sweep, retry; mint, verify, claim, decline, expire; export; purge | status writes by id after a read; workers that overlap and die; token rotation racing a claim | nothing is queued unapproved; an exported link opens its claim; a claim ends once, by the recipient; a wave comes to its end |
| Corporate invoicing (`invoice.service.ts`, `merchant-invoice.service.ts`) | number series, two documents per campaign, postings, official numbers | issue, post, repair, attach a number | a number drawn and its row lost; postings behind the commit | a series without gaps; the ledger says what the document says |
| Orders and payments (`orders`, `payments`, `order-ledger`, `ledger-reconciliation`) | orders, payments, ledger legs | check out, confirm, repair | lock, charge, gift, payment and legs are separate commits | charged once; the status tells the money |
| Gifts (`gifts`, `gifts-auto-default`, `gift-status`, `store`, `addresses`) | gifts, shipments, addresses, attempts | create, confirm, cancel, sweep, prepare, ship, deliver; the owner's address edits | writes by id after a read; idempotency keys; a silent receiver | phases in order, surprises masked where the mask is applied, an accepted gift not cancelled but for a stale confirmation, a silent receiver served |
| Wishlist and wall (`wishes`, `gift-posts`) | wishes, posts, appreciations, three counters | heart, unheart, publish, withdraw, appreciate; hooks of gifts | counters beside their rows; hooks that fail silently | counters equal rows; a cancelled gift is not shown, unless its publication was under way |
| Notifications (`occasion-reminder-worker`, `digest-worker`, `notification-orchestrator`, `-budget`) | firings, notifications, preferences | scan, claim, decide, write, mark; digest; clean up | runs that overlap and die | told once, within the caps, as the audit says |
| Codes and accounts (`otp`, `auth`, `beta-access`, contacts of `users`, users of `admin`) | codes, accounts, beta slots | send, verify, register, log in, reset, change a contact, disable, restore, purge | attempts read before they are incremented; best-effort deletes; guards read before the write | limits hold; a verified phone was proved |
| Social graph (`follows`, `blocks`, `users`, `occasions`, `occasion-privacy`, public reads of `gift-posts`) | follows, blocks, privacy flags | follow, block, change privacy; lists, profile, search, occasions, wall | one answer from several queries | a block that stands throughout a read hides wherever the read asks about blocks; so does a private profile |
| Operators' decisions (`vat-facts`, `ops-roles`, `store-business`, `org`) | VAT facts and proposals, roles, business profiles, organisations, seats | propose, approve, reject, grant, revoke, apply, review, seat | plain reads before plain writes | a proposal of tax facts takes two cleared people; the owner's seat stays |
| Stores and products (`stores`, `products`, `store-integrations`, store review of `admin`) | store, product, integration | apply, patch, submit, decide, edit, connect, webhook, order | the merchant and operators overwrite each other | a hidden store does not reappear without their word, no product of it is sold by its id |
| Everything else | see section 7 | | | |

How the parts interact. A covered invoice creates a settlement item
(receipts → engine). Eligibility releases it; assembly freezes eligible items
and open receivables into a batch; execution authorises the close, calls the
engine to close it and completes the evidence chain. Refunds reach into both
sides: before the settlement they shrink an unbound item, after it they accrue
a receivable that later batches recover; refunds of the platform fee change
what an invoice still owes. Nothing calls back: the parts share database rows,
and every request of every part may run between two statements of another.

That is the common hazard. A request reads rows with plain statements, decides,
and writes in a transaction whose guarded updates (`updateMany` with the
expected state, unique keys, serializable isolation) are the only protection.
The models therefore split each request at exactly these points; the parts
outside settlement mostly write by id with no guard at all, and the question is
what survives that. `hazards` in
`PROJECT.json` lists where each one bites.

## 2. Modules and the code

| module | models | composition |
|---|---|---|
| `SettlementStates` | the transition tables of items, batches and receivables | extended by the engine |
| `SettlementEngine` | every operation of the engine, the eligibility write, the goods refund as the engine's tables see it | instantiates `SettlementContract` |
| `SettlementContract` | what the engine promises: a batch takes free items and pays or releases all of them, once | abstract |
| `SettlementAuthorization` | preview, approval and execution up to the close; uses the engine through its contract (a batch is ready until it is settled or superseded) | |
| `SettlementCompletion` | the chain after the close: posting, statement, attachment to credit notes, audit | |
| `InvoiceCoverage` | recording receipts and fee refunds, the derivation of coverage and its artifacts | extends `VatArithmetic` |
| `VatArithmetic` | integer VAT of a charge (on top, inside) and of a partial refund | |
| `RefundSeries` | a series of partial refunds of one invoice | extends `VatArithmetic` |
| `RefundRequests` | the refund maker-checker: request, approve, cancel, execute with its latch | |
| `Treasury` | ledger rows of the safeguarding account, attestations, reconciliations, internal transfers | |
| `CorporateDispatch` | dispatch jobs, sweeps, claims and their tokens, exports, roster purge | |
| `CorporateCampaign` | the campaign's lifecycle and roster | extends `CorporateDispatch` |
| `CorporateInvoicing` | the two documents of a campaign, their postings, repair, official numbers | |
| `AddressBook` | a user's addresses and the attempts that wait for one | |
| `GiftFulfilment` | a gift from creation to delivery, with sweep and store, and what views, notifications and unmasked paths tell of it | extends `AddressBook` |
| `OrderPayment` | checkout, confirmation, ledger legs, repair | |
| `GiftWall` | hearts, posts, appreciations and what gifts do to them | |
| `WallFeed` | how the rows of a wall collapse into entries | |
| `Notifications` | reminders, digests, the orchestrator, the clean-up | |
| `OneTimeCodes` | sending and verifying codes | |
| `Accounts` | registration, login, contacts, passwords, user administration | extends `OneTimeCodes` |
| `SocialGraph` | follows, blocks, privacy and the reads of another person, those that ask about no block included | |
| `Administration` | VAT facts, ops roles, business profiles, organisations and seats | |
| `Storefront` | a store, its product, its integration, a purchase that names a product, a store, both or none | |
| `MC…` | instances for TLC: constants, symmetry, and, where several components share a run, which of them a behaviour works on | extend their modules |
| `SumTheorems` | what a sum over a finite set computes, how the size of a set moves by an element, and that positions have a last one | extended by the proofs that add up or count rows |
| `SettlementEngineProofs`, `SettlementAuthorizationProofs`, `SettlementCompletionProofs` | theorems and proofs of the module each is named after | extend it and `TLAPS` |
| `CorporateProofs` | theorems and proofs of campaigns, claims and dispatch, of invoicing, and of the treasury | extends `CorporateCampaign`, `CorporateInvoicing`, `Treasury` |
| `CoverageProofs` | theorems and proofs of coverage and of the refund series, over facts about the VAT arithmetic | extends `InvoiceCoverage`, `RefundSeries` |
| `GiftProofs` | theorems and proofs of orders, of gifts over the address book, of the wall and its entries, and of notifications | extends `OrderPayment`, `GiftFulfilment`, `GiftWall`, `WallFeed`, `Notifications` |
| `PeopleProofs` | theorems and proofs of the refund maker-checker, codes and accounts, reads of other people, staff decisions, and the storefront | extends `RefundRequests`, `Accounts`, `SocialGraph`, `Administration`, `Storefront` |

Conventions shared by the modules.

* **A request is an actor** with a program counter and the values it has read
  (`pc`/`target`/`seen`/`plan` in the engine, a record elsewhere). An action
  ends where the code awaits something another request can affect: a plain
  read, a transaction, or an insert of its own. A transaction is one action,
  with its guards, its writes and the ledger postings and guaranteed audits
  that are written inside it.
* **Rows** are functions or sets of records holding the columns the control
  depends on. Money is a small integer of minor units of one currency; hashes,
  documents, names and references are model values or left out.
* **Keyed writes** (ledger idempotency keys, `auditKey`) are sets: writing a key
  twice changes nothing, which is what the unique index and the `P2002` lane of
  the code do.
* **A crash** ends a request between two commits and leaves the rows. In the
  engine and the authorisation model a request may give up at any point, which
  covers refusals, rolled-back transactions and crashes alike, without a bound.
* **Faulty variants** (`…Always`, `…BeforeCredits`, …) stand in front of the
  definition they vary. No specification uses them: they exist to show that
  the properties notice such a change of the code.

What each model keeps and leaves out:

* *Engine.* One store and currency: requests for different stores share no row.
  `planRecovery` is stated by what its greedy walk yields (`IsRecoveryPlan`)
  rather than as a loop. The seven eligibility conditions read rows of other
  parts, so whether they hold is a free choice; the guarded write is exact. The
  goods refund is `RecordRefund` before the settlement and its clawback after.
* *Authorisation.* Batches are frozen, so a caller who quotes a wrong hash is
  refused and changes nothing. Time is a counter; a request keeps the instant it
  read, as the code does with the injected clock. The bank value date is
  chosen freely and refused outside its window.
* *Completion.* The gate in front of the close is a free choice. Notes start as
  version 1, as the refund that accrues the receivable creates them.
* *Coverage.* One invoice of either kind. A serializable transaction is one
  step, except for the invoice status: the flip to paid is a plain update that
  such a transaction does not serialise with, so the transaction decides on the
  status it read when it began.
* *Maker-checker.* The posting (`recordRefund`, `recordFeeRefund`) is one step
  keyed by its evidence: the first call with a reference posts, a later one with
  the same facts replays it, any other is refused.
* *Treasury.* An event is named by the amount it moves, so sums tell events
  apart. The snapshot is its content; its bytes and signature are left out.
* *Campaigns and claims.* A token is the number of its minting; only the last
  one opens the claim. Sessions are "a code was verified for this claim". The
  roster is a set of contacts; CSV rows and message texts are left out. The only
  registered provider delivers nothing (`dispatch-provider.ts:49`), so `Deliver`
  hands out no link: `dispatched` means that the claim is ready, and `links` holds
  what exports have returned. The refusals the provider's interface allows are
  kept, as the sweep handles them.
* *Invoicing.* An amount is the price it was computed from. The two issuers are
  one set of actions, because they differ only in the series.
* *Gifts and orders.* One receiver, one store. Time is "created more than 24
  hours ago". `seen` records what the receiver has been told: `name` (product or
  store by name, through a notification or a masked view), `trace` (what the mask
  leaves: ids, category, city, a wish marked as bought), `message`, and `openName`
  (the names, on a path without a mask: the list of received gifts, a post of the
  gift). The gateway is external: it charges or refuses.
* *Wall.* One product, one receiver. A hook of a gift that fails is swallowed
  and counted in `slipped`.
* *Notifications.* Days are numbers, a year is `Period` days; budgets are caps
  per day and category. Hours are not modelled, so the clean-up takes any of the
  open claims for stale: the code takes those older than 1 to 720 hours. Its dry
  run writes nothing. Wording, locales and push delivery are left out.
* *Codes and accounts.* A row is fresh, expired or out of the window. Tokens and
  password hashes are flags. First-wave phone numbers that match nothing until a
  login repairs them are kept, because the repair is a write by id.
* *Social graph.* Everybody has something to show, and an answer is whose data
  it names. One read in progress stands for all, as reads change nothing. Two
  kinds of read ask about no block: `check` is `GET /users/check`, whose answer
  (name, picture, visibility, delivery flags) is one fact; `party` is a post's page
  opened by a party of its gift. What a write answers its own caller is left out.
* *Decisions and stores.* A proposal, a profile, an organisation and a store are
  one row each; field contents are left out. An order's body names the product or
  not, and this store, another one or none; the store it is linked to is the
  body's before the product's (`orders.service.ts:250`).

## 3. What the runs check

Each component has one invariant that is the conjunction of its type invariant
and its named parts; each part is stated and commented on its own in the module,
and properties of steps and liveness stand alone. `PROJECT.json` gives every
property at least one mutant, and most parts one of their own: a plausible
change of a modelled definition under which the same run finds it violated.

| run | instance | what it shows |
|---|---|---|
| `engine_races` | 1 item of up to 3 units, 2 requests in flight, 2 batches, 1 receivable | The item is paid at most once (`PaidOnce`), for what was collected less what was refunded before the close (`PaidWhatRemained`); no bound item is stranded (`BoundItemsAccountedFor`); a live batch holds all it froze (`LiveBatchIsWhole`); no batch is both released and paid, and clawbacks match the payment (`ClosesConsistently`); items move along their table and the engine implements `SettlementContract` (`StepsAreLawful`). |
| `engine_recovery` | 3 items of 1 and 2 units, 1 request at a time, 3 batches, 2 receivables | Debts recovered in parts over several batches: recovered plus staged never exceeds the debt and equals what the batches took; whatever is staged is staged by a live batch that allocates it (`DebtsConserved`). |
| `auth_votes` | 1 batch above T2, 3 operators, 2 requests, votes that lapse after 1 tick | `ClosesAreAuthorised`: duties separate, two people behind a large close (also when one person's double submit left two votes), closed once. |
| `auth_day` | 2 batches that exceed T2 only together, one with zero net, value dates up to 2 ticks back (a request in the second tick of a day can then be valued on the day before), days of 2 ticks | `AggregateGoverns`: whatever was closed on the recording day before a request began counts against its level. |
| `progress` | a remitted and a zero-net batch recovering the same note, 2 requests, 2 crashes, 2 pieces of evidence; or 2 gifts and 2 addresses; or a campaign with 1 contact, 2 sweeps and 2 attempts | the chain behind a close is earned (`ChainIsEarned`), attached once (`AttachedOnce`) and completed (`EventuallyCompleted`); a silent receiver is served (`SilentReceiverServed`); a wave ends (`WaveEnds`). |
| `coverage` | an invoice of 4 (5 with VAT) of either kind, 2 references, amounts 2 and 3, 2 requests, 1 crash; or every charge up to 60 units at 15%, inclusive or not, in up to 6 refunds of any size | `CoverageIsEarned`: nothing is collected twice, only money pays, revenue is what the credits left. `ReversalIsSound`: the VAT reversed never exceeds the VAT charged, drifts by at most half a unit per part below its share, and is exact in at most four parts. |
| `coverage_heals` | the invoice with 1 request at a time and 2 crashes | `CoverageCompletes`. |
| `refund_requests` | 2 requests of the same amount, 1 bank transfer, 2 operators, 2 calls in flight, 2 crashes | `DutiesSeparated`, `EvidenceSpentOnce`, `EndsStay`, `LatchReleased`. |
| `refund_twice` | 1 request, 2 transfers | refutes `ApprovalPaysOnce` (section 6). |
| `gifts` | 2 addresses, 2 rows and 2 bodies for one key, 2 callers and the sweep; 1 order of 3 legs, 2 confirmations, 2 crashes; 2 fans, 2 presents, 6 taps; 4 posts; 1 reminder, 2 runs, 3 notifications, a cap of 1, clean-ups until one has released a claim | `GiftsAreOrderly`, `SurpriseKept`, `AcceptedNotCancelled`, `OrderAndMoneyAgree`, `WallAgrees`, `WallCollapsesByProduct`, `ToldAsDecided`. |
| `corporate` | 1 contact, 2 sweeps, 2 recipients' requests, 2 attempts, 3 tokens, 2 requests of the organisation; 2 deals, 2 approvals, 2 clerks, a price that moves; 2 events on 2 days, 2 attestations, 2 runs, 2 operators and the one who attests | `CampaignAgrees`, `DecidedForGood`, `DocumentsAgree`, `BooksAgree`, `ResolvedOnce`. |
| `people` | 2 codes, 2 requests, 3 guesses a target; 4 accounts and 1 beta slot; 3 people and 3 edits around a read; 3 members of staff, 2 desks, 7 decisions; 1 store, 6 requests | `CodesHold`, `AccountsHold`, `ReadsKeepPrivacy`, `DecisionsHold`, `OffersHold`. |

**Focus.** `progress`, `coverage`, `gifts`, `corporate` and `people` instantiate
components that share no row. A behaviour of such a run picks one of them in its
initial state (`focus`) and works on it alone; the product of independent tables
would only multiply states. Inside a component a focus may also fix which of its
operations overlap, where the rest of the component cannot matter: the loss of
codes is one matter and the race of two registrations another. What a focus
leaves out is written in the `MC` module beside it. The liveness run is safe from
this: none of the fair actions of the other components is enabled in the
initial state they stay in.

Why the bounds are enough. Two requests in flight are what a race takes: every
guard of the code compares one row with what one request has read. One item
suffices for `PaidOnce`, because batches interact through items only and items
through nothing; the theorems of section 5 remove the bound. Recovery needs an
instance of its own: a debt recovered in parts takes a settled and refunded
item, two more items and three batches; with one request at a time the stale
allocation still arises, because a batch is frozen long before it closes. The
failure lane is left out there, as it writes neither items nor receivables.
Three operators are what a close above T2 takes (proposer, two approvers, one of
whom cannot execute — the proposer may). Amounts 2 and 3 make 5, so the invoice
is covered exactly, partially and not at all, and one refund overlaps either
receipt. Two operators suffice for the maker-checker, because the requester may
execute what another has approved. Charges up to 60 pass through every
remainder class of the rounding at 15% that a refund of a few units can meet;
beyond them only the relative error shrinks. Outside settlement a row interacts
with at most one other of its kind (a second default address, a second gift of
one key, a second number of the series), so two of each are taken, and one where
rows do not interact at all (contacts of a roster, orders). Three people are a
reader, the one he reads about and a third one the list names. The address book
of `gifts` is edited by one request of its owner at a time; `OneDefaultKept`
claims nothing about overlapping ones (section 6).

Symmetry is used in the runs without liveness where every constant it permutes is
interchangeable: the configurations reuse the same two names for the callers of
every component of a run, so that one permutation applies to all of them.
`CHECK_DEADLOCK FALSE` everywhere: the system may come to rest, when every bound
is used up and nothing is left to do.

## 4. Fairness

The engine and the authorisation model assume none: their properties are safety
properties. Elsewhere:

* a request that does not die runs on (weak fairness of its steps): the event
  loop continues every request whose statement has returned;
* `progress`, the chain: an operator who sees a settled batch without its completion
  audit calls again with the bank's evidence (strong fairness, for the actor it
  needs is not always free). The code documents calling again as the
  heal (`settlement-execution.service.ts:754`);
* `coverage_heals`: recorded receipts and refunds are submitted again with
  their evidence, and a serializable transaction is not aborted by conflicts for
  ever (strong fairness per reference). The replay lane is the documented heal;
  it is open only while the value date is inside its window, so the property
  holds for retries within it;
* `progress`, the gift: the sweep is started every ten minutes and visits what it
  finds (weak fairness of a visit that goes on and of its write). Nothing is
  assumed of sender, receiver or store;
* `progress`, the wave: each sweep claims, mints and delivers while it finds work
  (weak fairness), and the completion of finished campaigns runs at its end. No
  sweep dies: a job behind a dead one stays `processing`, as no code reclaims it;
* `refund_requests`: whoever holds a latch submits the execution again; only he
  may (`executeRefund` refuses anyone else). If he never does, the request
  stays latched: nothing in the code releases it.

The number of crashes is bounded, so no process dies for ever.

## 5. What is proved

Every theorem below holds for any value of the constants that satisfies the
`ASSUME` of its module: any number of requests in flight, rows, people, amounts,
days. The assumptions say that bounds are natural numbers (positive where a
bound of 0 would leave no row), and that a value standing for "nothing" ("none",
nobody, no evidence, no target) is none of the real ones. Where a proof counts,
what it counts is finite, as the rows of a table and the requests in flight are
(deals; fans, taps and presents; the notification runs; the requests about codes,
of which there is at least one). TLC evaluates the assumptions in every run.

All safety properties of the passing runs are proved, invariants and action
properties alike. Each theorem is about the specification of its module alone:
that the runs let a behaviour work on one component at a time loses nothing, as
the components of a run share no row. What a theorem leaves open is what section 6
says of the same rows.

The method is the same everywhere. A property is seldom inductive, because a
request that is about to write relies on something it has read. The last section
of each module states the inductive invariant, as a conjunction of named parts:
what each request in flight may still rely on. TLC has checked each of them on
the instance of the module's run before it was proved. A proof has one lemma per
action or per group of actions with the same effect.

**Settlement engine** (`SettlementEngineProofs`): `TypeCorrect`, `NoDoublePay`
(`PaidOnce`), `ItemsAccountedFor` (`BoundItemsAccountedFor`), `PaysWhatRemained`
(`PaidWhatRemained`), `LiveBatchesAreWhole` (`LiveBatchIsWhole`),
`BatchesCloseConsistently` (`ClosesConsistently`), `DebtsAreConserved`
(`DebtsConserved`) and `EngineStepsAreLawful` (`StepsAreLawful`).

`EngineInv` adds what the rows and the requests in flight agree on: a request
works on an existing batch (`RequestsHoldRows`); the members a supersession has
read include every item still bound when it commits, because nothing joins a
batch after its assembly (`SupersedeSeesMembers`); allocations fit their
receivables (`AllocationsFit`); an unused number carries no close and no marker
(`UnusedIsUnmarked`); a closed batch keeps its items (`ClosedKeepsItems`); and
amounts add up (`AmountsAddUp`). The heart of the argument: `item.batch` names
the one batch that may pay an item. A close turns over exactly the items bound to
its batch and checks that they are all it froze; a supersession unbinds them and
leaves a marker that no close passes. Two closed batches sharing an item would
both be its `item.batch`. The status column takes no part in it, which is why the
theorems survive the stale status writes of section 6.

`BooksInv` is the invariant of the money: no batch is empty (`NoEmptyBatch`), a
remittance is the record of a close (`RemittancesAreCloses`), only money that has
left is clawed back (`UnsettledIsUnclawed`), a recovery posting belongs to a
closed batch (`RecoveriesAreOfCloses`), and a receivable shows the sum of its
postings (`RecoveredIsPosted`). A close adds one posting for each of its lines;
that the sum grows by exactly that line is `SumAdd` of `SumTheorems`, and that
the line fits the balance is `StagedByLiveBatch`, a part of `DebtsConserved`.

`EngineStepsAreLawful` proves the refinement: under the mapping of the module the
initial states are initial states of `SettlementContract`, and each step is a
start, a payment, a release or a stutter of it. `NoEmptyBatch` is what tells a
closed batch from one that has not started.

**Authorisation** (`SettlementAuthorizationProofs`): `ClosesAuthorised`
(`ClosesAreAuthorised`), `AggregatesGovern` (`AggregateGoverns`), from
`AuthorizationInv`. What the gate and the level have granted a request
(`GatedRequestsAreBound`, `LevelledRequestsAreGranted`) stays granted until it
closes: a vote, once read as unlapsed at the beginning of the request, is judged
by that instant, and what was closed before the request began is a set later
closes do not enter.

**Completion** (`SettlementCompletionProofs`): `ChainsAreEarned`
(`ChainIsEarned`), `NotesAttachedOnce` (`AttachedOnce`), from `CompletionInv`.
`RequestsStandBehind` says for each place in the chain what exists already, and
that the lines before a request's own are attached, whoever attached them;
`UnattachedIsFirst` is why the conditional write of the head is write-once. The
assumption that "none" is not a batch is what lets a free note be told from an
attached one.

**Coverage** (`CoverageProofs`): `CoverageEarned` (`CoverageIsEarned`), from
`CoverageInv`. A derivation acts on receipts, credits and a status that it read
some statements ago; receipts and credits only grow and paid stays paid, so what
it read bounds what is there (`StillHolds`, `Grows`). The delicate step is a credit
decided on a stale "issued": once the receipts have reached what is owed nothing
is left unpaid to credit, so the cap refuses it and posted revenue stays right.

**Refund series** (`CoverageProofs`): `SeriesHolds` at any VAT rate (the parts
never reverse more than the frozen VAT nor more than was refunded, and lag their
exact share by at most half a minor unit per part), and `ReversalsSound`
(`ReversalIsSound`) for a rate of at most one third, from which the VAT is less
than half of the total (`LowRateIsLow`). With that, three rounded parts cannot lag
so far that the fourth, capped by its own amount, fails to return the rest
(`LastPartAbsorbs`). One third is not sharp, but some such bound is needed: at a
rate of 120% TLC finds a last part too small to carry what is left. The rate in
force is 15%.

**Refund requests** (`PeopleProofs`): `RequestTypeCorrect` (`TypeOK`),
`RefundDutiesSeparated`, `RefundEvidenceSpentOnce` and the action property
`RefundEndsStay`. `RequestInv` adds `CallsHoldRows`: what a call learned when it
loaded the row and relies on when it writes (the approver it compared itself with
cannot change any more, an owner check follows a posting of the right amount).

**Orders** (`GiftProofs`): `OrdersAndMoneyAgree` (`OrderAndMoneyAgree`), from
`OrderInv`: one request at most stands behind the lock of an order
(`OneBehindTheLock`), where it stands tells what has happened to the order
(`RequestsTellTheOrder`), and nothing happens before the lock
(`UnlockedIsUncharged`).

**Gifts** (`GiftProofs`): `GiftsOrderly` (`GiftsAreOrderly`), `SurprisesKept`
(`SurpriseKept`), `AcceptedGiftsStay` (`AcceptedNotCancelled`), from `GiftInv`
over `BookInv`. The status of a gift may go back, because most writes are by id;
its stamps never do. So a request may rely on the stamps that the status it read
implied (`ActFits`, `Behind`), and that is all the phases and the surprise need.
`SurpriseKept` is about the mask and its timing: no message by any path before the
delivery, no name by a notification or a masked view. `AcceptedNotCancelled` asks
whether the gift *was ever* accepted (`"preparing" \in stamps`) and says that one
thing alone brings it within reach of a cancellation, a confirmation checked before
the acceptance and written after it. The stronger statements fail
(`SurpriseKeptOnEveryPath`, `AcceptedForGood`).
For the address book: while the owner's requests have not overlapped, the one in
flight knows whether its row is the default (`OwnerCallFits`).

**Campaigns, claims, dispatch** (`CorporateProofs`): `CampaignsAgree`
(`CampaignAgrees`), `DecisionsAreFinal` (`DecidedForGood`), from `CampaignInv` over
`DispatchInv`. A job that a sweep holds is held by no other (`HeldByOne`) and stays
`processing`; an export works on dispatched jobs only, and no sweep takes one of
those, so once a link is out only another export mints over it: the token of the
last minting is out, or an export has it in hand, or failed with it (`ClaimFits`).

**Treasury** (`CorporateProofs`): `TreasuryBooksAgree` (`BooksAgree`),
`MismatchesResolvedOnce` (`ResolvedOnce`), of `TreasurySpec`, the treasury alone,
from `TreasuryInv`. Whatever a run has read, it has read receipts together with
their payables (`Paired`), and rows only join (`TaskFits`). That the two sides of
a cut then differ by zero is arithmetic over sets of postings: the cash rows and
the payable rows are taken apart by kind (`SumDisjoint`) and matched one to one by
their event (`SumReindex`).

**Invoicing** (`CorporateProofs`): `DocumentsAgreeAlways` (`DocumentsAgree`), from
`InvoicingInv`. The number of a document is taken from the counter and written in
one transaction, so the counter is the number of campaigns with a service invoice
(`Cardinality(Invoiced) = series`): the next number is free, and no number
below it is missing. That the ledger agrees rests on what an approval and the
repair carry: an approval about to post stands behind an issued document, and the
sweep has posted all it no longer lists as missing (`ApprovalFits`, `RepairFits`).
The mandate of an on-behalf reference is in the request that writes it
(`ClerkFits`).

**Wall** (`GiftProofs`): `WallAgreesAlways` (`WallAgrees`), from `WallInv`. The
property speaks of moments when nobody is between a row and its counter; the
invariant says at every moment how far the two are apart: by the requests that
have written the row and not yet counted (`HeartsBalance`, `GiftsBalance`). A
gift hook that failed stays in the balance as `slipped`. Hearts balance only as
long as no two taps of one person have overlapped (`crossed`, section 6); until
then each fan has one tap at a time, and what it found is still so
(`HeartsAlone`). `PostsSwept` says that a publish of a cancelled gift is under
way only if the cancel came after its read.

**Entries of a wall** (`GiftProofs`): `WallAlwaysCollapses`
(`WallCollapsesByProduct`), from `FeedInvariant`, which says that the rows are posts
with keys of their own. The walk is `FoldLeft` of `AddToGroups`. That the fold is
well defined and takes the rows in their order is proved first (`WalksExist`,
`WalksAgree`, `WalkInOrder`, `EntriesGrow`); then, by minimal counterexample over
the number of rows walked, that the entries so far fit the rows so far
(`EntriesFit`): an entry names the first post of its bucket and counts the posts
of the bucket seen until then, entries stand in the order of their posts, no
bucket is without one, and the counts add up to the rows walked.

**Notifications** (`GiftProofs`): `ToldAsDecidedAlways` (`ToldAsDecided`), from
`NotificationsInv`. A firing is claimed by inserting its key, and a claim can be
released: the rows of a firing and the runs that still owe it are no more than
the claims it has had (`OwedOrTold`), so one row per occurrence and release.
Alerts of today with those already decided stay within the cap and the other runs
(`CapsAhead`): each run read the count before the others wrote. `MarkedAsTold` is
why the audit is right, `StampsTell` why a digest stamps a row once.

**Codes and accounts** (`PeopleProofs`): `CodesHoldAlways` (`CodesHold`),
`AccountsHoldAlways` (`AccountsHold`), from `AccountsInv`. The attempts of a
contact are summed before a guess and incremented behind it, so the limit is kept
by the sum together with the requests that may still guess (`GuessesAhead`): at
most the cap and the other requests in flight. A code is used again only by a
request that had its row before it was deleted, or when the delete was lost
(`UsesAhead`). A registration verifies its code without consuming it and deletes
it behind the insert; that it carries this intention from its start (`AskFits`)
is part of the invariant, which does not hold inductively without it.
`VerifiedWasProven` and `BetaSlotsHold` are inductive given what the requests carry
and that redemptions are accounts that exist (`PeopleFit`). Of the accounts whose
first-wave number login repairs, `VerifiedWasProven` says nothing; of addresses, only
that the account has proved one.

**Reads of others** (`PeopleProofs`): `ReadsKeepPrivacyAlways`
(`ReadsKeepPrivacy`), from `PrivacyInv`. A read is a series of queries with edits
between them, so it can answer only for what stood throughout. `during` collects
that, and bounds what the graph says now (`HistoryBounds`): whoever is recorded as
barred is still blocked. `ReadFits` says for each place of each read which of
these facts its earlier queries have established. The two kinds of read that ask
about no block are excepted from its block clause by name (`UncheckedKinds`).

**Staff decisions** (`PeopleProofs`): `DecisionsHoldAlways` (`DecisionsHold`), from
`DecisionsInv`. Between read and write a role can be taken away, so what a
request may rely on is not that the person may handle VAT but that he was
cleared when he was checked (`DeskFits` and the set `cleared`); an approval also
carries that it is not the proposer's. The theorem is about the proposal last
applied, not about what the row holds after an owner's `PATCH`. No request about a seat is about the
founder's.

**Storefront** (`PeopleProofs`): `OffersHoldAlways` (`OffersHold`), from
`OffersInv`: a purchase that names its product and is past its check has met the
offer, and a request brings from its read a status that a store can have.

`SumTheorems` proves what a sum over a finite set computes: it is a natural
number, does not depend on the order of the elements, grows by what is added and
with the set, splits over disjoint sets and survives renaming. The induction
theorems of the library cannot be instantiated here, as their predicate is an
operator; the module argues by minimal counterexample instead, from the
well-foundedness of strict inclusion on the subsets of a finite set. The folds of
the wall, `OldestAndNewest` of `GiftProofs` and `LastExists` use the order of the
natural numbers in the same way.

Model-checked only:

* liveness under fairness (`EventuallyCompleted`, `CoverageCompletes`,
  `LatchReleased`, `SilentReceiverServed`, `WaveEnds`), which is out of the prover's
  reach, as are fairness and `ENABLED`;
* that the properties of section 6 do not hold, and `ApprovalPaysOnce`, which
  `refund_twice` refutes: a trace is the proof.

## 6. Where the code and its documentation disagree

One disagreement is kept as a run that must find a violation (`findings` in
`PROJECT.json` quotes the lines): `refund_twice` — after a crash behind the
posting the executor resumes with another bank reference, and a second refund is
posted for one approval.

The properties below are stated in the modules, marked as not holding, and
belong to no run. Each can be checked by putting it into the named
configuration; TLC then returns the trace described.

Settlement:

* `NoFragmentation` (`AuthDay.cfg` with two actors, `MaxAge = 0`, `MaxTime = 1`,
  `MaxVotes = 1`): two executions for one store and day each read the day
  aggregate before the other closes; both close at the lower level although
  `settlement-approval-policy.ts:18` says "splitting to duck a band applies the
  aggregate's band to every fragment". `AggregateGoverns` is what does hold.
* `CancelledMovesNoMoney` (`RefundTwice.cfg`): all executions of one operator
  share one latch. When one of them is refused it releases the row
  (`settlement-refunds.service.ts:1566`) although another is about to post or has
  died behind its posting (the trace of this instance), and a cancel in
  between ends as cancelled with the refund posted, against
  `settlement-refund-workflow.spec.ts:547` ("CANCEL RACE is impossible").

* `TerminalBatchesStay` (`EngineRaces.cfg`): `markFailed`, `retry` and
  `holdBatch` (`settlement-engine.service.ts:338`, `363`, `388`) assert the
  transition on the status they loaded and update the row by id, so a close or
  supersession in between is overwritten, against `settlement-states.ts:42`
  ("settled and superseded are TERMINAL"). No money is paid twice (`PaidOnce` is
  proved), but the completion lane no longer finds the batch settled. The three
  operations have no HTTP route at this commit.
* `ExecutorHasNoVote` (`AuthDay.cfg` with two actors): the votes are read once
  (`settlement-execution.service.ts:351`), so an operator whose execution has
  passed the gate can still vote for the batch before it closes, against
  `settlement-execution-binding.ts:177` ("the executor appears among NO
  approvers"). His vote is not counted (`DutiesSeparated` holds).
* `HeadsHaveVersions` (`Progress.cfg`): the head of a credit note and its
  version row are separate commits (`settlement-execution.service.ts:1015`,
  `1024`), and a re-run passes over a note already attached (`978`), so after a
  crash between them the row never comes, against `prisma/schema.prisma:3067`
  ("Every version's bytes live append-only in CreditNoteVersion").
* `FullReversalExact` (`Coverage.cfg`): a total of 13 with a VAT of 2
  refunded as 3, 3, 3, 3 and 1 returns a VAT of 1, because the completing refund
  takes at most its own amount (`settlement-refunds.service.ts:862`), against
  `860` ("full reversal must reverse the frozen VAT exactly").
* `ExecutedAsApproved` (`Coverage.cfg`): the snapshot that is approved
  computes its VAT without regard to earlier refunds, and `executeRefund` does
  not compare it with what the execution derives, against
  `settlement-refunds.service.ts:1344` ("refuses on drift").
* `ReceiptsAudited` (`CoverageHeals.cfg`): a retry that finds its receipt inside
  the transaction (`settlement-receipts.service.ts:274`) derives the coverage
  but does not deliver the receipt's audit, against `355` ("the replay lane
  heals the audit with the same key").
* `CreditClosesAudited` (`CoverageHeals.cfg` with amounts 2 and 5): the heal of
  a lost audit tests `invoice.balanceStatus` (`464`), a field `loadInvoice`
  does not return, against `457` ("re-delivered on ANY later re-derive").

Gifts, orders, the wall, notifications (`Gifts.cfg`):

* `NothingHiddenFromTheSweep`: the legs of a paid order are posted one at a time
  behind the commit (`payments.service.ts:242`), and both the fast path and the
  sweep (`ledger-reconciliation.service.ts:128`) take the first leg for all of
  them; a posting cut off after it is never completed, against
  `payments.service.ts:219` ("It self-heals…").
* `AcceptedForGood`: two confirmations of the address have passed their check, or one
  and the sweep's; the first is written, the store marks the gift as preparing, the
  second writes `address_confirmed` by id (`gifts.service.ts:979`) and the sender's
  cancel takes the accepted gift, against `1022` ("once the gift is `preparing` or
  beyond, the store has the order and cancellation needs the refund flow").
  `AcceptedNotCancelled` is what does hold.
* `SurpriseKeptOnEveryPath`: the list of received gifts (`users.service.ts:1395`) and
  the posts of a gift (`gift-posts.service.ts:144`) name the product of a surprise
  that is not delivered, against `gift-visibility.ts:20` ("the function every
  gift-returning endpoint MUST call before responding"). The masked views keep the
  ids of product and store, and the category and city of the gift. `SurpriseKept` is
  what does hold.
* `AtMostOneDefault` (with two owner's calls): `update` writes back the default
  flag it read before its transaction (`addresses.service.ts:296`), against
  `213` ("so the invariant 'at most one default per user' always holds").
* `TerminalGiftsStay`: `confirmAddress` (`gifts.service.ts:979`) and
  `markPreparing` (`store.service.ts:302`) write by id after their check, so a
  cancelled gift lives again, against `gift-status.ts:18`.
* `NoAttemptForgotten` (with two owner's calls): the sender's attempt is recorded
  after the receiver's first default was saved (`gifts.service.ts:373`), and
  nobody resolves it.
* `HeartsNeverDoubleCounted`: two first taps of one person both find no row and
  both count (`wishes.service.ts:143`).
* `OnePingADay`: the probe for an earlier ping and the sending are two steps
  (`gift-posts.service.ts:356`).
* `CancelledNeverShown`: a publish that read the gift before its cancellation
  writes after the cascade (`gift-posts.service.ts:138`, `gifts.service.ts:1136`).
* `CountedOnce` (with `MaxRows = 4`): two digests that overlap stamp each row once
  but both count the rows they had read (`digest-worker.service.ts:265`).

Corporate (`Corporate.cfg`):

* `CampaignFollowsItsDiagram`: `approveCampaign` (`campaign.service.ts:473`) and
  `cancelCampaign` (`581`) write by id, so a campaign can leave `dispatching` for
  `cancelled`, or `cancelled` for `approved`, against the diagram at `1`.
* `DispatchedWereReviewed`: a recipient added by a request that was checked
  before the submission is dispatched unseen by the approver.
* `WaveKeepsItsContacts`: after a stale removal or cancellation the retention job
  purges a contact of a wave in flight, against `roster-purge.service.ts:31`.
* `DecidedTokenKept`: a re-mint that found the claim pending writes after the
  decision, against `claim-mint.service.ts:48` ("A finalized claim must never
  have its token rotated"). The outcome stays (`DecidedForGood`).
* `AttemptsBounded`: overlapping sweeps compare the attempts their batch had read.
* `NumberImmutable`: a second clerk's write by id replaces an official number
  (`merchant-invoice.service.ts:330`).
* `OneSnapshotForBoth`: two approvals around a price change freeze two snapshots,
  and the two documents are issued from one each
  (`merchant-invoice.service.ts:86`).

People, staff and stores (`People.cfg`):

* `PurgeIsFinal`, `SomeAdminLeft`: the guards of `restoreUser`
  (`admin.service.ts:287`) and of the demotion (`145`) are read before the write;
  a purge in between is undone, and two administrators demote each other.
* `EmailWasProven` (with two addresses): `updateEmail` keeps the stamp when the
  address it read was the same (`users.service.ts:318`); a confirmed change in
  between leaves the old address under the new stamp.
* `BlocksSupersedeFollows`: `follow` never looks at blocks (`follows.service.ts:54`),
  against `blocks.service.ts:21`.
* `ListsNameNoBlocked`: the lists of gifts name third parties without the filter
  the follow lists apply (`follows.service.ts:144`).
* `EveryReadChecks`: `checkByUsername` (`users.service.ts:1039`) confirms a person
  across a block, against `blocks.service.ts:104` ("Used by every "give me one
  specific user's data" endpoint").
* `TaxFactsNeedTwoPeople` (with `ownNumber` free in `VatFocus`): the owner's
  `PATCH` writes `vatNumber` alone (`stores.service.ts:262`), against
  `vat-facts.service.ts:6`.
* `FactsOnRecord`, `OneOpenProposal`: a rejection overwrites an approval
  (`vat-facts.service.ts:206`) whose facts stay in force; two proposals pass the
  check for an open one, against `12` ("One open proposal per store").
* `OrgReviewedOnce`, `NoRoleChangeInPlace`: a second review writes over the first
  (`org.service.ts:404`, `417`); two revivals of a revoked seat leave the second
  role (`231`, `277`).
* `PublicWasReviewed`: a new store is `pending` by default
  (`prisma/schema.prisma:610`), which is in the public list
  (`stores.service.ts:110`), against `96` ("pre-approval; … the public never
  does").
* `OrderedFromOpenStore`: an order without a product is not checked at all
  (`products.service.ts:515`), and the body's `storeId` is taken before the product's
  store (`orders.service.ts:250`), so a store that is not public is ordered from,
  against `products.service.ts:510` ("Without this, a buyer could complete an order
  against a `suspended` / `rejected` store").
* `SubmitBounces`: the submission writes by id, so a store approved meanwhile goes
  back to `submitted` (`stores.service.ts:317`).
* `DisconnectedLooksIt`: a webhook that read the secret before the disconnect marks
  the link afterwards (`store-integrations.service.ts:164`).

Observed while modelling, with no property of their own: a failed issuance is
ensured again by nobody (`campaign.service.ts:502`, `521`); the repair of a
first-wave phone number writes by id over a number changed meanwhile
(`auth.service.ts:439`); creating a store sets the owner's role to `store` even
for an administrator (`stores.service.ts:236`).

## 7. What is not modelled

* Inside the modelled parts: reads that feed no decision (`getBatch`,
  `statement`, `replay`, `listReceipts`, `receivablesAging`, billing summaries,
  dashboards, catalogue search), the layout and hashing of documents, the
  numbering of credit notes, the eligibility conditions, masking and chaining of
  audit rows, several currencies and stores (they share no row), the cascade of a
  purge into other tables.
* Amounts of the fee engine and the choice of tax treatment: pure functions of
  tables no property here is about; the VAT arithmetic is in `VatArithmetic`.
* Invites, profile texts, social account links, search ranking, the Hijri
  calendar, CSV parsing, exports and reports: conversions or single-row records
  without a second actor.
* The static permission tables (`rbac`, `ops-roles.ts`): data, of which the models
  use which role may do what.
* Mail, push and media: I/O with external providers. Where a component calls
  them, their failure is a choice of the model.

## 8. Plan

Done: the settlement core, in the order engine, contract and proofs;
authorisation; completion; VAT and refund series; coverage; maker-checker and
proofs; then gifts and orders, wall, notifications, campaigns, claims and
dispatch, invoicing, treasury, codes and accounts, social graph, staff decisions,
stores.

Proved since: every safety property of the runs (section 5).

What remains is breadth: the cascade of a purge into other tables, the guards of
user administration that a second request overtakes
(`admin.service.ts:287`, listed under `hazards`), and
the parts section 7 leaves out.
