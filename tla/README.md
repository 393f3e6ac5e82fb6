# Verification of autodata

Autodata captures automotive service articles from providers, rewrites their
prose with a paid language model under a technical guard, lets people review
the result, and publishes it to readers and subscribers. Workers, operators
and reviewers share one PostgreSQL database; messages leave it through an
outbox to NATS JetStream. This directory models the part whose correctness
depends on interleavings, lost leases, crashes and lost messages, checks it
with TLC and proves what it can with TLAPS.

In this text `I/` is `src/workers/ingestion-python/src/autodata_ingestion/`,
`E/` is `src/workers/enrichment-python/src/autodata_enrichment/` and `M/` is
`src/db/migrations/`.

## The system

| Component | State it keeps | Operations | What is hard, and what makes it correct |
|---|---|---|---|
| Article job lifecycle (`I/source_job_persistence.py`, `I/article_lifecycle*.py`, `I/source_article_capture.py`, `M/037`, `M/038`) | articles, jobs, revisions, rewrite attempts, worker processes | ensure, refresh, claim (five statements), capture, normalize, prepare, dispatch, store, validate, publish, fail, heartbeat | every step is a commit of its own under a 90 second lease; workers die and are overtaken. One active job per article, one dispatch per attempt number, stale workers write nothing, canonical pointer follows the source, every job settles |
| Content review (`I/article_content_review.py`) | reviews, the binding token a reviewer exported | export, approve, reject, correct, correct a refused response | decisions race with corrections and refreshes. An approval covers the exact draft published; nobody approves their own text |
| Source reprojection (`I/source_revision_reprojection.py`) | a terminal job per correction | apply | must not run beside an active job |
| New-article rollout (`I/new_article_worker.py`) | quota file, job marker, the worker process | initialize, enable, disable, choose, reserve, cap, permit, run | file and database commit separately, the ledger is read before it is locked, operators and other workers come in between. Quota is spent first, never exceeded, and buys one attempt, in which source and model are asked once, whoever claims or resumes the job |
| Publication outbox (`E/outbox.py`, `src/scripts/dev/outbox_relay.py`, `src/scripts/dev/replay_outbox.py`) | publication_events rows, relay processes, broker stream | claim, publish, record, sweep, replay | acknowledgements get lost, relays die or come late. At-least-once delivery, every event settles |
| Deep lane (`E/publisher.py`, `E/deep_consumer.py`, `E/deep_dispatch.py`, `E/viewable_consumer.py`) | section jobs, section status, dataset revisions | fan out, load evidence, publish a section, consume with redelivery | messages delivered again, to another process too, and processes that die between commit and acknowledgement. One revision per section and snapshot, nothing lost, nothing published after a revocation |
| Workshop commerce (`I/commerce_service.py`, `I/stripe_adapter.py`, `M/040`) | orders, entitlements, payment events, Stripe's sessions | checkout, poll, webhook, expiry, refund, preparation | remote calls between transactions; events in any order and repeatedly. One charge per scope, access exactly from a settled charge to its refund, no settlement lost or blocked, a library reported ready is indexed |
| Payment reconciliation (`I/payment_reconciliation.py`) | payment events, entitlements | reconcile, revoke | payments that precede their request or compete for it, overlapping passes, revocation before fulfilment. One payment is fulfilled |
| Fast lane (`I/fast_lane*.py`, `I/consumer.py`) | dataset requests, jobs, projections | process a request | redelivery, entitlement checks, a second job after the first published |
| Catalog coverage (`I/catalog_coverage.py`, `I/catalog_index_worker.py`) | provider scopes with generations, index jobs, the articles of a scope | ensure, refresh, resolve, page, complete, retire, fail | pages listed outside transactions, leases lost between pages, listings that repeat or change. Completed coverage is the listing, no more and no less |
| Knowledge fallback and pricing, chat runtime | fallback jobs, price refreshes, turns | request, process, retry | not reachable or dormant at this commit (see "Not modelled") |
| Vehicle identity, connectors, documents and rewriting | (mostly none) | resolve, fetch, parse, transform | pure computation and I/O |
| Go API and workshop client (`src/apps/api-go`) | sessions, client view state | HTTP, polling | overlapping requests |
| Autonomy and deployment scripts | files | run, release | outside the product's runtime |

They interact through rows: an operator's request creates a job; a worker
claims it and calls the provider and the model between commits; a reviewer's
decision puts a waiting job back into the queue; a publication writes the
canonical pointer and the outbox row in one transaction; a relay moves outbox
rows to the broker, whose consumers run the deep and fast lanes.

`PROJECT.json` lists the components with their files and status, and under
`hazards` the places that are hard to test, each with the properties that
watch it or the reason none does yet.

## Modules

| Module | Models |
|---|---|
| `ArticleState` | the rows, their types, the guards every transaction shares (`lock_live_lease`, `_lock_transform`) |
| `ArticleRequests` | `ensure_article_job`, `refresh_article_job`, `apply_source_reprojection` |
| `ArticleClaims` | `claim_source_job`: the three resumes, the sweep, the general claim |
| `ArticleWorker` | `run_article_job` from capture to publication, its failure handlers, heartbeat, lease expiry, death |
| `ContentReview` | the reviewers' transactions |
| `ArticleLifecycle` | the composition: `Next`, fairness and the properties |
| `ArticlePublication` | the abstract promise to readers and subscribers |
| `MCArticleLifecycle` | symmetry for TLC |
| `Outbox` | relays, operator replay, the broker's stream |
| `AtLeastOnce` | the abstract promise of the outbox |
| `WorkshopOrders` | the rows of the paid Workshop, Stripe's side of each order, the server processes |
| `WorkshopCheckout` | `checkout`, `order_status`, `_reconcile_expiry` |
| `WorkshopSettlement` | `reconcile_event` |
| `WorkshopCommerce` | the composition: `Next` and the properties |
| `PurchaseOnce` | the abstract promise to a customer |
| `CatalogCoverage` | `ensure_article_catalog_jobs`, `refresh_catalog_jobs`, `run_catalog_index_job`, claims and sweeps of catalog jobs |
| `MirroredCatalog` | the abstract promise to the readers of a catalog |
| `WorkshopPreparation` | `reconcile_workshop_preparation` over `CatalogCoverage` and `PurchaseOnce` |
| `DatasetState` | the rows of a dataset request and its messages |
| `DatasetPayments` | the request API, `reconcile_payment_event`, `revoke_entitlement` |
| `DatasetLanes` | the three consumers, `publish_fast_lane_revision`, `schedule_deep_sections`, `publish_deep_section` |
| `DatasetPipeline` | the composition: `Next`, fairness and the properties |
| `PaidDataset` | the abstract promise to those who pay for a dataset |
| `NewArticleRollout` | the admission worker, its ledger file, its operators |
| `MeteredAdmission` | the abstract promise to those who pay for the model |
| `MCWorkshopCommerce`, `MCWorkshopPreparation`, `MCNewArticleRollout` | symmetry, the listing and the view for TLC |
| `ArticleTypes_proofs`, `ArticleOwnership_proofs`, `ArticleSafety_proofs`, `Outbox_proofs`, `WorkshopCommerce_proofs`, `Dataset_proofs`, `Library_proofs`, `Rollout_proofs` | theorems |

### How the article modules correspond to the code

State. `article`, `job`, `revision`, `attempts`, `review` and `outbox` are the
tables; a revision is named by its transformation key, which the database
keeps unique. `worker` holds what a process remembers between commits: the job
and token of its lease, the fetched source, the model's answer. `desk` holds
the bindings a reviewer exported, which the later decision must still match.

Actions. Each database transaction is one action, with the locks it takes
turned into atomicity. Each call to a provider or to the model is an action
that changes only the worker. A guard that raises `LeaseLost` is a branch that
returns the worker to `idle` and leaves the rows alone. `claim_source_job` runs
its statements in one transaction, but every statement reads
`clock_timestamp()` anew, so a lease may run out between the resumes and the
sweep: a poll is therefore two steps (`PassResume`, then `SweepExhausted`,
`ClaimGeneric` or `NothingToClaim`). A worker that polls without naming a job
is a sequence of polls that name one. A worker that dies during a poll rolls it
back, so death is an action only for a worker that has claimed.

Data. Documents are abstracted to whether their validator passes (`sound`),
whether the server built them (`preserving`) and how often a reviewer replaced
them (`version`); a fetched source is a fingerprint and a projection version,
and `Projections` are those of the deployed workers. `next_attempt_at` is left
out: it delays a claim and never prevents it.

Some branches of the code are unreachable in every checked instance and are
modelled as far as they guard something: the invalid-draft branch of the
automatic resume (`AutomaticDraftStaysValid` says it is unreachable), the
not-approved branch of the review resume (`ApprovedStaysPublishable`). The
publisher's answer to a repeated publication, "already observed" in the
capture and "transformation already has an owner" have no action because their
guards contradict the guards that precede them.

### How `Outbox` corresponds to the code

A claim draws a fresh owner and raises the token, so the token stands for
both. `SKIP LOCKED` lets a relay pass over an older row, so any claimable event
may be taken. `Connect` succeeds or is not taken: a relay that cannot connect
changes nothing. `Publish` has three outcomes: stored and acknowledged, stored
with the acknowledgement lost, not stored. A `Malformed` event is one whose
type or payload `event_subject` and `build_event_envelope` refuse, so that it fails
before the broker sees it: the code knows such types (`chat.price.refresh.*`,
`I/knowledge_fallback_runtime.py:868,1120`), though at this commit no running
path inserts them. `DeliveryLeaseLost` ends the process, which the service
manager restarts. The broker drops a copy whose key it still remembers; to the
relay that is "stored", so the window is left out here, and the copies that the
broker does not recognise are `Duplicate` of `DatasetLanes`. `Append` is the insert a producer makes with the
rows it announces; for articles that is `Publish` in `ArticleWorker`, which adds
the key to `outbox` in the same step, so the two models meet at that row and
share no other.

### How the Workshop modules correspond to the code

`order` is `workshop_orders` with the entitlement a row owns, `binding` the
client keys of `workshop_checkout_requests`, `event` the Workshop rows of
`payment_events`, one per order and kind: Stripe may send several events of one
kind, but a second one finds the order as the first left it. `provider` is what
Stripe holds: the provider idempotency key names the order, so an order has at
most one session and one intent. `server` is what a request remembers between
its transactions: the order, the event, and whether the order had a session
when it was read. Each transaction under the scope's advisory lock is one
action and each Stripe call another; a call may fail before or after it took
effect, and a process may die at any point (`Crash`). The age of an order has
three values because the code compares its clock with two moments: the end of
the session's hour and the 23rd hour of its creation.

`reconcile_event` is `Receive` (record the event), then `Settle`, `ReadIntent`
or the expiry, then `Finish`. The unique indexes of the migration are the guard
`NoOtherOwner`: a transaction that violates one aborts and leaves the event
pending. `grant_check` and `library` only read; what they answer is `Access`.

### How the catalog and preparation modules correspond to the code

`scope` is a `catalog_article_provider_scopes` row with its current job and
checkpoint, `article` the canonical articles of the scope. A cursor is a page
number. `ListPage` asks the provider outside any transaction, `StorePage` is the
transaction of a page, with the completion when it is the last, and an error is
recorded in two commits (`FailScope`, `FailJob`). `listing` is the provider and
changes at any time; `steady`, which no action reads, remembers the articles it
listed all through a generation, so that a property can say what must be
active. `PageOf` fixes the page of an article and `Repeated` the articles that
later pages list again. `WorkshopPreparation` adds the passes: `Lease`,
`Schedule` (the scheduler's own transaction, which runs `Ensure`) and
`Acknowledge`. Orders are sold by the steps of `PurchaseOnce`, which
`WorkshopCommerce` is shown to implement.

### How the dataset modules correspond to the code

One request, the payments made for it, and its messages. A message is absent,
queued (an outbox row or an unacknowledged JetStream message), done or dead.
`Deliver` keeps it queued, so it may be delivered again, to another process
too, while the first still handles it; after `MaxDeliveries` a failing handler
dead-letters it. Handlers are one transaction each (`HandleFast`,
`HandleViewable`, `PublishSection`), except that a section's evidence is loaded
in a transaction of its own (`LoadEvidence`). `job` and `published` are the
completed ingestion jobs of the lanes, keyed by snapshot.

### How `NewArticleRollout` corresponds to the code

`ledger` is `rollout.json`: schema 1 is the finite rollout, 2 the continuous one
that the deployed service uses. It is replaced and synced in one `os.replace`,
so a write happens or does not. `row` is what the admission predicate and the
claim look at in a job and its article. `worker.lock` lets one process live,
so there is one worker: `Poll` is the loop of `run_new_article_worker`, then
`ReadLedger`, `Choose` or `ChooseNothing`, `Lock`, `Reserve`, `Cap` are
`reserve_next_job`, `Permit` and `Claim` the rest of `dispatch_next`, `Finish`
the end of the job. From `Lock` to the commit of `Cap` the row is locked, and
`SKIP LOCKED` lets the pass take any candidate. The clock is read twice, for
the pass and for the reservation, and may be set back, as the code expects.
`Crash` is SIGKILL or any exception, all of which end the process; the service
manager starts it again. Operators write the ledger at any time; a catalog
generation withdraws a waiting article and may list it again (`Withdraw`,
`Relist`).

`claim_source_job` of one job is the same for the rollout (`Claim`) and for the
other workers (`OtherClaims`), which have a model or have none: the resume of a
saved draft (`ResumesDraft`), the resume of a job that waits for the model
(`ResumesParked`), the sweep (`Sweeps`), the general claim (`Claimable`). Only
the last counts an attempt and looks at the limit, so a marked job whose one
attempt is spent may be resumed, by the rollout too. What a resume may do
depends on how far the job came, so `stage` follows `run_article_job` through
its commits (`Working`), `holder` is the lease, and `fetched` and `asked` count
the requests for the source and the rewrite attempts; recording an attempt and
calling the model with it are one step, since `ArticleLifecycle` shows that a
record is called at most once. Three more of its results are built in: an active
job is the one its article asks for (`ActiveIsCurrent`), a worker that lost its
lease writes nothing (`StaleWorkerWritesNothing`), and the automatic resume
never finds its draft invalid (`AutomaticDraftStaysValid`). All jobs are of the
automatic profile, the only one the rollout admits, so the resume of a reviewed
draft has no part here.

## Runs

| Run | Instance | Question |
|---|---|---|
| `MCTechnical` | 1 article, 2 jobs, 2 workers, technical profile, 2 attempts | do crashes, lost leases, reclaims and refreshes keep one active job, one dispatch per attempt, accounted deliveries, silent stale workers, final publications |
| `MCReview` | 1 article, 2 jobs, 2 workers, 2 reviewers, 2 corrections | does an approval always cover the draft, from someone who did not write it |
| `MCRefresh` | 1 article, 3 jobs, both projections, two profiles, 1 reviewer | do adoptions keep generations apart and do readers see a publication of the current source (refinement of `ArticlePublication`) |
| `MCSettle` | 1 article, 2 jobs, 1 worker, review and automatic profile, two fingerprints, one without prose slots, fair | does every active job come to rest, is there always a step that takes it on, and do saved automatic drafts stay resumable |
| `MCOutbox` | 2 events, one malformed, 2 relays, 2 attempts, fair | is delivery at least once (refinement of `AtLeastOnce`), has a waiting event an attempt left, does every event settle |
| `MCCommerce` | 1 scope, 2 orders, 2 client keys, 2 servers, 4 kinds of events | is a customer charged once, given what was paid, and told to pay again only when the old order is dead (refinement of `PurchaseOnce`) |
| `MCLibrary` | 1 order, 2 passes, 1 provider, 2 pages, 2 articles, one repeated, 1 indexer, a refresh, an edit | does the index implement a mirror of the listing (`MirroredCatalog`), and is a ready library indexed and never taken back |
| `MCDataset` | 1 request, 2 payments, 2 snapshots, 1 section, 1 worker, 2 deliveries, 1 crash or duplicate, fair | does the pipeline implement `PaidDataset`, is nothing paid for or asked for ever lost, no duplicate revisions, revoked data is closed, every fulfilled payment served, every section settled |
| `MCRollout` | 2 jobs, quota 1, window 2, capacity 2, clock up to 3 and set back | does the rollout implement `MeteredAdmission`, is the quota kept, nothing spent after a disable, and are source and model asked once for a marked job, whoever claims, resumes or parks it |
| `MCUnrecorded` | violated | see findings |
| `MCSweepRace` | violated | see findings |
| `MCOutage` | violated | see findings |

Deadlock is checked in `MCOutbox`, `MCDataset` and `MCRollout`, whose clocks and
consumers always have a step to take. It is not checked in the others: an
article whose job is finished or an order that was refunded has nothing left to
do, and nobody has to ask for more.

### Bounds, and why they are enough

- Article runs, one article: no transaction of the lifecycle reads or locks the rows of two
  articles. The proofs hold for any number.
- `Jobs` bounds the refreshes: two jobs give the current one and an overtaken
  or adopted one; the generation hazards need a third (an owner, an inspecting
  job, and one that comes after the adoption).
- Two workers: the holder of a lease and the one that takes it over. A third
  would be a second stale holder, fenced by the same comparison.
- `MaxToken`: a worker that holds this token neither dies nor loses its lease,
  and reviewers do not reject or correct beyond it. It bounds lost leases
  without hiding what follows them, because the last claim runs to its end.
  `MaxVersion` bounds the corrections of a draft, `LeaseTerm` the clock.
- `MaxAttempts` 2 has a repeated attempt and an exhausted budget; 1 is used
  where attempts are not the question. `ArticleState` assumes the range the
  table allows.
- In `Outbox`, `MaxToken` bounds slow relays, deaths and replays in the same
  way; `BatchLimit` 2 has a batch that goes on and one that ends.

- `MCCommerce`: every transaction takes the lock of one scope, so one scope is
  enough; the two orders are the replaced and the replacing one, the two servers
  a slow request and the one that overtakes it. Events of kind `harmless` are
  left out of the run: they are recorded and change nothing.
- `MCLibrary`: two pages have a first, from which a worker resumes, and a last,
  which completes; the first page's article is listed again by the second. One
  edit of the listing and one refresh put a change between any two steps.
  `MaxAttempts` 2 has a lost lease and an exhausted budget. TLC has one index
  worker, which may lose its lease and claim the job again; the theorems of
  `Library_proofs` hold for any number.
- `MCDataset`: the second payment competes with the first, the second snapshot
  is the one the fast lane moves to, and the worker meets redelivery, revocation
  and reconciliation in any order; `MaxFaults` bounds crashes and duplicates.
  `Dataset_proofs` holds for any number of workers.
- `MCRollout`: two jobs compete for a quota of one. A window of two in four
  moments can pass and free the quota, and a capacity of two be reached. The
  `VIEW` `Told` forgets what no later step and no property reads. A row that was
  claimed before the rollout marked it is never marked, and only its own steps
  read it. Of a row that may be marked the times matter as far as they lie after
  the cutoff; of a marked one they all do. Of a marked row that ended the cap and
  the attempts remain, which the refinement reads. States with the same view
  take the same steps.
  `Rollout_proofs` holds for any number of jobs, any quota and any clock.

Symmetry is used for jobs, workers and reviewers (`MCArticleLifecycle`), servers,
orders and keys (`MCWorkshopCommerce`), passes (`MCWorkshopPreparation`) and jobs
(`MCNewArticleRollout`), in safety runs only: no definition singles one of them
out.

### Fairness

`FairSpec` of `ArticleLifecycle` asks weak fairness of each worker's polling and
of each worker's run (the supervisor restarts the process, and `Crash` is
bounded by `MaxToken`), and that the clock runs out on a lease nobody holds.
Nothing is asked of operators and reviewers: a job that waits for one is at
rest. `FairSpec` of `Outbox` asks weak fairness of each relay and of the clocks
and so assumes that the broker is not out of reach for ever; it asks nothing of
the operator who replays. `FairSpec` of `DatasetPipeline` asks weak fairness of
each consumer (the supervisor restarts it and JetStream redelivers); nothing is
asked of customers, operators, the assignment of snapshots or the reconciler,
whose pass may end at an event that raises before it comes to the later ones, so
`PaidIsServed` begins where a payment is fulfilled. The Workshop and rollout models state
safety only.

## Findings

1. `MCUnrecorded`: on a refresh whose source is not captured yet, recording a
   refusal or transport failure needs a captured source
   (`I/article_lifecycle_store.py:410-419`), so `LeaseLost` is raised, nothing is
   recorded and the job ends as `LEASE_ATTEMPTS_EXHAUSTED` though no lease was
   lost; the lifecycle plan promises `needs_review` or a bounded retry.
2. `MCSweepRace`: a lease that runs out between the automatic-resume query and
   the sweep of the same poll sends a saved automatic draft to `dead_letter`,
   where the normalized-document architecture promises its publication.
3. `MCOutage`: an outage that begins after the relay connected spends the
   event's attempts and makes it a dead letter; the connector architecture says
   the event stays pending.

## Proofs

`ArticleTypes_proofs` proves `Spec => []TypeInv`, where `TypeInv` is the type
invariant strengthened by what the steps need to stay typed: a worker past its
poll names a job, and one about to store a source has fetched one. There is one
lemma per group of actions; `TypeCorrect` is the corollary for `TypeOK`.

`ArticleOwnership_proofs` proves two invariants on top of it.

- `OneActiveJob`. `ActiveIsCurrent` is inductive together with `TypeInv`. The
  argument splits every step into three shapes (`StepKind`): *steady* steps
  change no job's status to active and no pointer away from an active job,
  *created* steps add a job to an article whose job was not active and point at
  it, *reused* steps complete the running job and point at a terminal one.
- `DistinctGenerations`. `GenerationsDistinct` is not inductive alone: the
  adoption could move an owner of another article. `GenerationInv` adds that
  the job an article points at belongs to it (`OwnsItsArticle`) and that an
  article without a job has none (`UnaskedIsEmpty`).

`ArticleSafety_proofs` proves the rest of the lifecycle's safety, each argument
resting on the ones before it.

- `ParkedStaysResumable`: a parked job is active, so by `ActiveIsCurrent` its
  article asks for it, and neither a request nor a capture changes what an
  article asks for while its job is active; only the holder of a lease prepares
  an attempt, and a parked row has none (`ParkingInv`).
- `StaleWritesNothing`: a worker past its poll acts alone, and every branch
  without the lease leaves the rows as they are.
- `CanonicalIsCurrent`, `PublicationIsFinal`, `ReadersAreServed`: a
  transformation key has one owner, which keeps it (`KeysInv`: a job that is
  being captured has no source yet), so a published revision belongs to a
  completed job and no step reaches either (`PublicationInv`). Each step is a
  capture, a publication, a reprojection or no matter to readers (`ShownKind`),
  which is the refinement.
- `ReviewPrecedesPublication`: a key keeps the profile of its owner, a
  publication under the review profile demands the full approval, and no
  review is recorded for what is public.
- `AttemptsDispatchOnce`, `OpenDeliveriesAccounted`: `LedgerInv` says how far a
  job's row has counted past each of its attempts (`Counted`) and what a worker
  knows of the draft at each of its steps (`PcFits`). A claim that does not
  count an attempt is one for a saved draft or for a job that never tried, so a
  number is not used again.
- `AutomaticDraftsResume`, `ApprovalsCoverTheirDrafts`: `DraftInv` adds that an
  article's job transforms what the article is about (`Asking`), that a draft
  has an owner, and that what a row says of its draft is true of it
  (`DraftsFit`). The resume then never meets an invalid draft, and a step that
  touches an approved draft or its reviews also ends the approval
  (`ApprovalUntouched`).

- `NothingIsStranded`: every active job holds a lease or is one that a statement
  of a claim takes (`Recoverable`): a saved automatic draft, an approved draft, a
  job that waits for the model, one with attempts left, one for the sweep. It is
  the safety half of `EveryJobSettles`, which only TLC checks. The invariant adds
  to `DraftInv` and `ParkingInv` which statuses, reviews, errors and attempts a
  row may combine (`JobsInOrder`), and that a worker about to report a retryable
  failure holds a job that no review waits for (`FailuresFit`).

`Outbox_proofs` proves the same for the outbox: its type invariant,
`RetryableHasAttempts`, and the refinement `DeliversAtLeastOnce`, with the
inductive invariant that a relay which was told "delivered" is right and that
a claim's remembered attempts are those of the row while its token is.

`WorkshopCommerce_proofs` proves the type invariant, the three invariants of
`MCCommerce` and the refinement `SellsOnce` from one inductive invariant: what
the provider can still do with an order (`ProviderInv`), what the row, the
events and each server's memory may then say (`OrderInv`, `EventInv`,
`ServerInv`), and that a scope has one live or owned order (`ScopeInv`). Its
heart is `Dead`: an order whose session is expired or whose intent is cancelled
stays so (`Kept`), which is what a server may remember across a Stripe call.
The refinement has one lemma, `StepSells`: a step maps to a sale, a refund or a
stutter.

`Library_proofs` proves both halves of `MCLibrary`. `CatalogInv` says that a
worker that believes to hold the current lease of a scope (`LeaseInv`,
`OneHolder`, `HolderInv`) has covered the pages before its cursor and nothing
that was not listed; coverage and listing then agree when the last page
completes the generation. `PreparationInv` says that an order is ready only
with complete scopes, and that a pass which still owns an order saw what the
order is. Coverage that reads complete holds what the listing kept and nothing
older (`IndexCorrect`); the refinement of `MirroredCatalog`
(`MirrorsTheListing`) says the same of every step. A refresh is `Renew`, an edit
of the listing `Drop`, a stored page `Take`, the last one `Close`; every other
step, a failure, a takeover or a late worker, is invisible to readers. It adds
`UnknownInv`: a vehicle that was never resolved has no articles, so an index that
completes because the provider does not know the vehicle (`CloseUnknown`) hides
nothing.

`Dataset_proofs` proves the safety of `MCDataset`. Its invariant relates the
messages to the request (a message exists only after what announces it), each
worker's memory to the rows (`WorkerInv`), and the revision numbers to the
completed jobs (`RevisionInv`); `Kept` collects what no step takes back.

- `NothingLost`: what was paid for and is not there has a message or a row that
  will see to it, the safety half of `PaidIsServed` and `SectionIsSettled`.
  `LostInv` has both directions: a message is done only when what it asks for is
  there, and what is there was asked for (`ServedInv`, `AskedInv`, `JobInv`), so
  a consumer that dies between its commit and its acknowledgement loses nothing.
- `DeliversPaid`: each step is a step of `PaidDataset` or a stutter. What it
  adds (`PaidInv`) is that a payment which was taken has a snapshot to deliver,
  and that a revoked request has no access left.

`Rollout_proofs` proves the four properties of `MCRollout` and
`MarkIsPaidFor`. While a pass holds the row's lock the row stays pending
(`PassInv`); a mark follows its reservation, which no step removes (`PaidInv`).

- `QuotaIsKept`: a continuous ledger accepts a reservation only when none is
  later, so the new one can overfill only the window that it ends, which is the
  one the guard counts (`NewReservation`); no use is made of a clock that only
  advances (`LedgerInv`).
- `DeliversOnce`: every step but `Cap` changes one row in one of five ways
  (`Moves`, `RowChanges`): it is asked for or withdrawn, claimed, resumed,
  released or worked on. `SoundInv` says what a stage has cost (`OneDelivery`): a
  marked row that somebody began has spent its attempt, so the general claim
  leaves it alone, and the resumes take it only where the source is stored and
  the answer too, or nobody has been asked.
- `AdmitsJobsOnce`: the ledger is the set of admissions, a row's mark and its
  attempts are the licence (`LicenceOf`). It moves on in `Cap` and in the general
  claim, by whichever worker, and the resumes leave it (`MoveMeters`): a marked
  row has one attempt, which others may continue.

The proofs assume only the named assumptions of the modules (`RolloutAssumption`
and its like), which TLC evaluates in the runs.

Every safety property and every refinement that a passing run checks is also a
theorem. Only model-checked are the liveness properties `EveryJobSettles`,
`EventSettles`, `PaidIsServed` and `SectionIsSettled` (liveness under
fairness is beyond the prover) and the three findings.

## Not modelled

- The one-shot Bankone and Banktwo recovery claims
  (`I/source_job_persistence.py:268-422`): operator procedures for two named
  incidents, each gated by fixed identities.
- The replay of legacy ingestion jobs in `replay_outbox.py`.
- `record_deep_failure` (`E/publisher.py:368`): nothing calls it but tests.
- Switching the purchase configuration or the price of the Workshop while orders
  are open; payments of another organization for the same dataset request; the
  order in which a reconciler pass takes its events, so nothing is claimed of a
  payment that stays pending.
- The broker's memory of message keys, which drops copies for a while.
- `catalog_sync.py` and `catalog_years.py`: single transactions that write the
  tree a catalog is shown by, with no state shared with the modelled parts.
- Knowledge fallback and pricing: `load_revision_catalog`
  (`I/knowledge_fallback_runtime.py:1270`) hands the mapping of `_conninfo()` to
  `psycopg.connect` where every other call unpacks it. The call fails, the
  consumer counts the failure as permanent (`I/knowledge_fallback.py:392-399`),
  and every request becomes a dead letter on its first delivery, so the
  publication behind it is never reached; the tests replace the lookup. The
  consumer of price refreshes has no caller. A model of what cannot run would
  show nothing; it is worth writing once the call is repaired.
- The chat runtime is off the active path
  (`docs/superpowers/plans/2026-10-03-disable-chat-active-path.md`).
- Identity, connectors, documents and rewriting compute or do I/O: their answers
  are nondeterministic outcomes of the modelled actions. The Go API reads what
  the workers publish; the browser client is last in the plan. Autonomy and
  deployment scripts are outside the product's runtime.

## Observed, without a run

Behaviours met while translating the code. No document of the repository speaks
against most of them, so no run refutes anything; they are listed for a reader
of the code.

- Workshop: `_assert_merchant` compares an old order with the configured price
  (`I/commerce_service.py:198`), so after a price rotation its events raise, stay
  pending and abort each pass. A charge that arrives after the session expired is
  quarantined. No code sets an order to `processing`.
- Catalog: a descriptor conflict on a page before the last is forgotten when the
  process dies after the commit of the page; a sweep to `dead_letter` leaves the
  scope `running`; `refresh_catalog_jobs` has no caller outside tests, so an
  order whose scope failed stays blocked; a restart after a conflict on the last
  page ends as `REPEATED_CURSOR`.
- Dataset: only the fast lane gives a request its source snapshot; overlapping
  passes run a fulfilled event again after the snapshot moved, which sends a
  second fast job and takes `enriching` back to `viewable`; deep messages of the
  older snapshot then find no evidence and are dead-lettered; no running code
  sets a request to `complete` or a section to `failed`, as
  `docs/architecture/dataset-lifecycle.md` describes.
- Rollout: a worker that dies after its claim leaves the job to no one, unless its
  draft is saved or it waits for the model, when other workers may resume it (the
  module's header accepts the loss); a job withdrawn between the permit and the
  claim may still be claimed by name.

## Plan

Built: the article lifecycle with review and reprojection, the outbox, Workshop
commerce, catalog coverage with preparation, the dataset pipeline (fast lane,
deep lane, payments), the new-article rollout.

Next modules: `WorkshopReader` (the browser client's overlapping requests, with
the sessions of the Go API), and `KnowledgeFallback` once it can run.

The theorems the plan named are proved; new modules bring their own.
