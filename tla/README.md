# A formal model of LicitaQui

LicitaQui shows Brazilian small companies the public tenders they can bid for and reads the
tender documents for them. A Next.js application (`apps/web`, serverless) and a Python worker
(`worker/licitaqui`) share one Postgres. They talk through tables: the web inserts rows of
`jobs`, the worker claims them and writes what the web reads. Every hard behaviour of the system
is an interleaving over those tables, and that is what these modules model.

Paths below are relative to `src/`.

## 1. Inventory

| Component | Code | State | Operations | What is hard | What makes it correct |
|---|---|---|---|---|---|
| Job queue | `worker/licitaqui/queue.py`, the `jobs` table | rows: status, key, priority, attempts, run_after, updated_at | enqueue(_many), claim, mark_done, mark_failed, requeue_stale | outcomes written by id long after the row was handed on; a partial unique index an update can hit | one live row per key, one consumer per attempt, `failed` only when spent, everything settles |
| Worker loop | `consumer.py`, `service.py`, `server.py`; web `lib/jobs` | an Event shared by the threads, stop, thread positions | drain, wait, clear, notify, shutdown, POST /wake | wait and clear are two steps; posts get lost; rows become due silently | no arrived wake is lost, the poll catches the rest, shutdown ends |
| Scheduler | `scheduler.py` | due instants in memory | tick | a tick fails half-way; restarts | entries are enqueued once |
| Founders signup | `lib/founders/signup.ts` | `founders_list`, an advisory lock | signUpFounder, duplicate | snapshots against locks, missing constraint on the number, recycled seats | the list is the serial one |
| Founder seat | `lib/auth/founder-seat.ts` | `users.founder_seat` | linkFounderSeat | runs against erasures and recycled seats | an account keeps its own seat |
| Screening | `lib/radar/screening.ts`, `ai_screening.py` | `ai_analyses`, the job, the poll | requestScreening, GET poll, the handler, store | documents change under the run; two runs after a stale sweep; retries | a reading is of the documents its key lists; the reading served is of the documents on file |
| Documents | `sync_tenders.py` (the follow-up), `sync_files.py`, `files.py`, `documents.py` | `tender_files` with the extracted texts, the `sync_files:<id>` marker | fetch, upsert, prune, mark_synced, ensure_documents, cached_text, download, record | a document keeps its address when it is replaced; the download follows the list and the record follows the download; the marker is two autocommitted statements | as above |
| Screening quota | `lib/radar/quota.ts`, `visitor.ts` | `usage`, `plan_limits` | readLimit, spend, hasSpentOn | count and insert in one READ COMMITTED statement; the month turns under a request; the charge precedes the work | the overspend is bounded, nobody is refused early, who paid is served |
| Billing | `lib/asaas/*`, `app/conta/plano/actions.ts`, `worker/licitaqui/billing.py` | `subscriptions`, `subscription_payments`, `webhook_events`, `users.plan` | startCheckout, the webhook's grant, revoke, record and end, confirmCancel, expire, reminders | webhooks redelivered, late and reordered; two subscriptions of one account; Asaas calls between our statements; sweeps against webhooks | a paid plan is paid for, one live row, an end never takes a paid month, a plan that is over is reclaimed |
| Circuit breaker | `breaker.py`, one per dependency, shared by the threads | failures, opened_at, probing | allow, record_success, record_failure | calls outlive the state they started in; a caller may return without reporting | the half-open slot is with the call that took it |
| Cache read-through | `lib/cache.ts` | none of its own | readOrEnqueue | a refresh wakes nobody | a miss is enqueued and woken |
| Rate limiter | `lib/rate-limit.ts` | `rate_limits` | one upsert per call | window edges | the window's limit holds |
| PNCP collection | `sync_tenders.py`, `sync_items.py`, `sync_awards.py`, `pncp.py` | `tenders`, items, awards, a watermark | sweeps | the watermark against failures | nothing is skipped |
| Telegram | `lib/telegram/*`, `telegram*.py` | `telegram_links`, `alert_deliveries` | link, alert sweeps | tokens reused, deliveries retried | one link per token, one delivery per alert |
| WhatsApp, e-mail | `whatsapp.py`, `email.py` | none of their own | sends | at-least-once | external |
| Batch AI and prices | `titles.py`, `ai_deep_analysis.py`, `catalog_prices.py`, `price_band.py` | result tables | jobs | data, not interleaving | out of scope |
| Accounts, profile, favourites, admin, screens | `lib/auth`, `lib/favourites`, `lib/admin`, `app/` | single-user rows | CRUD | none beyond the above | out of scope |

How they interact:

    web request --enqueueJob--> jobs --claim--> consumer --> handler --> ai_analyses, tender_files
         |                        ^                ^                          |
         +--POST /wake--> WakeSignal.notify -------+                          v
    scheduler tick --enqueue, notify--+               web GET poll <-- readScreening
    sync_tenders --enqueue--> sync_files --tender_files, then the events marker (delete, insert)--> web, job
    ai_screening --list--> tender_files;  --download--> PNCP;  --text--> tender_files, read by later runs
    web request --usage (spend)--> then readScreening, enqueueJob;  GET poll --usage (hasSpentOn)-->
    ai_screening, title_tender --allow, record_*--> the breaker of OpenRouter, in the worker's memory
    checkout, cancel --> Asaas --webhook--> subscriptions, payments, users.plan <-- nightly expire
    signup --founders_list + two jobs in one statement--> sign-in copies the seat to users

## 2. Modules

| Module | Models | Proofs |
|---|---|---|
| `JobQueue` | `queue.py`, the drain and execute of `consumer.py` | `JobQueueProofs` |
| `LiveJob` | what the queue promises for one (kind, key): its live row and the runs of its handler; `JobQueue` implements it, `Screening` is built on it | `LiveJobProofs` |
| `WorkerLoop` | when anybody looks at the queue: `WakeSignal`, `Consumer.run`, `Scheduler.tick`, `/wake`, `shutdown`, `enqueueJob`'s wake | `WorkerLoopProofs` |
| `FounderList` | what the signup promises: every transaction one step | |
| `FounderSeats` | the signup statement by statement, and `linkFounderSeat`; implements `FounderList` | `FounderSeatsProofs` |
| `Screening` | one tender's reading: web, job and the documents it downloads, and the sweep and `sync_files` under them | `ScreeningProofs` |
| `ScreeningMarkers` | `Screening` with a memory of the markers there have been | `ScreeningMarkersProofs` |
| `ScreeningCost` | the allowance a reading is charged to, the job that makes it and the circuit breaker its call goes through | `ScreeningCostProofs` |
| `Billing` | the paid plan of one account: checkout, cancel, the Asaas webhook, the nightly expiry | `BillingProofs` |
| `MC*` | the constants of the runs | |

Definitions named `Mutant of X` in a comment are variants of `X` that carry a plausible bug. No
specification uses them; each property is known to fail when one of them takes `X`'s place.

**JobQueue.** A row is an id; each column a statement reads is a variable. The two timestamps are
what the statements ask of them: `due` (run_after has passed) and `stale` (updated_at is older
than the stale limit). The worker is in autocommit, so a statement is a step, except the claim:
`SelectForUpdate` takes the row lock, `Claim` is the UPDATE and its commit, and `MarkDone` and
`MarkFailed` wait for the lock. `mark_failed` has three outcomes: spent, back in the queue, or the
unique violation of `jobs_dedupe`, which escapes from `execute` (`MarkFailedRefused`). `Lose` is a
dead container or a dropped connection. `Overrun` is a handler that is still running when its row
goes stale; nothing renews updated_at during a job.

**LiveJob.** The queue as whoever enqueues under one key sees it: the live row (`job`), the runs whose
claim it is (`holders`) and the runs between claim and outcome (`busy`). A run whose row somebody else
has settled is late; it may reopen that row while the key has no live one, and do nothing else.
`JobQueue` implements this for every key (`Contract`, `ImplementsLiveJob`), with `LiveRow`, `AtWork`
and `Holding` as the mapping. `Screening` has no queue of its own: it instantiates `LiveJob` and its
claims, outcomes and crashes are `Queue!` actions. `ScreeningCost`, which leaves overruns out, stays
within the same contract for each tender.

**WorkerLoop.** The queue is one state per key; attempts and row ownership are JobQueue's. A
consumer is a position in `run` and `drain`: the stop checks, the claim, `Event.wait` and
`Event.clear` are steps of their own because the signal is shared by all threads of the process.
The notify of a POST, of a tick and of the shutdown is the same `Event.set`. A drain may die on
the database before the claim; a handler's outcome that cannot be written is left to JobQueue.

**FounderSeats.** READ COMMITTED is in the model: `Select` takes the snapshot the insert reads and
`Write` runs it; the unique constraints read the index instead of the snapshot. Order of arrival is
`place`, the identity column. `Erase` is an operator's deletion: no code under `src/` does it, the
signup's comments expect it ("an LGPD erasure"), and it takes no lock.

**Screening.** A list of documents is a function from document numbers to versions, and its own
digest: `files_hash` is of the list as PNCP describes it, never of the bytes. `Publish` is the agency,
which replaces, adds or withdraws documents, or amends the tender and leaves them. The sweep sees the
tender changed and enqueues its `sync_files` (`Sweep`), or dies in between (`SweepDies`). The sync job is
`Fetch`, `UpsertFiles`, `PruneFiles`, `DeleteMarker`, `InsertMarker`, and may die after each; between
the upsert and the prune the table holds a list that nobody published. Both statements clear the
text of a row whose document is another one now (`Invalidated`).

The job is the live row of one dedupe key, an instance of `LiveJob`; `run[w]` is where a handler is,
and `Overrun` lets a second one start while the first is at work. `Claim` resolves the hash,
`ReadList` is the one read of the list that decides what is read and under which `key[w]` it is stored,
and then the run goes through the chosen documents by number, each in steps of its own. `UseText` finds
a text on the row as it is by now. `Download` gets what PNCP serves by now, from an address that the
next version of the document has too, and `Record` writes the text on the row of that number and
address: RECORD_SQL compares the url and nothing else. `content[w]` is what the run has read, and a stored
reading is the pair of key and content. The web's request is three calls: `Spend`, `ReadScreening`,
`EnqueueJob`; the viewer polls until the reading appears.

Since the key is of the list and the content is of the download, they can differ, and the code has
no way to tell. `overtaken` is a history variable that says when that is possible: a run used, downloaded or
recorded a document while the list on file, or at PNCP, was not the one it had read. Up to then
`ReadingMatchesItsKey` holds, through changed lists, half-written ones and texts kept by earlier runs.
After it there are two ways to a wrong reading. New bytes go under the old list's hash when the
errata is published and not yet synced; it stays where it is, and is served while that list is on file.
Old text goes on the new row when the sync falls between download and record; then the amended
list's reading is wrong for good, which is the run `ScreeningErrata`.

Left out of `Screening`: the quota (`ScreeningCost`'s; a viewer here is one it lets through), a PNCP that
lists no document, payloads with a document of their own, the `extract_text` job (a run that stores no
reading), two `sync_files` at once, the limit on the number of documents, documents whose address
changes, for which RECORD_SQL does what it says, and versions of the prompt and the extraction.
`ensure_documents` reads the marker and the list as one, and the executemany of `upsert_files` is one step.

**ScreeningCost.** The spender is one user or visitor and a request is one of their tabs. `Count`
is the snapshot of `spend`'s only statement and `Spend` is its insert and commit; `Respond` reads or
enqueues, `Poll` is the GET with its `hasSpentOn`. A row of `usage` is `<<tender, request>>`. No
statement counts a month that is over, so `Rollover` empties the set; `late` marks a statement that
began before, whose row will carry the old month's `now()`. The breaker's three fields are
variables, its methods (each under the lock) operators, and `Cooldown` is the passing of
`reset_after`. `ai_screening` takes the slot in `Call` and always reports; `title_tender` is there
because it shares the breaker, so its own queue is left out: `CallForTitle` is a title that got its
slot. `build_for` reports success or an http failure only for a title it was given. `Unreported` is the
other ways out: a rate limit, a rejected answer or an http error for a tender that has no fallback title
either, where `titles.build` returns None, and an exception in it, which nothing catches (`RaiseTitle`).
The breaker keeps no owner of the half-open slot; `prober` is the call that took it, and `lost` says that
this call has left without a report. `FailScreening`, `FailTitle`, `RaiseTitle`, `Kill` and `Restart`
share one bound, `MaxFaults`. Left
out: plans without a limit, which refuse nothing, the visitor's three-day window, and the documents,
which are `Screening`'s.

**Billing.** Every statement is keyed by one user or one of their subscriptions, so one account is
enough. `asaas`, `nextDue` and `due` are the provider's; `row`, `pay`, `plan` ours; `seen` is
`webhook_events`. A browser request is a position between the awaits of `startCheckout` (find,
create, upsert) or `confirmCancel` (Asaas first, our rows second), and `Die` may end it at any of
them. The receiver stores an event and applies it in one transaction that locks the subscription's
row: one step, `DeliverGrant`, `DeliverRevoke`, `DeliverRecord` or `DeliverEnd`. Each charge may be
the subject of every event, once, in any order; a redelivery finds its id stored and does nothing,
and an event of a subscription without a row is stored and never applied, as if it had not come.
The sync of the next charge after a grant is one step although it awaits Asaas, since its write
is a compare-and-set that repeats the check. `Expire` is the nightly statement. Left out: prices,
methods, the promotional date, analytics, and the reminders, none of which changes an entitlement.

## 3. Runs

| Run | Checks | Instance |
|---|---|---|
| `JobQueue` | six invariants, `FirstOutcomeStands`, `EveryJobSettles`, refinement of `LiveJob` for each key | 2 consumers (one dedicated to one key), 2 ids, 2 keys, 2 priorities, 2 attempts, 1 loss, 1 overrun |
| `JobQueueAttempts` | violates `AttemptsWithinBudget` | the same with 2 losses and no overrun |
| `WorkerLoop` | `WakeIsNotLost`, `DueRowIsClaimed`, `ShutdownEnds`, `NoNewClaimsAfterStop` | 2 consumers, 2 keys, 2 inserts; 1 failed drain, 1 lost post, 1 failed tick |
| `WorkerLoopDeduped` | violates `DedupedRequestIsHeard` | the same without refreshes and faults, 1 insert |
| `FounderSeats` | six invariants, `AccountSeatStays`, `LockIsReleased`, refinement of `FounderList` | 5 submissions, 4 addresses, 4 numbers, 2 seats, 1 erasure, 1 drop |
| `Screening` | `ReadingMatchesItsKey`, `ServesTheFiledDocuments`, `ReadingsAreKept`, `EveryAskIsServed` | 1 viewer, 2 runs of the job, 2 documents, 2 lists (the second replaces one document and withdraws the other), 1 errata, 1 fault of a run or a sync |
| `ScreeningMarker` | violates `RetiredReadingsStayRetired` | 1 run of the job, 2 errata, no faults |
| `ScreeningErrata` | violates `AmendedDocumentsAreRead` | 1 run of the job, 1 errata, no faults |
| `ScreeningCost` | `OverspendIsBounded`, `RefusalIsEarned`, `ProbeIsUnderWay`, `PaidIsRead` | 2 requests, 2 tenders (one already read), 2 consumers, limit 1, threshold 2, 2 attempts, 3 faults |
| `ScreeningCostProbe` | violates `ProbeReports` | the same |
| `Billing` | `PaidPlanIsPaid`, `ActiveIsPaid`, `OneLiveRow`, `PaidMonthsAreKept`, `RefundBuysNothing`, `EndedPlanIsReclaimed` | 2 subscriptions with 2 and 1 charges, 1 tab, a cycle of 1 day, 2 days, 3 stored events |
| `BillingExpiry` | violates `ExpirySparesPaidMonths` | the same |

Why the bounds are enough. In the queue two ids are what a late outcome needs to collide with (a
row and its successor of the same key), two attempts give both a retry and a last attempt, and one
overrun hands a row to a second consumer; the proofs cover every other number. Two threads are
what it takes to steal a wake, and the row inserted twice is both a fresh and a deduped one. Five
submissions contain a plain pair, the same number under another address, the same address with
another number, and one more person than there are seats. One errata takes the
list from the first to the second, through a list with the replaced document and the withdrawn one
still on it, and a sync that dies leaves it there; it meets each of two documents before its download,
between download and record, and after, and finds texts of runs that failed. A document that is
withdrawn makes a run meet a 404. Two documents are what it takes to read one before and one after an
errata. Two requests of
an allowance of one are the smallest overspend, and two failures open the circuit and leave a fault
for the probe or the process. Billing needs a second subscription for whatever one row can do to
another, a second charge on the first for a month paid beside a month refunded, and three events for
a grant, its refund and one more; a cycle of a day makes paid months run out within the calendar.
The proofs cover every other size.

The properties, in words, precede their definitions. The six violations are sentences of the
repository that the code does not keep; `PROJECT.json` quotes each under `findings`:

- *Attempts.* `requeue_stale` says a job whose consumer keeps dying reaches `failed` after four
  attempts. Only `mark_failed` knows the budget, so it never does.
- *Deduped requests.* `enqueueJob` sends no wake for a deduped row since whoever inserted it woke
  the worker. A row that came back from a backoff, or a background refresh, has woken nobody: the
  request waits for the poll, an hour by default.
- *Markers.* `screening.ts` says a missing marker can only hide less. Between the two statements
  of `mark_synced` the retired reading is served again.
- *Errata.* `documents.py` says of RECORD_SQL that a replaced document has a new address, so that an update
  for the old one must lose. `files.py` says that it has the same address. A sync between a run's download
  and its update gets the old text onto the new row; the next run reads it there and stores it as the
  reading of the amended list, which is never overwritten.
- *Expiry.* `billing.py` says who cancelled and subscribed again is not dropped by the expiry of the
  row they replaced. Once the second subscription is cancelled too, its paid month no longer counts
  and the first row's date ends it.
- *Probe.* `breaker.py` says a probe's result closes or reopens the circuit. A title that is rate-limited,
  that fails or is rejected where there is no fallback, or that raises, returns without a result; its
  slot is held until the process restarts or a call from before ends, and screenings behind the same
  breaker are refused meanwhile.

Met while modelling, and true of the models, without a run of their own:

- `quota.ts` has the limit hold under concurrency. Overlapping statements count the same rows, so
  the true bound is `Ceiling`: the limit less one plus the requests under way, which
  `OverspendIsBounded` states and the proof covers.
- `sync_files.py:70-71` says that after an errata the next request pays for a fresh reading. A request
  deduped against a run on the old documents is left without one; pressing the button again repairs it,
  which is what `EveryAskIsServed` assumes of the viewer.
- An errata can be passed over (`PassedOver`), and then nobody is served until somebody asks for the
  documents by hand or the agency amends again. The follow-up of its sweep is deduped against a sync that
  fetched the old list; or the sweep died, or the sync gave up; and a marker that was inserted after the
  errata looks younger than it, whatever list it names. `EveryAskIsServed` excepts this state.
- A reading paid at the end of a month is not shown by a poll after the month has turned:
  `hasSpentOn` looks at the current period only (`PaidIsRead` excepts it). The charge is never given
  back when a job gives up; pressing again is free within the month.
- A grant that arrives after its refund claims the payment again; a refund on a superseded
  subscription sets the plan to `basico` whatever the other one holds. `PaidPlanIsPaid` is one
  direction, and says nothing of the converse.
- An account that cancels, subscribes again and never pays keeps the plan on its `pending` row:
  `EndedPlanIsReclaimed` is about accounts without a live row.
- A refund after a cancel leaves the end where the cancel put it. A second checkout on a pending row
  stores a `nextDueDate` that Asaas has already advanced. A cancel that races a new checkout ends the
  new row here while Asaas keeps it.

## 4. Fairness

- `JobQueue`: consumer threads loop, handlers return or raise (every external call has a timeout),
  backoffs pass, each drain sweeps. Losses and overruns are bounded by constants, enqueues are
  not forced. The sweep is hourly and its consumer's kinds only, and weak fairness is all it gets.
- `WorkerLoop`: each thread's next step and the end of backoffs. No POST, tick, or shutdown
  notify is assumed to arrive, so `DueRowIsClaimed` and `ShutdownEnds` rest on the poll alone.
- `FounderSeats`: only a transaction that has begun goes on; no one must submit the form, and the
  lock is not granted fairly.
- `Screening`: the sweep runs, `sync_files` jobs go on, and the worker goes on with the runs of this key as
  a whole: some step of some run, or the stale sweep, never every run (`Consume`). A viewer's calls and poll go
  on, and one whose poll finds nothing asks again (`Persist`). Nobody is assumed to enqueue a `sync_files`: the
  only ones are those of a sweep that did not die and of `ensure_documents`. Faults and errata are never forced.
- `ScreeningCost`: a request goes on and presses again while it waits; each consumer's handler goes
  on; backoffs, the stale sweep and the cooldown come to pass. Nothing is assumed of titles, which are
  claimed only when no reading is due, nor of the turn of the month.
- `Billing`: the nightly `Expire` alone. No event is assumed to arrive and no day to pass.

## 5. Proofs

All theorems hold for every value of the constants that meets the module's named assumption, and
are proved in `*Proofs` with an inductive invariant `IInv`:
`Init => IInv`, `IInv /\ [Next]_vars => IInv'`, and the property from `IInv`.

- `JobQueueProofs`. None of the properties is inductive alone: a late outcome is written by id, so
  the invariant ties each consumer's claim to the row. A busy consumer's attempt is not above the
  row's count (`ClaimShape`), a row has one locker and the locked row is queued
  (`LockIsExclusive`); before the first overrun a busy consumer's row is running, fresh and on its
  attempt (`OnTime`); and a settled row somebody still works on was claimed twice
  (`SettledUnderWork`), which is why a row settled on its first attempt has nobody left to reopen it.
  `ClaimsAreExplained` needs an induction of its own: `attempts` goes up at a claim, but what decides
  whether there is another claim is an outcome recorded much later and possibly of another attempt.
  So `Budget` adds up, for each row, its attempts, the claim it is certain to get (`ToBeClaimed`) and
  the attempts that may still be answered with a retry (`Retries`), and bounds the sum by
  `MaxAttempts + losses + overruns`: claims, retries and sweeps move the terms, and only a loss or an
  overrun adds to them.
- `LiveJobProofs`. Every step of the queue is, for each key, a step of `LiveJob` or a stutter. A step of
  another key leaves the mapping alone; within the key, `OneLiveJobPerKey` makes "the row I claimed is
  live" and "I hold the live row" the same thing, which is what confines an outcome written by id. The
  branch of `mark_failed` that reopens a settled row is a step only because `Collides` refuses it
  while the key has a live row.
- `WorkerLoopProofs`. A wake is not lost because a raised flag always means that some consumer
  that can still meet it, or one that is on its way to the queue, exists (`FlagWakes`); the rows
  that a notify answered for are due (`NotifiedIsDue`); a stopped consumer implies stop.
- `FounderSeatsProofs`. Whoever is inside the transaction holds the lock, so a snapshot taken
  under it can only contain more than the committed list, by erased rows. That makes a free seat
  of the snapshot free in the index. The same invariant gives the refinement: every step is a
  `Join`, a `Leave` or a stutter. `PositionHolds` counts rows of a list that grows and shrinks; beside
  `IInv` it takes that a new row has the last id (`PlaceInv`) and was told a place no better than the
  one it will have (`PendingTold`), so a commit moves nobody's rank and a deletion only lowers it.
- `BillingProofs`. `TypeOK`, `PaidPlanIsPaid`, `ActiveIsPaid` and `OneLiveRow` are inductive
  together. The work is in the dates: `LastPaidDay` and `Refreshed` choose the greatest and the least
  of a set of days, so two lemmas, by well-founded induction on the naturals, first show that these
  exist; `PaidMonthsAreKept` and `RefundBuysNothing` follow step by step from what `LastPaidDay` bounds.
- `ScreeningCostProofs`. A row being held by one handler at a time bounds the claims (`JobsAreHeld`),
  which `TypeOK` needs. The ceiling is not inductive alone: a statement that has counted is as good as
  a row, so the invariant adds those pending to the rows (`Budget`), and a month counted as full stays
  full (`NoRoomIsFull`), which is what makes a refusal earned.
  `ProbeIsUnderWay` is inductive beside `TypeOK`: whoever clears the slot, late or not, clears its owner
  too, and the owner leaves it taken only by a step that sets `lost`.
- `ScreeningProofs`. The invariant has three parts. Of the documents on file: a sync under way has a list that
  was published, the marker is the list on file unless a sync is between its statements or one has died
  (`MarkerIsCurrent`), nothing is read before the first sync (`NeverSynced`), and until a run is overtaken a
  row's text is of the document listed there (`RowsAreListed`). Of the runs: the key is the list the
  documents were chosen from, the model is asked about all of them (`RunsAreTidy`), and until a run is overtaken
  what it has read is of that list (`RunsReadTheirList`). Of the readings: the newest is a stored one, and
  `ReadingMatchesItsKey`. Texts pass from run to run over the rows while lists change under both, so none of
  the three is inductive without the others. `KeepsToTheContract` is the simulation of `LiveJob`; from it, a holder is
  at work and a settled row is held by nobody, and before the first fault there is one run at a time.
- `ScreeningMarkersProofs`. With the history of markers, the marker there is was never superseded by
  another, and without one a sync is between its two statements or has died (`MarkerIsLatest`).

Where a finding ends is proved beside it, so that each violated sentence has a true one:

| Violated | What holds | Theorem |
|---|---|---|
| `AttemptsWithinBudget` | with no loss and no overrun the budget holds; with them it is exceeded by at most their number | `BudgetHoldsWithoutFaults`, `ClaimsAreAccountedFor` |
| `DedupedRequestIsHeard` | while no post, drain or tick is lost, a request deduped against a row on its first run is heard | `DedupeIsSafeOnFirstRuns` |
| `RetiredReadingsStayRetired` | a retired reading is served only while a sync is between delete and insert, or after one has died | `TheGapIsTheOnlyWay` |
| `AmendedDocumentsAreRead` | every reading is of the documents of the list it is stored under, until a run has touched a document of a list that is not the current one | `ReadingsMatchTheirKeys` |
| `ExpirySparesPaidMonths` | the expiry takes no paid day from an account with one subscription | `ExpiryIsExactForOneRow` |
| `ProbeReports` | the slot is in the hands of the call that took it, unless that call was a title's and has left without a report | `SlotIsHeldByItsProbe` |

Every safety invariant and action property of the passing runs is proved. Only model-checked: the
liveness properties (`EveryJobSettles`, `DueRowIsClaimed`, `ShutdownEnds`, `LockIsReleased`,
`EveryAskIsServed`, `PaidIsRead`, `EndedPlanIsReclaimed`), since fairness and ENABLED are out of the
prover's reach, and the violations. Of `EndedPlanIsReclaimed` the part that is safety is proved: an
account that is over always has a row the sweep selects (`SweepFindsTheOver`), because every entitled
payment stays under a row that was written (`Accounted`).

## 6. Not modelled, and the plan

The order of the modules was: the queue and who looks at it, the signup, the reading, its cost and
the breaker, the paid plan. What would come next:

1. `Scheduler`: the calendar (`next_due`, a key per entry and day), restarts and two processes.
   `WorkerLoop` has the tick's inserts and its notify only.
2. The snapshot of `expire_subscriptions` as a step of its own against a webhook's commit, and the
   billing notices: a claim committed before its enqueue.
3. `Telegram`: the token used once, and a delivery marked when it is queued and not when it is sent.
4. The PNCP sweep: pages of idempotent upserts behind a watermark that moves when all are in.
5. Answers of PNCP that withdraw every document, and `extract_text` beside the readings, in `Screening`.

Each is one hazard or two; all are in `PROJECT.json` with their line. A second errata, which brings
the list back to the first one, is within the proofs and in the run `ScreeningMarker` only.

Not planned: mappings of PNCP data, prompts and extraction, prices and catalogue statistics, the text
of titles, templates, accounts, favourites, admin pages and screens. They are most of the repository's
lines, and they are data transformations, single statements on one user's rows, or rendering: the
hard part is the content and not the order of events. The rate limiter is a counter in one upsert.
WhatsApp, e-mail, Asaas and PNCP themselves are external.
