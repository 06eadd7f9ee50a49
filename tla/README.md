# A TLA+ development of the Messenger fortune bot

The repository is a Facebook Messenger bot: a FastAPI web service that receives
webhooks, and worker processes that answer, render and deliver from a queue kept
in PostgreSQL (`render.yaml` starts one web service and four workers). Nearly
everything that can go wrong does so between two database transactions: the
queue's rows, the session row of a sender, the support ticket, the order and the
webhook dedupe row are each read in one transaction and written in another, by
processes that crash, overrun their leases and repeat what was already done. The
modules here model those protocols.

The portfolio version of the repository stubs some modules out (bodies that raise
`NotImplementedError`): the turn handler, the premium pipeline, the chart engine,
the job handlers. Where other code uses them they appear as a choice of results.

Contents: [1 The system](#1-the-system) ·
[2 The modules and the code](#2-the-modules-and-the-code) ·
[3 What TLC checks](#3-what-tlc-checks) ·
[4 Fairness](#4-fairness) ·
[5 What is proved](#5-what-is-proved) ·
[6 Disagreements found](#6-where-the-code-and-its-comments-disagree) ·
[7 Limits of the model](#7-what-is-not-modelled-and-what-the-models-assume) ·
[8 Plan](#8-plan)

## 1 The system

```
 Meta ──POST──> api/messenger.py ── claim mid ──> webhook_dedupe
                  │ background task
                  v
            inbound_batcher (memory of the web process: batch, timers)
                  │ on_flush
                  v
            turn handler (stub) ── load/save ──> messenger_sessions  <── payloads,
                  │ enqueue_with_status                ^                 donations,
                  v                                    │ commit_guard    CTA patches
                jobs  <── claim/settle/reap ── worker slots ── send ──> Meta
                  ^                                    │
   admin cancel ──┘      execute_support_handoff ──────┴──> support_tickets,
                                                            conversation owner
```

### 1.1 Components

| Component | State | Operations | Hard behaviour | What makes it correct |
|---|---|---|---|---|
| Job queue (`workers/queue.py`, `runner.py`) | table `jobs`; the row each worker slot holds | enqueue, lookup, claim with `SKIP LOCKED`, complete / fail / fail terminally / cancel, reclaim, purge | slots of several processes; a lease that nobody renews; a settlement that writes by id; a crash or a failed write after the handler's effects | bounded starts, one execution at a time, no retryable row without an attempt left, every job ends |
| Producers (`enqueue_with_status`) | keys and retry keys | look up, insert, look again, in separate transactions | racing producers, workers and the purge between any two of them | one row per key, a retry only of a dead job, final answers stay true |
| Worker loop (`runner.py`, `retry_budget.py`) | stop flag, slots, clock of the last reap | poll kinds in order, serial and concurrent, reap, shut down | order of kinds, deaths with jobs in hand, a reaper that comes between passes only | no kind starves, a lost job becomes due again, the signal stops every slot |
| Session store and guard (`messenger_state_db.py`, `generation_guard.py`) | row of `messenger_sessions`; `generation_id`; the guard of a turn | load-or-create, whole-row save, save if the generation is current, reset, bump, reaffirm, check before send, column patches | snapshots that outlive a reset, a row deleted under a turn, writers outside the guard | a superseded generation never returns, no old content after a wipe, a superseded turn does not answer |
| Busy gate (`busy_gate.py`) | busy mark: four columns of the session row | claim, verify, release, send a notice once | the mark expires under a turn; the notice is sent before it is marked | one turn at a time, a release only of one's own mark |
| Webhook intake (`api/messenger.py`, `event_dedupe_db.py`) | `webhook_dedupe`; background tasks | claim a message id, process later, purge after 24 h | repeated posts, a failed claim counts as claimed, restarts after the claim | processed once, and not lost without a restart |
| Inbound batcher (`inbound_batcher.py`) | per sender: messages, two clocks, a timer | enqueue, fire, flush, cancel | timers that went off before they were cancelled, flushes after the lock is released | no message waits without a timer, none twice, flushes respect the quiet window |
| Feedback and progress (`messenger_processing_feedback.py`, `job_progress.py`) | a thread per sender in a registry, `job_progress_sent` | begin, stop, stage messages, queued ack | overlapping attempts of one turn; a stage recorded before it is sent; a join that gives up | no stage twice, a lost one only with its sender; an ack before the end of its turn |
| Support handoff (`support_service.py`, `conversation_owner.py`) | ticket with stage timestamps, conversation owner | ensure ticket, take over, confirm, mark | retries and overlaps; each step may fail | once per request, told only after the takeover, success means done |
| Orders (`order_service.py`, `user_profile_flags.py`) | order status, paid flag of the profile, order of the session | create, submit, verdict, mirror, open the checkout | status read and written in two transactions; the order remembered by a whole-row save | verified falls only to a stale reader, one order at a time, paid only if confirmed |
| Donations (`donate_service.py`, `admin_v9.py`) | donation report, grant in the session | report, verify, reject | two transactions, the second one's failure swallowed | supporter only if an operator confirmed |
| CTAs and free usage (`support_cta_service.py`) | metadata in the session row | decide, send, patch; charge once per reading | patched after the send; one remembered charge id; whole-row saves beside both | CTAs keep their distance, charges are counted |
| Delivery (`delivery_progress.py`, `async_job_metadata.py`, `combined_pipeline.py`) | stages, job notes and the lock of the birth date in the session's document | begin, defer, advance, stick, complete, recover | notes of one generation on the progress of another; buttons that go around the lock | the delivery is of the date it began with, a session in ANALYZING has a job of its generation |
| Birth data and confirmations (`birth_profile_guard.py`, `profile_transition.py`, `payload_handler.py`, `intent_confirmation.py`) | birth data, pending profile, pending intent | merge, ask, promote, decline, correct, edit | an old button pressed in a later state; somebody else's data in a later message | nobody else's data unasked, the chart is of the session's date |
| Rendering (`paginator.py`, `renderer.py`, `sender.py`) | pages of one text | clean, cut, merge, draw, send with retries | cuts and merges at limits; an answer that is lost | no letter lost or moved, pages fit, cards show them, copies only by lost answers |
| Media (`media/*`) | asset row, stored object | download, validate, store, enter, undo | steps without a common transaction, each may fail | no usable row without its object, no object unaccounted for |
| Erasure and reset (`data_subject_service.py`, `customer_data_reset.py`) | rows of twenty tables | delete, anonymize, reset all | runs under turns and jobs in flight; an error inside the transaction | all or nothing, no resurrection |
| Cleanup and migrations (`cleanup_worker.py`, `db_init.py`, `main.py`) | cutoffs; advisory lock, `schema_migrations` | delete by age; bootstrap | tasks share a transaction; legacy files committed one by one; processes that start at once | a report of success is true, what serves after a bootstrap is whole, none fails for another's sake |
| Abuse and scope limits, sanitizers, metrics, logs | counters, none | - | - | out of scope: no protocol between steps |
| Admin portal (`admin_portal.py`, `admin_v9.py`) | admin sessions, audit | cancel a job, verify, resolve | acts on a status read earlier | cancelling never revives a job |

`PROJECT.json` lists every component with its status, and under `hazards` every
place where the code is hard to test, with its line.

### 1.2 How they interact

* The web process and the workers share nothing but the database. The batch,
  its timers and the background tasks die with the web process.
* The queue hands one row to one slot. The handler reads and writes the session,
  the ticket and other tables in transactions of its own, so a second execution
  of a job sees whatever the first one left.
* A chat turn is pinned to the session's `generation_id` at enqueue. Everything
  that supersedes it (a reset, a correction, a deletion) changes or removes that
  id; the turn compares before it writes and before it answers.
* Payload handlers, the support handoff, donations, debug capture and the admin's
  recovery save a session they loaded earlier, whole, and without that comparison.
* Staff, operators, erasure requests and the cleanup act on the tables at any time.

## 2 The modules and the code

Every definition that stands for code has its file and lines under `map` in
`PROJECT.json`. A definition whose comment starts with "Slip" is a plausible
mistake in the definition below it; nothing uses it, and it serves to see that a
property notices the mistake.

| Module | Models | Built on |
|---|---|---|
| `BoundedRetry` | what the queue promises: phases, starts, budget | - |
| `JobQueue` | `queue.py` statements, `runner._process_one` | implements `BoundedRetry` |
| `JobProducers` | `enqueue_with_status` in its three transactions | extends `JobQueue` |
| `JobAdmin` | `admin_cancel_job`: read, then write by id | extends `JobQueue` |
| `SessionStore` | load, save, reset, guard, erasure of one session row | - |
| `InboundBatcher` | `InboundBatcher` for one sender | - |
| `Inbound` | webhook, dedupe table, tasks, restarts | extends `InboundBatcher` |
| `SupportHandoff` | `execute_support_handoff` | - |
| `BusyGate` | the busy columns: reject, claim, verify, release, notice | - |
| `Payments` | orders, verification, donations, entitlement, beside one session row | - |
| `Commerce` | support CTA and free usage: patches beside whole-row saves | extends `Payments` |
| `Paginator` | cleaning, cutting and merging a text into pages | - |
| `Cards` | what a card shows of its page, and the send with its retries | extends `Paginator` |
| `Profile` | birth data of one session: messages, corrections, switches, buttons | - |
| `Reading` | stages, delivery, job notes, combined analysis, recovery | extends `Profile` |
| `Progress` | feedback threads and stage messages of a turn's attempts | - |
| `Worker` | slots, kinds, reaper, signal, deaths | extends `Progress` |
| `Bootstrap` | processes that start at once: lock, legacy files, migrations, backfill | - |
| `Maintenance` | cleanup, erasure, anonymization, reset: one transaction over many tables | extends `Bootstrap` |
| `Media` | uploads of pictures, storage and table of assets | - |
| `*Proofs` | theorems; `TextProofs` has the lemmas about texts | extend their modules |
| `MCUsage` | the charges made so far, beside `Commerce` | extends `MCCommerce` |
| `MC*` | symmetry sets, small inputs, and what a behaviour is about. Three run two modules that share no variable, one per behaviour: `MCCommerce` with `SupportHandoff`, `MCReading` with `BusyGate`, `MCMaintenance` with `Media` | extend their modules |

**`JobQueue`.** `row` is the table, `slot` what each worker slot holds between the
claim and the settlement: the id, and the attempt and `max_attempts` the claim
returned, which `fail_job` compares without reading them again. Each SQL statement
is one action with its `WHERE` clause as guard. The settlements update by id
alone, which `Overwrite` says: it writes over whatever the row is by now.
Time is two comparisons, `due` (`run_at <= now()`) and `lease`
(`locked_until < now()`). `CompleteRaises` follows the `try` block of
`_process_one`: when `complete_job` raises, the same row is failed. `MayOverrun`
is the one assumption about handlers: whether one can outlive
`LOCK_TIMEOUT_SEC` (180 s), which nothing in the code prevents or renews.

**`JobProducers`** gives `JobQueue` the effective keys `<<base, token>>` and adds one
`call` per producer, with a program counter between the transactions. A lookup that
raises counts as "not found", as in the code.

**`JobAdmin`** adds `seen`, the row whose status the portal read, and runs under the
queue's whole next-state relation.

**`SessionStore`.** A snapshot is its generation and its *descent*: `basis` is the
number of the last wipe (creation, reset, correction, deletion, anonymization)
before its content was written. That is all the properties tell apart, and it
replaces the row's columns and JSON. `objs` are the session objects an actor still
refers to; `basis = 0` is one cleared in memory and not yet saved. `retired` and
`bypassed` are ghosts: generations the row was moved away from, and whether
anybody wrote the row in a way the guard cannot see. The turn handler that calls
the guard is a stub in this repository, so a turn may call load, bump, save,
reset, reaffirm and check in any order; only `reaffirm_commit_guard` is
restricted, to the place its docstring gives it (right after the turn's own
write of a new generation).

**`InboundBatcher`** is one sender's batch: no state is shared between senders but
the lock. Every section under the lock is an action, a fired timer waits for it
in state `fired`. Clocks are ages that stop at the limit they are compared with,
so time is unbounded in a finite model. `enqueue` takes its `now` at the call and
`_schedule_timer_locked` reads the clock again; `late` is the second that may
pass between the two. `NewTimer` takes any idle timer; if there were too few TLC
would stop with an error.

**`Inbound`** puts the webhook before it: `TryClaim` has the three outcomes of
`try_claim_webhook_delivery` (inserted, present, error, which counts as claimed),
`RunTask` is the background task, `Restart` loses tasks, timers and batch and
keeps the table. `PurgeDedupe` is the daily cleanup and also an erasure, which deletes
the sender's rows of the table. `unsure` (a claim that failed or was purged) and `missed` are ghosts.

**`SupportHandoff`** is one ticket and several executions of its request. The ticket
is read once (`row`) and every later decision uses that copy. Each effect (takeover,
confirmation) may happen and still be reported as failed. `excused` is a ghost: an
execution was cut between an effect and its mark, two overlapped, or the ticket
was deleted. The error texts sent after a failure change no state and are left out.

**`BusyGate`** is the mark in the session row and everybody who reads it. A request draws
one owner id, so the request stands for the id. `reject_if_busy` reads, sends and
marks in three steps; `claim_busy` is one conditional update; the job verifies,
works and releases, and the queue may run it again or twice at once. Between `young` and
`old` a mark is `disputed`: readers compare its start with the clock of their
process and `claim_busy` with the database's, so either may be ahead. `lost`, `released`, `told`
and `excused` are ghosts. A job without an owner id, which the verification lets
through, is not modelled: who would enqueue one is in the stubbed turn handler.

**`Payments`.** One sender's session row, their orders and donation reports, and calls that
stop between transactions: a call holds the snapshot it loaded, the status it read or the
verdict it is to write. `SaveSession` writes the whole row, `GuardedSave` only if the
generation is the snapshot's. The fields kept are those the entitlement is computed from.
`past` is a ghost: what an operator has confirmed, and the lapses that excuse a second
order, CTA or charge (a whole-row save took the row's knowledge of the first one away).

**`Commerce`** adds days, the CTA's metadata and the usage counter to the same row and calls.
`ShouldSendSupportCta` is the decision over the loaded snapshot; the send follows, then the
patch, which merges into the row if the generation is still the one loaded. `ChargeFreeUsage`
is one `UPDATE` with its remembered charge id.

**`Paginator`** is the pure part of rendering over texts of six classes of characters (letter,
space, newline, digit, full stop, markup). Every stage is a function on sequences: the cleaning,
the cuts, the orphaned markers, the merges of short pages, the fallbacks. `layout.py`, the pixel
measurement, is a stub; `Height` and `SplitByPixels` are what its callers rely on.

**`Cards`** draws each page as far as it fits and sends card by card: `PostCard` is one attempt,
whose request or answer may be lost.

**`Profile`** is one session's document about birth data, with the classification of a message (a
stub) as an input. A subject is the customer, somebody else, or nobody in particular; dates
are a set of model values (`Dates`). Each handler is one action over the document, because
its steps hold the session object between load and save and nothing else reads it then.

**`Reading`** adds what the workers write: stages, delivery, job notes. A job that works on the
document carries the generation it began with, and its notes reach the delivery only if the
document says so (`ResolvePs`, `ResolveDp`). Notes of a generation that is gone are swallowed
until the next `init_delivery_progress`. The recovery uses the overview's old generation, as the
portal does.

**`Progress`** has one run for each attempt of a chat turn, and one feedback thread for each run. A
run either uses the registry of its sender or owns a feedback whose ack goes through
`make_queued_ack_sender`; only the second kind is recorded and counted. The registry's lock
is a variable of its own since `begin_processing_feedback` holds it through a join. `late`,
`lost`, and `gaveUp` and `takenBy` of a feedback are ghosts. The check of the generation and the insert of the row are one
action: a generation only moves on, so a check that succeeded earlier gives the same rows.

**`Worker`** polls the kinds in order in each slot. Of other jobs only whether one of the kind is
due or stale is kept, `JobQueue` has the rest. The two loops differ in who reaps: after a pass
(serial), or the main thread (concurrent). `reclaim_stale_jobs` catches its own errors, so neither loop ends
with one: it is called again a minute later. `Dies` is a death of the process, which is started again.

**`Bootstrap`** follows each process through `lifespan` and `run_schema_bootstrap`. `files` is any
subset of the legacy SQL files, none of which is in the repository and which are skipped with a
warning if they are missing. `applied` and `schema` are the tables and the recorded versions,
`lock` the session-level advisory lock, which a process keeps after an error in the legacy files
(the unlock fails in the aborted transaction) until it is gone. `half`, `filled` and `own` are ghosts.

**`Maintenance`** adds the operations: `Script` gives each one its tables in order. A transaction is
`aborted` by its first error; later statements fail, and its commit rolls back and raises nothing.
Deletion, anonymization and reset are each one `conn.transaction()`; the cleanup goes on after an error in a task.
`spared` is a ghost: what a turn wrote after the operation's statement for that table.

**`Media`** gives each upload its asset id, so the id stands for the upload. `objects` is the storage and
`assets` the table. `unsure` (a commit whose answer was lost), `left` and `removed` are ghosts that say why the two differ.
`old` is one clock for the three limits of seven days (the row's `expires_at`, the cleanup's cutoff, the policy's age).

## 3 What TLC checks

| Run | Instance | Shows |
|---|---|---|
| `JobAdmin` | 2 rows, 2 slots, budget 2, overruns, an operator, fairness | `ClaimsAreCounted`, `OnlyTheRunnerUndoesCancel`, `JobsSettleOrStrand` |
| `JobProducers` | 3 producers, 1 base key, 1 retry token, 3 rows, 2 slots, budgets 1 and 3, no overrun | `SingleExecution`, `RowsAgree`, `AnswersHold`, `WaitersHaveAJob`, and every step is one of `BoundedRetry` |
| `Overrun` | 1 row, 2 slots, budget 3, overruns, an operator | violated: `TerminalIsNeverRetried` (section 6) |
| `SessionStore` | 2 turns, 2 writers, 3 generations, erasures below epoch 3, up to the first bypass | `RetiredStaysRetired`, `ContentIsCurrent`, `OnlyCurrentTurnsPassTheCheck` |
| `Inbound` | 2 messages, 2 posts each, 4 timers, quiet 2, wait 3, batch of 3, 1 restart, fairness | `BatchIsOnItsWay`, `HandedOnce`, `TimersWaitForQuiet`, `ClaimedGetsThrough` |
| `Commerce` | 2 callers, 2 orders, 2 reports, 2 generations, 3 days, limit 2, 2 charges; or 3 executions of a support request, 2 returns to the bot, 1 deletion | `PaidIsEarned`, `OneOrderAtATime`, `VerifiedFallsOnlyToAStaleReader`, `UsageIsCounted`, `CtaKeepsItsDistance`; `OncePerRequest`, `HandoffIsWhole` |
| `Usage` | the instance of `Commerce`, the usage in use | violated: `DuplicatesAreRefused` (section 6) |
| `Cards` | every text up to five characters of six classes, alone or beside another, both profiles, 2 attempts to send | `NothingIsLost`, `PagesAreShown` (= `PagesFit` and `CardsShowTheirPages`), `CopiesAreExplained` |
| `Reading` | one session, two dates (symmetric), messages of every subject, 2 generations; a behaviour is about the dialogue, the delivery or the jobs; or about the gate, with 4 messages, 2 slots, 1 forced clear or deletion | `OthersStayOut`, `ChartIsOfTheDate`, `DeliveryIsOfTheDate`, `AnalyzingHasAJob`; `OneTurnAtATime`, `OverIsOver`, `NoticesAgree` |
| `Worker` | 2 slots or one, 2 kinds, 2 attempts, 1 stage and the queued ack, 1 death, fairness | `StagesAreToldOnce`, `AcksComeInTime`, `WorkGoesOn` |
| `Maintenance` | 2 processes, 3 migrations, 1 death, the tables that matter for each operation's order, fairness; or 3 uploads, each failing or cut anywhere, purge, erasures, the storage's policy | `BootsAreSound`, `BootsEnd`, `ReportsAreTrue`, `DeletionsAreWhole`; `AssetsAgree` |
| `Cleanup` | the instance of `Maintenance` | violated: `CleanupTasksAreIsolated` (section 6) |

Why these bounds are enough to meet the interesting cases:

* **Queue.** Two slots and one row are all a zombie needs; the second row meets
  the reaper's and purge's many-row statements and the key of a deleted row being
  used again. Budget 1 makes the first claim the last, 3 (2 in `JobAdmin`) leaves
  attempts in between. The queue is checked under its producers and under the operator, whose next-state relations
  contain the queue's own.
* **Producers.** Three, so that one can hold a stale lookup while the second
  inserts, the job dies, and the third retries it. Three rows: the base row, the
  retry row, and one inserted after a purge.
* **Session.** A turn needs one generation to be pinned to and one that replaces
  it; the third is another turn's. Two writers race the creation of the row (both
  find none), beside a turn. After a bypass (section 6) the invariants claim nothing, so
  the `CONSTRAINT` stops there; the state of the bypass itself is still checked.
* **Inbound.** `MaxWait > Quiet`, so that both limits flush; up to four enqueues (two
  of them of unsure repeats) fill a batch of three and one more; four timers
  because each enqueue arms one at most. One restart, because the process keeps
  nothing over it.
* **Handoff.** Two executions overlap, the third comes after both; the owner is given
  back twice, so also after a second takeover.
* **Gate.** One message is worked on, a second takes over its expired mark, and two are
  turned away at once; two slots run one job twice or two jobs.
* **Commerce.** Two calls overlap in every pair of steps and each goes on to another. Two orders and
  reports, so that one can be confirmed while the other is not; two generations, so one reset.
  The interval of the CTA is two days, and three days let it be too early, in time, and early again. The MC
  module keeps one service in use beside turns, payloads, resets and erasures.
* **Cards.** The limits of the instance are a few characters, so that five characters meet every cut,
  merge and overflow; the second text makes pages of several sections.
* **Reading.** A correction takes a second date and a second generation, against which notes of the first
  arrive late. One session suffices: documents of different senders share nothing. Each behaviour is about
  one topic, and what the others keep in the document rests, but for the overview and its
  pages: a recovery needs them, and it enqueues in the topic of the jobs. The theorems have no such limit.
* **Worker.** Two slots hold two attempts of a turn at once; two kinds are an earlier and a later one. One death
  comes in any state. A behaviour is about the turn (the other
  kind rests) or about other jobs (the turn is settled), which only share the slots.
* **Maintenance.** Two processes race every step of the bootstrap and a third would only repeat one of
  them. The first migration creates the profiles and the last one alters the sessions. One operation at a
  time, because two of them share rows only, each in a transaction of its own.

* **Media.** Uploads share nothing but the statements of the purge and the erasure; three are one left behind, one erased
  and one in use.

`CHECK_DEADLOCK FALSE` stands in every configuration because these systems may
stop: rows, generations, messages and executions are finite and each is used up,
and a queue without a job rests. Progress is stated by the leads-to properties instead.

Bounds in the models: `Id` (rows never reused), `Budgets`, `Gen` (each drawn once),
`EraseBound`, `MaxPosts`, `MaxDeaths`, `Timer`, `MaxReturns`, `MaxDeletions`, `MaxClears`, `MaxOrder`,
`MaxReport`, `MaxGen`, `MaxDay`, `MaxAttempts`, `MaxFaults`, the length of texts, and that a writer, turn or
execution runs once.

## 4 Fairness

* **Queue** (`JobQueue!Fairness`): an eligible row is claimed by some slot (the poll loop
  goes on after an error, `runner.py`), `run_at` and the lease pass, handlers
  return, a settlement is written or fails, and the reaper runs (every 60 s in
  each loop). Nothing is assumed of producers, crashes, deletions or operators. A
  claim takes the oldest row of the kind polled; weak fairness for each row is
  justified because ids are finite: earlier rows run out. That no *kind* starves
  depends on the poll loop's order: `Worker` shows it.
* **Inbound**: timers go off, waiting threads get the lock, callbacks return,
  background tasks run, time passes. Nobody has to cancel, post again or restart.
* **Worker**: threads run and handlers return (weak fairness of each slot and each run's or thread's
  next step), the concurrent main thread leaves its loop after the signal, and the reaper runs when it is due
  again and again, in the serial loop not after every pass (strong fairness): an error of its statement is
  caught and the next minute calls it again, and it is enabled unless `REAPER_ENABLED` says otherwise. Nothing promises work, faults or a signal.
* **Maintenance**: the steps of a bootstrap, with strong fairness, because PostgreSQL's queue for an advisory
  lock is first in, first out. Nobody has to start a process or an operation.

The other modules state safety only.

## 5 What is proved

TLAPS checks these for every value of the constants (any number of rows, workers,
keys, messages, timers, executions, any budgets and limits), under nothing but
the `ASSUME`s of the modules; those marked (*) also assume `~MayOverrun`, those
marked (**) that the readings are `Legible`, which `MCCards` checks of its own.

| Theorem | States |
|---|---|
| `JobQueueProofs!TypeCorrect` | `TypeOK` |
| `JobQueueProofs!BudgetKept` | `AttemptsWithinBudget` |
| `JobQueueProofs!AttemptsIdentifyExecutions` | `ClaimsDistinct` |
| `JobQueueProofs!ExecutionsAreCounted` | `ClaimsAreCounted`: both of them |
| `JobQueueProofs!OneExecutionAtATime` (*) | `SingleExecution` |
| `JobQueueProofs!RetryablesCanBeRetried` (*) | `RetryableHasBudget` |
| `JobQueueProofs!OutcomesAgree` (*) | `OutcomeMatchesStatus` |
| `JobQueueProofs!RowsStayConsistent` (*) | `RowsAgree`: both of them |
| `JobQueueProofs!QueueImplementsContract` (*) | `ImplementsBoundedRetry`: the queue refines its contract |
| `JobQueueProofs!AnswersStand` (*) | `AnswersHold` = `KeysAreExclusive` and `FinalAnswersHold`, of `ProducersSpec` |
| `JobQueueProofs!WaitersKeepAJob` (*) | `WaitersHaveAJob`, an action property of `ProducersSpec` |
| `JobQueueProofs!ProducersUseTheQueue` | `ProducersSpec => Spec`: what is proved of the queue holds beside its producers |
| `JobQueueProofs!ProducersKeepTheContract` (*) | `SingleExecution`, `RowsAgree` and `ImplementsBoundedRetry`, of `ProducersSpec` |
| `JobQueueProofs!CancellingKeepsCounts` | `ClaimsAreCounted` beside operators, of `AdminSpec` |
| `JobQueueProofs!CancelledJobsStayDown` | `OnlyTheRunnerUndoesCancel`, an action property |
| `SessionStoreProofs!StoreTypeCorrect` | `TypeOK` |
| `SessionStoreProofs!RetiredStays` | `RetiredStaysRetired` |
| `SessionStoreProofs!ContentStaysCurrent` | `ContentIsCurrent` |
| `SessionStoreProofs!TurnsAreCurrent` | `OnlyCurrentTurnsPassTheCheck` |
| `InboundProofs!InboundTypeCorrect` | `TypeOK` |
| `InboundProofs!BatchKeepsMoving` | `BatchIsOnItsWay` = `PendingIsTimed` and `OverfullIsFlushed` |
| `InboundProofs!HandedOverOnce` | `HandedOnce` |
| `InboundProofs!StaleTimersWait` | `TimersWaitForQuiet`, an action property |
| `WorkerProofs!HandoffTypeCorrect` | `TypeOK` |
| `WorkerProofs!HandoffIsComplete` | `HandoffIsWhole` = `ConfirmedAfterTakeover` and `SuccessIsComplete` |
| `WorkerProofs!HandoffOncePerRequest` | `OncePerRequest` |
| `WorkerProofs!StagesToldOnce` | `StagesAreToldOnce` |
| `WorkerProofs!AcksAreInTime` | `AcksComeInTime` |
| `InboundProofs!GateTypeCorrect` | `GateTypeOK` |
| `InboundProofs!GateIsExclusive` | `OneTurnAtATime` |
| `InboundProofs!GateStaysShut` | `OverIsOver` |
| `InboundProofs!NoticesAreHonest` | `NoticesAgree` = `ToldOnce` and `NoticeWasSent` |
| `MaintenanceProofs!BootsStaySound` | `BootsAreSound` of the bootstrap alone |
| `MaintenanceProofs!ServingIsSound` | `BootsAreSound` beside the operations |
| `MaintenanceProofs!ReportsStayTrue` | `ReportsAreTrue` |
| `MaintenanceProofs!DeletionsStayWhole` | `DeletionsAreWhole`, an action property |
| `MaintenanceProofs!AssetsStayAgreed` | `AssetsAgree`, of `MediaSpec` |
| `SessionStoreProofs!OthersAreKeptOut` | `OthersStayOut` |
| `SessionStoreProofs!ChartStaysOfTheDate` | `ChartIsOfTheDate` |
| `SessionStoreProofs!DeliveryStaysOfTheDate` | `DeliveryIsOfTheDate` |
| `SessionStoreProofs!WaitingHasAJob` | `AnalyzingHasAJob` |
| `CardsProofs!NothingIsEverLost` (**) | `NothingIsLost` |
| `CardsProofs!PagesAlwaysFit` (**) | `PagesFit` |
| `CardsProofs!CardsAlwaysShowTheirPages` (**) | `CardsShowTheirPages` |
| `CardsProofs!PagesAreAlwaysShown` (**) | `PagesAreShown`: both of them |
| `CardsProofs!CopiesStayExplained` | `CopiesAreExplained`, of `CardsInit` and `CardsNext` |
| `CommerceProofs!CommerceTypeCorrect` | `TypeOK` |
| `CommerceProofs!PaymentsAreEarned` | `PaidIsEarned` |
| `CommerceProofs!OrdersStaySingle` | `OneOrderAtATime` |
| `CommerceProofs!VerificationsStand` | `VerifiedFallsOnlyToAStaleReader`, an action property |
| `CommerceProofs!ChargesAreCounted` | `UsageIsCounted` |
| `CommerceProofs!CtaIsSpaced` | `CtaKeepsItsDistance`, an action property |

The arguments:

* **Queue, with overruns.** `ClaimInv` = types, `AttemptsWithinBudget`, `ClaimsDistinct` and
  `HeldRowsWereBorn`. The last is what the other two lack: an id a slot holds was
  inserted once, so a new row never appears under a zombie with a low attempt.
  Most steps are `Quiet`: they change no attempt and give no slot a row, and one
  lemma serves them all. A claim raises the attempt above that of every zombie.
* **Queue, without overruns.** `ExecInv` adds that a held row is running that very attempt under
  a live lease; then the reaper touches no held row, no claim meets a second
  slot, and `fail_job`'s stale attempt is the row's own. The refinement maps each
  row's step to a step of `BoundedRetry` or a stutter, and needs `ExecInv` for
  `Finish` (only a running row is settled) and `GiveBack` (only with an attempt left).
* **Session.** The guard compares generations only, so the proof has to know which generations can
  still be written. `Current` says it, as long as `~bypassed`: the row's generation is not
  retired and its content is of the last wipe (`RowOK`); a snapshot is the row itself or of a
  retired generation, and one cleared in memory has a generation the row never had
  (`ObjOK`), which no other actor holds (`ClearedApart`); a turn is pinned to the row's
  generation or a retired one, works under its pin, and what it loaded while not superseded
  is of that generation (`Pinned`). A guarded save that succeeds is then either the row
  unchanged or a new generation, which retires the old one and with it every other
  snapshot. An unguarded save sets `bypassed` and ends the claim, as it must (section 6).
* **Batch.** `BatchMoves` adds `RaisedIsAlone` to the two invariants: a batch whose
  `on_first_message` raised holds that one message, so the exception in
  `PendingIsTimed` does not spread. A timer that runs against a later batch forgets
  the timer of that batch without stopping it; the proof shows that it always
  arms another one, flushes, or finds nothing.
* **Handoff.** `StagesHold` says what each program counter means (`TakeoverHappened`,
  `ConfirmationHappened`, `TicketKept`). `OneAfterTheOther` counts: while not excused,
  one execution at most is active and takeovers and confirmations agree with the
  ticket and that execution's place.
* **Gate.** `GateInv` adds `ClaimedOnce` (a mark, or the end of one, is of a request that has
  claimed, so a claim never brings back an id) and `MarkIsCurrent`. `TellInv` counts, for
  each owner that is not excused: one rejection at a time tells about it, `told` is 0
  until it sends, and afterwards the mark says so while it lasts (`TellsOnce`).

* **Bootstrap.** `BootInv` has the order at its centre: between the lock and the unlock a process holds the
  lock, so nobody else applies the migration it is about to execute, versions are applied in order
  and without gaps (`InOrder`), and the legacy files ran before the last one (`LegacyComesFirst`). A half-run legacy
  bootstrap is known by a process between the two files or by the ghost `half` (`HalfIsKnown`). So a statement of a
  migration cannot meet what it creates, and whoever fails has an error of its own (`BootsFailAlone`).
* **Maintenance.** A step is one of the bootstrap or leaves the bootstrap's state alone, which carries `BootInv` over.
  `TxInv` says of a transaction: an aborted one is known by its errors or by the missing table it has just
  passed (`AbortIsKnown`), a returned one is past its last table (`ReturnIsAtEnd`), and the tables before its
  place are deleted in it or spared (`TablesAreDone`). The commit of a deletion, an anonymization or a reset is then all or nothing.
* **Reading.** Every handler takes a document to a document, so the invariant is of documents: `Good` is the
  type and `Whole`, the four properties and that the progress is never of a later generation than the session. Each
  operator (note, button, message, recovery) keeps `Good`; the lock keeps the date while it is held.

* **Producers.** `ProducersInv` is `ExecInv` and, of the calls: a call's key is its own base key, or a retry of it whose
  base is dead (`KeysAreOwn`); live rows have different keys (`RowKeysAreUnique`, the unique index); a retry's row
  has a dead base row beside it (`RetriesHaveDeadBase`); an answer names a row that was inserted, and a `new` one the row
  of the caller's key (`AnswersNameRows`); two `new` answers for a key are about different rows, of which one was deleted
  (`NewIsExclusive`). It needs no overrun, because `fail_job` of a zombie revives a dead row.
  That who waits has a job follows from the row the answer was computed from and `RetryableHasBudget`: a pending or failed row has an attempt left.
* **Operator.** `AdminInv` is `ClaimInv` and the type of what the page showed: a cancellation writes by id but touches
  no attempt and no slot, so it is `Quiet`. That a cancelled row comes back only through its runner is read off each statement's `WHERE`.
* **Copies.** `Single` counts a message's tasks, its places in the batch and in deliveries, and the times it was handed
  over: one at most, none before the claim, and in one delivery only. A callback that returns turns one place into one handing over.
  For the timers no invariant is needed but the types: whichever timer runs, it reads the clock of the batch it finds.
* **Turn.** `TurnInv` explains who may stop whose thread: a run at work has its feedback in the registry or lost it to
  another run (`RunOK`), nothing is registered while an earlier thread is joined, and what is registered was not
  taken (`RegistryOK`). So where a run is over, its thread is done, waits with the flag set, was taken, or was given up on. `FatesInv`
  says of each stage that it is untouched, told, lost, or about to be told by exactly one run; the sum of
  `StagesAreToldOnce` follows by counting. Who records a stage found it unrecorded, which keeps the teller single.
* **Commerce.** `Inv` follows a fact through the row and every copy of it a caller holds: a copy with the paid flow or the
  grant was loaded after the confirmation (`PaymentIsKnown`, `DonationIsKnown`), and nobody sets out to take back an order it
  read as verified (`VerdictsAreFresh`). A live order is in the row or on its way to it (`OrderIsKept`); one
  caller at a time is between deciding on a CTA and recording it (`OneSender`), and what was told is in the row or about to be
  (`TellingIsRecorded`). Most steps are `Ordinary`: they bring no new order, CTA or charge, and one lemma serves them.
* **Uploads.** `UploadOK` says at each step of an upload where its object and its row are, and which ghost explains a
  difference; purge, erasure and the storage's policy keep it for every upload.
* **Queue beside its producers.** `ProducersUseTheQueue` needs only that a call keeps its type: an insert of the three
  transactions is then `Insert` of the queue with the effective key, and the rest leaves the rows alone.
* **Texts.** Induction over sequences is stated for a set of sequences instead of a predicate (`SeqInd`), which the
  provers can instantiate. `FoldFacts` says once what a fold gives of the empty sequence and of one member more,
  `RecursionEnds` and `WalkExists` that a recursive function exists whose argument gets smaller (by the library's theorem on
  well-founded relations), or moves along a sequence; every `FoldLeft` and recursive function of `Paginator` is
  brought to these. Then, for a text: its ink, the characters that are neither blank nor a mark, is kept by cleaning (`InkOfClean`),
  cutting (`PiecesFacts`), the adoption of markers (`MergeOrphanFacts`) and measuring (`LinesInk`). A chunk fits or has
  adopted a marker, and only a chunk that is alone is a marker (`Chunks`). A card of lines has no more lines when it is
  put together and measured again (`RewrapFacts`): each line is a paragraph that fits, or one word that is too wide for any line,
  and of such paragraphs there are as many as lines (`Line`, `LinesCounted`).
* **Pages.** Packing is a fold over the sections. `PackByCharsStep` and `PackByPixelsStep` say what one step does: every page so
  far is one that fits (`Pages4`, `PagesOfLines`), and the text packed grows by that of the section, or stays where the
  section is dropped. Merging two pages that fit on one keeps both (`Joins`); a page is titled without touching its sections.
  `PaginateFacts` puts this together, and `CutInv` (the pages are what was cut of the reading) carries it through the steps.
* **Drawing.** What is drawn is the top of the title and of all lines in a row (`DrawnFacts`). `ShownInv` is `CutInv`, types, that there
  are no more cards than pages, and the property.
* **Copies.** Pages are opaque for `CopiesStayExplained`. `CardsInv` = types, `InOrder` (what is in the chat is of the card being sent or of earlier
  ones, in order) and `CopiesCounted`: of the card being sent there are at most as many copies as attempts and as lost
  answers, and the total is within what was reported as sent and what was lost.

What proving changed in the models:

* The Commerce limit must be at least 1 (`LimitAssumption`). With 0 the statement that charges would still let the first use
  of a day through; the code reads the limit with a minimum of 1 (`admin_funnel_env.py:55`).
* `AcksComeInTime` had excused every run with an ack thread of its own, since nobody takes such a thread; it now asks that another run took it.
* `NothingIsLost` now names the text that is dropped exactly (`Dropped`: a long body of nothing but blanks) and asks for the
  text of all the other sections, where it had allowed either of two texts.
* A body whose lines cannot be measured into chunks is cut by sentences (`ChunksByPixels`), as `paginator.py:243` does: where the
  layout finds no chunk, and not only where it is asked for none.
* Copies are counted as cardinalities of sets of positions (`Hits`) and not by recursion over the chat, so that they can be reasoned about.

Only model-checked:

* liveness (`JobsSettleOrStrand`, `ClaimedGetsThrough`, `WorkGoesOn`, `BootsEnd`), because TLAPS does not do fairness.
  Every other property of a passing run has its theorem above.

## 6 Where the code and its comments disagree

Three comments are stated as properties as they stand, and TLC finds each violated. They are the `findings` of `PROJECT.json`:

| Run | The comment | What the code does |
|---|---|---|
| `Overrun` | `fail_job_terminal`: "Never retried" (`queue.py:357`) | a slot whose lease was reclaimed calls `fail_job`, which writes by id; the row that failed terminally meanwhile is failed and claimed again. This needs a handler that runs for more than 180 s |
| `Cleanup` | "Each task is isolated" (`cleanup_worker.py:130`, also line 6) | the tasks share a transaction: an error in one aborts it, later tasks fail, and what earlier ones deleted and the report counts comes back |
| `Usage` | "charge_id dedupe", "None if stale/duplicate/at-limit" (`messenger_state_db.py:520`) | the row remembers the last charge only: a charge repeated after another one is counted again |

`DeletionsAreWhole` therefore speaks of deletion, anonymization and reset only, `UsageIsCounted` counts a repeated charge
as a charge, and `SingleExecution` and `RowsAgree` are claimed without overruns.

The other properties are stated so that they hold of the code. Where a comment promises more, the property names the
lapse that breaks the promise, and a behaviour reaches it in the run:

| Property | The comment | The lapse it names |
|---|---|---|
| `JobsSettleOrStrand` | the reaper resets a running job with an expired lease, and skips `attempt = max_attempts` "so dead jobs stay dead" | `Stranded`: a worker that crashes in the last attempt leaves a row that is running, not dead; the reaper skips it for ever, and producers are told `already_running` |
| `RetiredStaysRetired` | a new generation invalidates jobs in flight | `bypassed`: a handler without the guard saves the session it loaded before the reset, generation and all; the superseded turn passes its check |
| `RetiredStaysRetired` | after a reaffirmation an object from before the bump still fails its compare-and-swap | `bypassed`: the predicate compares the row with the guard, not with the object; the save succeeds and takes the row back |
| `OncePerRequest` | one transition ack, retry-safe | `excused`: an execution cut between the confirmation and its mark makes the retry confirm again |
| `ReportsAreTrue` | a missing table is tolerated | the statement has aborted the transaction: the next one fails. If the missing table is the last, the commit is a rollback and success is reported |
| `AssetsAgree` | the customer is promised that a picture is stored for seven days at most (`media/consent.py`) | `removed`, `left`: the purge and an erasure delete rows only. The cleanup's docstring leaves the objects to a policy of the storage, which the disk backend does not have and nothing in the repository sets up |
| `PagesFit` | chunks of `_split_long_body` are within `max_chars` | a marker adopted from the next chunk comes on top |

## 7 What is not modelled, and what the models assume

* A statement is atomic and a failed one leaves nothing behind (psycopg rolls back
  the transaction). A commit whose answer is lost is modelled in `Media` only, where the code undoes what it believes has failed.
* The order in which `claim_next_job` prefers rows: any eligible row may be claimed,
  which includes every order the code produces; and the length of the backoff.
* The content of sessions, tickets and messages, except as said in section 2; formatting,
  wording, logging and metrics.
* A turn's number of loads and saves is not bounded; a writer's is one each, so a
  writer with several saves is several writers.
* Text sanitizing keeps no state and is left out; abuse and scope
  limits are counters in single statements; the stubbed modules have no code to model.
* `ReturnToBot` is in the stubbed `assistant_takeover.py` and taken from how its callers use
  it. `execute_support_handoff` has no caller in this repository (the job handler is a
  stub); its docstring says it is retried with the same request id.

* Hazards without a model of their own: the arithmetic of the backoff (`queue.py:302`), the order of batch callbacks
  on different threads (`inbound_batcher.py:240`), the owner read as BOT after a failed read
  (`conversation_owner.py:31`), and the second insert of `get_or_create_ex` (`messenger_state_db.py:133`).

What the models made visible in the code, and how it is represented:

* **Cards.** The overflow check of the renderer compares after the text was cut to fit, so a cut card is silent;
  `CardsShowTheirPages` says when a card shows all. The A4 split cuts the raw markdown. The pixel measurement
  (`layout.py`, `branding.py`) is a stub. A heading comes from a section's key (`key.replace("_", " ").title()`), so it has no marks; one
  of `MaxChars` characters or more gives `_split_long_body` a limit of 0 or less and its loop would never end, and one that
  fills a card leaves no room for a body: `Legible` leaves such keys out. The legacy CTA card and the affiliate button are left out.
* **Reading.** An edit of any other field invalidates the reading and clears the lock of the date; the buttons
  `TV_CONFIRM_EDIT_INFO` and `TV_INTAKE_EDIT` go around the lock, and `INTAKE_EDIT` keeps the chart and leaves the session in
  ANALYZING with a job of an older generation (`jobLoose`). The recovery uses the overview's old
  generation. Progress of another generation swallows notes until `init_delivery_progress`. Within one
  document the properties do not depend on which snapshot is saved, since the document is saved whole.
* **Worker.** An ack through `make_queued_ack_sender` is recorded, the registry's default ack is not. With
  `RUN_WORKER=1` the web process runs the loop in a thread which sees no stop flag (`main.py`): not modelled.
* **Maintenance.** The legacy files (`init_*.sql`) are not in the repository. Without the table `readings`
  no deletion, reset or anonymization succeeds, except that one whose last table is the missing one reports
  success; the profile backfill is always rolled back. A bootstrap cut between the legacy files
  leaves the readings out for ever. The purge of admin sessions, after the cleanup's transaction, is not modelled.

## 8 Plan

What is left, in this order:

1. `BackoffSchedule`: the arithmetic of the delay against a reference, over small caps and attempts.
2. Compositions: intake → batch → gate → queue → guard, to show that one message has one answer, and
   `JobProducers` with `Reading`: the answer of an enqueue is a choice in `Reading`, and what it means is
   `WaitersHaveAJob` in `JobProducers`; together: a session in ANALYZING has a job that may run.
3. Theorems: that the compositions of 2 keep what is proved of their parts.
