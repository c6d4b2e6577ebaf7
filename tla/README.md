# Formal models of ZaoLang

This directory models, in TLA+, two halves of ZaoLang:

* the part of the back end that decides who pays for what: the credit ledger,
  the purchase of credits, the life of a generation job, and the poller that
  brings asynchronous renders back;
* the part of the front end that keeps a state of its own beside the server's:
  the canvas, the cut editor, a script's batches, the blocking studio, the
  generate button, and the page that follows a job, each with the back end code
  it talks to.

TLC checks the models on small instances; TLAPS proves almost every safety
property TLC checks for every value of the constants, and that the ledger and
the jobs implement what they promise.

All paths below are relative to `src/back/app/` or, for `.ts` and `.tsx` files,
to `src/front/src/`, unless they say otherwise.

## 1. The system

ZaoLang is a web platform on which authors generate images, video, audio and
text. A FastAPI application (`api/`) and Celery workers (`workers/`) share a
PostgreSQL database; Redis is Celery's broker, the realtime channel and the
store of a circuit breaker. On the server there is no in-process shared state: every
race is between database transactions (READ COMMITTED), and between transactions
and broker messages. In the browser there is one thread, and every race is
between an `await` and what happens meanwhile.

| Component | State | Operations | Interacts with | What makes it correct |
|---|---|---|---|---|
| Credit ledger (`domain/credits/service`) | `credit_accounts` (available, reserved, version, monthly cap and counter), `credit_ledger_entries` (append only, two unique keys) | grant, purchase, adjust, reserve, capture, release, royalty and access transfers, spend limit | called by every request and worker that moves credits | balances never negative; a reserve ends in exactly one capture or release; the row equals the ledger's sum; the cap holds; transfers are all or nothing |
| Reconciliation (`domain/credits/reconciliation`) | none | hourly sums of the ledger | reads ledger and jobs | finds a mismatch only when there is one |
| Jobs (`domain/jobs`) | `generation_jobs`, `job_events`, `workflow_input_requests`, `provider_async_tasks` | submit, transition, cancel, answer, suspend, terminate, requeue | ledger (reserve, settle), broker (enqueue) | one terminal status; settled with it, once; never stuck |
| Workflow runner (`workflows/`) | a walk's context; commits between nodes | execute nodes, suspend, resume, honour cancels | jobs, providers, ledger | a suspended walk resumes once; a cancelled one stops |
| Workers and Beat (`workers/`) | broker messages, acknowledgements | run a job, on_failure, expire stale jobs and questions | jobs | a dead process strands nothing |
| Render poller (`workers/async_polling`, `domain/jobs/async_tasks`) | claims on `provider_async_tasks` | claim, poll, resume, park, reschedule | runner, providers | one tick per render; no render starves |
| Checkout and webhooks (`api/v1/credits`) | `payment_intents`, `webhook_events` | checkout, confirm, webhook | ledger | an intent is credited exactly once |
| Redemption (`domain/credits/redemption`) | codes, records | redeem | ledger | cap on uses; once per user |
| Royalties and unlocks (`domain/credits/royalty`, `domain/access`) | license chain, access grants | distribute, unlock | ledger | shares within the pool; charged once per unlock |
| Media breaker, LLM failover (`providers/media_breaker`, `llm/`) | failure counters in Redis | record, trip, probe | routing | a failing route is left alone, then tried again |
| Editor (`domain/editor`; `features/editor`) | revisions, edit leases, exports; in the tab a queue of edits, an undo stack, a lease token | apply, undo, redo, restore, reclaim, export | jobs, media; `applyCommands`, `restoreRevision`, heartbeats | the screen is what is saved; undo goes back by one; a stale writer is refused |
| Canvas (`domain/canvas`; `features/canvas`) | cards, connections, a change log; in the tab the acknowledged graph, the arrangement that waits, frames kept back | save a diff, catch up, stream, reload | jobs, the Agent, other sessions; SSE through Redis | feed and rows agree; the tab converges; nobody's card is deleted but by its author |
| Blocking studio (`domain/blocking`; `features/blocking`) | versions of a scene's blocking; in the tab a pending edit and the version it is sent against | edit, flush, chat turn, reload | the Agent's turns, other tabs | an edit is saved or its failure told; no turn is overwritten |
| Script batches (`features/script`) | items and their jobs, in the tab and in sessionStorage | start, retry, resume, reload | `jobs` (submit, poll) | one live job per item; in order; nothing forgotten |
| Generate button (`lib/use-generation-submit`) | a draft id and an idempotency key | submit, give up, try again | `domain/jobs/service.submit` | charged once |
| Job page (`lib/use-job-stream`) | the record shown, the events, a connection | poll, stream, reconnect, cancel, turn | `api/v1/jobs` | news in any order; watched until it is over |
| Publishing, lineage, licensing | works, licences, remix edges | publish, remix | royalties, access | lineage acyclic; licence respected |
| Distribution, notifications, libraries (characters, scenes, skills, scripts), moderation, consent, audit, media, search, statistics, retention, identity, front end, iOS | rows of their own | create, edit, read | little | see `PROJECT.json`, `components` |

### What is hard here

* **Read, then write.** Python reads a row (a copy stays in the session), looks
  something else up, then writes. The ledger guards the write with a version,
  the job with the statuses in an UPDATE's WHERE, the poller with `claimed_at`.
  Each guard protects one table; most operations span several.
* **Many actors on one job.** A worker, a duplicate of it (late acknowledgement,
  visibility timeout), a tick of the poller, an author answering or cancelling,
  an operator, and two sweepers may all end the same job.
* **Commits in the middle.** The runner commits between nodes and each event it
  emits commits too, so a process may die with half of a walk durable.
* **Uncommitted work across slow calls.** The move to RUNNING is uncommitted
  while the provider is called, and a whole batch of claims is uncommitted while
  the first render is polled.
* **A tab is a replica.** The canvas, the editor and the blocking studio draw an
  edit at once and send it later; answers, frames of others and reloads arrive
  in between, in any order, and each is folded into a state that has moved on.
* **An answer that never comes says nothing.** The request may still be served,
  after the browser has tried again.
* **Nothing comes back by itself.** A lost message, a dead API process or a walk
  that raises leaves credits reserved unless a sweeper finds the job.

`PROJECT.json`, `hazards`, lists each such place at its line with the property
that covers it, or why none does yet.

## 2. The modules

| Module | What it is |
|---|---|
| `CreditLedger` | accounts, ledger and database sessions; every operation of `credits/service` |
| `LedgerAudit` | EXTENDS it with what the ledger adds up to (a sum folds a function over a set of rows) |
| `Reservations` | abstract: reservations and balances as if every operation were atomic |
| `LedgerRefinement` | `CreditLedger` implements `Reservations` |
| `CreditLedgerInv` | the ledger's inductive invariants: `SettlementInv`, `BooksInv`, `SpendInv` |
| `JobLifecycle` | one job's rows, its walkers, requests and sweepers |
| `JobContract` | abstract: what a submitter may rely on |
| `JobRefinement` | `JobLifecycle` implements `JobContract` |
| `PollClaims` | how overlapping ticks of the poller share the parked renders |
| `Checkout` | payment intents, confirms and redelivered webhooks of one account |
| `CanvasSync` | an open canvas: save loop, change feed and stream, and the server's feed |
| `SubmitOnce` | a generate button: draft, idempotency key, and the server's look-up |
| `JobStream` | a page that follows a job: stream, polls, cancel |
| `ScriptBatch` | a batch over a script: pool, queue, retries, reload |
| `EditorSession` | an open cut: edits, undo, lease, and the server's revisions |
| `BlockingSave` | a blocked-out scene: debounced saves against chat turns |
| `Pages` | the browser tab: the six above, one at a time |
| `CreditLedgerProofs` | proofs: types, settlements, the books, transfers, the refinement of `Reservations` |
| `LedgerAuditProofs` | proofs: what the ledger adds up to, and the monthly cap |
| `JobLifecycleProofs` | proofs: types, ends, questions, settlements, the refinement of `JobContract` |
| `PollClaimsProofs`, `CheckoutProofs`, `ScriptBatchProofs`, `CanvasProofs` | proofs about the module of that name |
| `PagesProofs` | proofs: the generate button, the blocking studio, the job page, the editor, and all of them in a tab |
| `MC...` | constants' values and symmetries for TLC |

Definitions that begin "As it would be..." are deliberate faults. The models do
not use them; each shows that a property notices the bug it describes
(`PROJECT.json`, `mutants`).

### CreditLedger

`account[u]` is the row of `credit_accounts`, `ledger[u]` its ledger rows in
commit order, `tx[s]` what a session has read and means to write, `month` the
UTC month. A session runs one operation at a time in steps:

1. *Begin* (`Grant`, `Purchase`, `Adjust`, `Reserve`, `Settle`,
   `RoyaltyTransfer`, `AccessTransfer`, `SetLimit`): the account row is SELECTed;
   the copy stays in the session with its version.
2. `CheckLedger` (settlements only): the job's reserve, capture and release are
   looked up; the movement is computed from them (`CaptureOf`, `ReleaseOf`).
3. `Commit`: `_apply`'s checks against the copy (`Admissible`), the conditional
   UPDATE against the row (`Matches`), the INSERT of the ledger row under its
   three unique constraints (`NoDuplicate`) and the commit. `CommitLimit` is the
   same for the spend limit, which writes no ledger row.
4. `Rollback`: every raise, lost race, duplicate key and process death.

The UPDATE, the INSERT and the commit are one step: the UPDATE takes the row
lock, so no other session sees or passes the transaction until it commits. Both
legs of a transfer commit in one step with the guards of both; a leg that fails
rolls the other back, which is `Rollback`, but for one caller:
`finalize_draft_publish` swallows the `Conflict` of a royalty's second leg when
another delivery has published the draft, and its session commits the first
(`CommitPayerAlone`). A duplicate key cannot do that, as `_apply` rolls the
session back before it raises. An unlock's `Conflict` reaches a caller that
rolls back. Two sessions that lock two
accounts in opposite orders can deadlock in PostgreSQL, which aborts one of
them: `Rollback` again.

Data kept: amounts, balances, versions, months, caps. Data abstracted: user ids,
reasons, metadata, timestamps; a payment reference and an idempotency key are
pairs of a kind and a model value.

### JobLifecycle

`job[j]` holds the status, whether a cancel was requested, the failure code
where a property needs it, and `hold`: what the job's ledger rows say. `ask` is
the job's `workflow_input_requests` row, `task` its `provider_async_tasks` row,
`broker` the messages waiting, `posting` the jobs whose request has not enqueued
them yet, `lock` the one row lock that is held across steps, `walk[w]` a process
walking the graph, `sweep` and `due` what the two sweepers selected.

A *walker* is a Celery worker, a poller tick, or the API request that answers a
question. Between nodes the runner commits and refreshes its job
(`Check`, which is `_cancel_if_requested`); the status it then holds (`seen`) is
what the node's own conditions look at, while its UPDATE looks at the row.

The graph is reduced to what settlement depends on: `plan` (every node before
the provider; any may ask the author or take its failure port), `generate` ,
`submit` and `submitting` (the three commits of `provider_generate`), `quality`
(the nodes after it), `settle` and `fail`. `Retry` is `route_score`'s attempt
budget.

| Code | Action |
|---|---|
| `submit`, `create_job`, `enqueue_or_fail` | `Create`, `Enqueue` |
| `run_generation`, `on_failure`, redelivery | `Deliver`, `OnFailure`, `Redeliver`, `Crash` |
| runner `_walk` and nodes | `Check`, `Begin`, `Plan`, `Generate`, `Submit`, `Result`, `Quality`, `Settle`, `Fail`, `Raise` |
| runner `_suspend` | `Ask`, `Park` |
| poller `_advance`, `_resume_then_release`, `_park_for_retry` | `Advance`, `Done`, `ParkForRetry` |
| `cancel_job`, `honor_user_cancel` | `Cancel`, `Honor` |
| `answer` | `Answer`, `Accept`, `RequestFails` |
| `terminate`, `requeue` | `Terminate`, `Requeue` |
| `expire_stale_jobs` | `SelectStale`, `ExpireStale` |
| `expire_stale_input_requests` | `SelectQuestion`, `ExpireQuestion` |

Three constants choose a setting of the environment. `Races` says whether
another write of the user's account may make a release lose its version (the
release is then swallowed; see the finding on `job_contended`). `Keeps` says
whether an operator may keep the credits. `Poison` lets a node raise every time.

Time is abstracted: a deadline may have passed whenever the row it concerns
exists. A sweep selects a batch and works on its jobs one by one in one session:
`expire_stale_jobs` commits once, at the end, `expire_stale_input_requests` after
each cancel it honours and once for the questions that expired. A job's row is
locked from its UPDATE to that commit, so to anyone else the job ends at the
commit; selection and action are per job, and what a death undoes of a batch is
steps not taken. (To the page that follows a job the time before the commit does
matter: `JobStream` has it.)

### PollClaims

`rows` are the parked renders ordered by `next_poll_at`, `later` those not due,
`claim` the committed `claimed_at`, `lock` a claim not committed yet, `tick` what
each tick selected (`todo`) and claimed (`mine`). `ClaimNext` is one conditional
UPDATE of `claim_due`; `Work` asks the provider; `StillPending`, `Emit`,
`Finished`, `AskRaises`, `WalkRaises` are the ways `_advance` commits or rolls
back. `LeaseExpires` may take a claim only from a tick that is over or has left
it behind: the lease (300 s) exceeds what one task of the tick takes, as the
comment at `CLAIM_LEASE` supposes.

### Checkout

`intent[i]` is the status of a `payment_intents` row, `events` the
`webhook_events`, `unacked` what the provider goes on delivering, `credited[i]`
how many PURCHASE rows carry the intent's reference, `version` the account's.
A request (`req[r]`) reads the event (`Deliver`), the intent (`ReadIntent`, or
`Confirm`) and the account (`ReadAccount`) in that order, in statements of their
own; `Book` is the UPDATE, the ledger row, the intent's status and the event in
one commit, `Refuse` what a lost version or a duplicate key does to each of the
two requests, `Record` the webhook with nothing to book. A refused webhook
answers an error and its transaction is rolled back, its event included.

The ledger is reduced to what decides whether a purchase is booked: the version
and UNIQUE(payment_reference), which are `Matches` and `NoDuplicate` of
`CreditLedger`. Everything else that writes the account is `RivalWrite`. The
payment provider (`Emit`, `Acknowledge`) is external.

### The pages of the browser

Each of the next six modules models one hook (or component) of the front end
together with the server code behind its requests. The code between two awaits
is one step. A request is a record that is *sent*, *served* (a transaction) and
*answered*, and may be lost on either side. History variables (`past`, `blind`,
`left`, `lost`, and flags such as `aged` and `crossed`) record what the page
cannot know, so that a property can say when it may not be expected to hold.

**`CanvasSync`** (`use-canvas-sync`, `use-canvas-events`, `graph-ops`,
`canvas-view`; `domain/canvas/graph_service`, `api/v1/canvas`). `srv` is the rows,
`change_seq` and the change log; `tab` the refs `baseRef`, `seqRef`, `queueRef`,
`deferredRef` and what the view holds; `flight` the flush, `fresh` a `reload`,
`stream` the SSE connection with the client's cursor and the server's end.
A person's `Move`, `Type`, `AddCard`, `RemoveSelected`, `Connect` end in `Save`
of the view. `shelf` keeps arrangements drawn before: the two stacks of
`use-graph-history`, which `Undo` and `Redo` put back, and the one `importCanvas` or
`uploadToNode` holds over its await (`PickFile`, then `Imported`, `Uploaded` or
`PickFails`). Put back, such an arrangement is shown and saved as it was, and what it
lacks of the cards shown is deleted by the next diff, whoever added it
(`past.recalled`). `Pump` diffs against `base` and sends; `CommitOps` is the batch's transaction
with its catch-up read; `FlushAnswered`, `FlushFailed`, `Settle` are the
`then`, `catch` and `finally`. `OpenStream`, `Subscribe`, `Publish`, `ReadStream`,
`ReadGap`, `DropStream` are the feed: the backfill is read before the
subscription, and commits are published in any order. `ApplyOps` has what a
stale revision, a missing card, a duplicate id and a cascade do; a card keeps a
position and a text because the view treats them differently (`SetGraph`).
`_delete_node` looks at revision and connections before it takes the project's
lock; what another batch changes in between makes no difference to a reader, who
folds a card's removal with its connections, so the transaction is one step.

**`SubmitOnce`** (`use-generation-submit`; `domain/jobs/service.submit`). `studio`
is the inputs, the draft and the key; `posts` the requests, given up or not;
`orders` the jobs by key. `LookUp` and `InsertJob` are apart, as the key is looked
up long before the row is written; UNIQUE decides. The row is flushed before the
reserve, so the loser reserves nothing.

**`JobStream`** (`use-job-stream`; `api/v1/jobs`, `state_machine.append_event`,
`cancellation`). `page` is the hook's state, `reads` the requests for the record
(polls, reconnects, the last one, a cancel), `conn` the stream, `airborne` the
frames in Redis. `jobs[j]` is a row with its log, how long the log was when the job
ended, the event a transaction has published and not committed (`open`), and the
numbers and statuses of those rolled back (`undone`). A node commits, then publishes
(`Emit`), and asks nothing of the job: a walk in flight goes on adding events after
the end. The poller (`Heartbeat`), a cancel (`Cancels`) and whoever honours one
(`Honours`) publish inside the transaction, which then commits (`CommitEvent`) or not
(`RollsBack`: the process dies, the walk raises, another job of the batch fails).
Two transactions cannot both have an event open, as they would take one number.
A terminal frame ends the watch; the frames that came in the same read of the body
are read on after the record has come (`ReadRest`). `Turn` shows another job while
answers about the first are on the way.

**`ScriptBatch`** (`use-script-batch`). `batch` is what is shown and stored, `todo`
what the pool or the queue has not reached, `at[i]` the await the run of item `i`
is in, `made[i]` the jobs the server took for it. `ReloadPage` ends every run
where it is and starts from storage, as `resumeAfterRefresh` does.

**`EditorSession`** (`drama-editor`, `use-editor-lease`; `domain/editor/service`,
`leases`). `cut` is the revisions, the head and the lease's token; `desk` the
refs, the undo stack and the token held; `send`, `undoing`, `refetch` the request
of each kind under way. A document is the sequence of its edits. `Reclaim`
is one step; one `getCut` and one restore are
under way at a time: bounds.

**`BlockingSave`** (`use-blocking-save`, `blocking-studio`; `domain/blocking`). A
document is the set of chat turns in it; `head` is the latest version, `scene` the
hook's refs and what is shown, `patches`, `fetches` and `chat` the requests.
`CheckBase` and `SaveManual` are apart because nothing locks the version between
`_save_manual`'s comparison and its write.

**`Pages`** EXTENDS the six and lets a tab be opened on one of them
(`OpenPages`). The pages share only server rows that the models keep
apart, so their behaviours are checked side by side and never multiplied: the
states of `Pages` are the sum of the pages' states. `OpenPages` narrows a run to
one page.

### How the modules meet

`JobLifecycle.hold` is `CreditLedger`'s view of one job: `open`, `captured`,
`released` are the states that `Reservations` has. What `ImplementsReservations`
shows of the ledger (a settlement is atomic, happens once, and is refused when
one has happened) is what `Refund` and `Settle` take for granted; what the
ledger may do to a caller besides, refuse because of a version, is `Races`.
`PollClaims` justifies the absence of a claim in `Advance`: after a rollback two
ticks may work on one render, so `JobLifecycle` lets any number of pollers in.

`SubmitOnce.InsertJob` is the start of `JobLifecycle`'s `Create`, seen from the
browser; `JobStream` follows the same rows with their statuses reduced to
running, done and cancelled, and `EndsUnsaid` stands for the ends in
`JobLifecycle` that publish nothing (`OnFailure`, the sweepers). `ScriptBatch`
keeps of a job only that it lives until it is done or failed, which is what
`EverySubmissionEnds` shows under the fairness stated there.

## 3. The runs

| Run | Question | Instance |
|---|---|---|
| `ledger_races` | do two sessions racing every operation keep the ledger right, and implement `Reservations`? | 2 users, 1 job, 2 sessions, 3 writes of the first account and 1 of the second |
| `ledger_books` | do the stored columns stay the sums of the rows, over long histories? | 1 user, 2 jobs, 1 session, 6 writes, 2 months, cap 3 |
| `job_races` | do the status and the credits of a job end together, whatever interleaves? | 2 workers, 1 tick, 1 author, 2 messages, 1 question, 1 render, 1 retry |
| `job_settles` | does every submitted job end? | 1 worker, 1 tick, 1 author, 1 fault, 1 pending answer |
| `job_contended` | does a release that loses its version still settle? (no) | as above, `Races` on |
| `job_poisoned` | does a job end whose resumed walk always raises? (no) | `Poison` on |
| `poll_claims` | are claims exclusive without rollbacks, and does nothing starve? | 2 ticks, 3 renders, 1 of them broken, batch of 2, 1 kill |
| `checkout_races` | is every reported payment credited, exactly once? | 2 requests, 2 intents of one account, 2 payment events and another, 1 rival write, 1 loss |
| `checkout_confirm` | has a user who is told so been credited? (no) | 2 requests, 1 intent, 1 rival write |
| `pages_races` | does what each page holds, sends and shows agree with the server, whatever is late, lost or reordered? | one tab on any of the six pages; bounds below |
| `blocking_overwrites` | does a save ever overwrite a chat turn it was checked against? (yes) | the blocking studio, 5 edits, turns and faults |
| `poll_overlap` | is a render ever worked on by two ticks? (yes, after a rollback) | 2 ticks, 2 renders, 1 broken |

Bounds, by name:

* `MaxWrites` (three writes of an account): one that funds it, one that
  reserves, one that settles; a fourth event of the race is the rival's stale
  attempt, which writes nothing. Six in `ledger_books`: fund, two reserves, two
  settlements, and one of anything else (a correction, a cap change).
* `MaxMonth` 2: one rollover between reserve and settlement, either order.
* `Quotes` 2, `Actuals` 1 and 3: below and above what was held; `Limits` 3: two
  reserves exceed it, one with a partial capture does not.
* `MaxSends` 2: one duplicate of a job's message, from a redelivery, a requeue
  or a retry. `MaxAsks`, `MaxParks`, `MaxAttempts` 1: each loop is taken once,
  and left at its bound. `MaxFaults`: 0 in `job_races`, where the deaths are
  left out because a dead walker takes fewer steps than a slow one, which is
  there; 1 in `job_settles`.
* `MaxRivals` 1, `MaxLosses` 1: one other write of the account in any gap, and
  one request killed or acknowledgement lost at any point, so that an event is
  delivered again after it was handled. Both events of the first intent may be
  served at once, beside or after a confirm of it.
* `MaxKills` 1, `Limit` 2 with three renders: a batch does not hold them all.

* `pages_races`, canvas: three cards at most (one there, one the person adds,
  one the Agent lands) and the connections among them. `Mixes` lists what may
  happen in one behaviour, eight mixes of three things at most in `MCPages`: two edits with a write of another session or a loss in any gap, so that
  two saves overlap; an undo of an edit beside such a write, and its redo; a file
  picked beside a write, an edit or an undo. `MaxRead` 2: a gap occurs.
* Generate button: `MaxClicks` 4, two inputs. Job page: `MaxLog` 2 events of both
  jobs together, those rolled back included (a number is published twice);
  `MaxReads` 1, requests of the old job and the last read on top; `MaxSlips` 1 frame,
  answer, connection or transaction lost (a terminal frame never comes, and a poll
  ends the watch). `Levels` has one height between 0 and 100, so the bar can only
  fall because news come late or of the other job; that a job's own reports may fall
  as well is left to the theorem (`BarNeverGoesBack` holds for any `Levels`).
* Batch: `Size` 3 with `ImageConcurrency` 2: the pool is full and one waits;
  `MaxTurns` 3 commands, reloads and faults. Editor: `MaxEdits` 3,
  `MaxCheckpoints` 2 (the stack overflows), `MaxRestores` 2 (undo then redo),
  `MaxUpsets` 1. Blocking: `MaxDoings` 5, the length of the finding.

Deadlock is checked for the ledger (a session can always begin or roll back)
and not for the jobs, the poller, the checkout and the pages, which stop when
every job has ended, every render is done, every event is acknowledged, or the
bounds are used up with nothing under way.

The properties, briefly (each is stated where it is defined):

* *Ledger safety*: `CopyIsCurrent`, `SettledOnce`, `LedgerReplays`,
  `SettlementFollowsReserve`, `TransfersAreBacked`; sums: `Reconciles`,
  `ReservedIsOpenHolds`, `PeriodSpentIsNetSpend`; action property: `CapHonoured`;
  refinement: `ImplementsReservations`.
* *Jobs*: `SettledWithOutcome`, `AwaitingHasQuestion`, `ImplementsContract`
  (refinement), `EverySubmissionEnds`, `ParkedWorkIsDropped` (liveness).
* *Poller*: `ClaimsExclude`, `NoTaskStarves` (liveness).
* *Checkout*: `CreditedOnce`, `RecordedIsCredited`, `PaymentIsCredited`
  (liveness), `ConfirmedIsCredited` (violated).
* *Canvas*: `FeedIsTheCanvas`, `Converged`, `OnlyTheirOwn`, `NothingIsStranded`.
* *Generate button*: `ChargedOnce`. *Job page*: `ProgressNeverDrops` (action
  property), `RecordIsWhole`, `StopsOnlyWhenOver`.
* *Batch*: `OneLiveJob`, `StopsAtFailure`, `NothingForgotten`. *Editor*: `InSync`,
  `UndoGoesOneBack`. *Blocking*: `EditsGoOut`, `TurnsSurvive` (violated).
  `PagesTypeOK` is the type invariant of all six.

### Fairness

* Walkers that are running keep running (weak fairness of `Walk`): a process
  that does not die proceeds, and its death is the separate `Crash`, which is
  bounded, as is `Raise`.
* Celery delivers a waiting message to an idle worker, the API process goes on
  to enqueue, and Beat fires the poller (15 s) and both sweepers (300 s and
  900 s): weak fairness of each.
* Nothing is assumed of authors and operators.
* In `PollClaims` a tick's steps are strongly fair: a step that waits for a row
  lock is disabled and enabled in turn as other ticks take the lock, and
  PostgreSQL queues the waiters.

* In `Checkout` the API serves the requests it has accepted (weak fairness of
  `Serve`), and the provider gets through again and again with an event it has
  no acknowledgement for (strong fairness of `Deliver`): the comment on
  `WebhookEvent`, "the provider may deliver the same event many times", supposes
  as much. Nothing is assumed of confirms and of the purge.

No fairness is assumed of the pages: their properties are safety properties. A
browser may be closed at any time, and what should come of an abandoned job is
`EverySubmissionEnds`.

### Findings

Five runs show what the code does and a line of the repository denies; each is
an entry of `findings`.

1. `job_contended`: `settle_release` cannot tell "already settled" from "the
   account's version moved" and swallows both. A purchase, a grant, or another
   of the user's jobs that settles at the same moment then leaves the job ended
   and its credits reserved. The hourly reconciliation reports such a job
   (`find_dangling_reservations`) but does not repair it.
2. `poll_overlap`: a rollback for one render undoes the batch's uncommitted
   claims, and the tick goes on with renders it no longer holds.
3. `job_poisoned`: a parked outcome is replayed before the poll budget is
   looked at, so a walk that raises each time is replayed for ever.

4. `checkout_confirm`: `confirm_checkout` makes the same mistake as
   `settle_release`: a lost version is taken for "already booked", and the user
   is told that the payment succeeded while the intent stays pending. A second
   confirm does book it.

5. `blocking_overwrites`: the blocking studio takes the version number of a save
   from a ref that a reload moves and its document from a pending edit that the
   reload does not touch, so an edit made while the reload after a 409 is under
   way overwrites the chat turn that caused the 409.

None of the first three breaks `SettledOnce` or `ImplementsContract`: two ticks
on one render still settle its job once, because the ledger and the transition
refuse the second.

What the properties set apart, because the code does not do it:

* Ledger (`CommitPayerAlone`). A publish is delivered twice; the second delivery's
  royalty takes the payer's leg, the payee's leg loses its version to another
  write, and `finalize_draft_publish` (domain/publishing/service.py:425-430) finds
  the draft published by the first delivery and returns: `session_scope` commits the
  payer's leg by itself, though domain/publishing/service.py:3-4 says that "either
  every step lands or none does". `TransfersAreBacked` is what is left: nobody is
  ever credited by a transfer nobody paid.
* Canvas (`aged`, `blind`, `recalled`, `gapped`). A flush with nothing to send, or whose view
  has newer edits, takes revisions from the view, so the acknowledged graph can
  hold what no row ever was (use-canvas-sync.ts:130-136, 165-168); the author's
  next edit of that card then conflicts with themselves. `aged` says that this
  happened to a card: it got a row that no transaction wrote, or one that was
  written before the row it had. Revisions alone do not tell, since a card that
  another session deletes and the tab's queued save creates again starts at
  revision 1, while an arrangement that waits may carry the row of its first
  life. Frames kept back across a gap are folded in under newer ones, and a
  flush that fails later may fold them in on top: `aged` says that too. A card of the Agent that arrives with an answer while a
  newer arrangement waits is not in that arrangement, and the next diff deletes
  it (`blind`). So does the diff of an old arrangement put back by an undo, a redo, an
  import or an upload (use-canvas-editing.ts:66-82, canvas-view.tsx:337-388), with
  every card that was shown and is not in it (`recalled`), though
  domain/canvas/graph_service.py:9-11 calls a result that lands at any moment
  harmless. Frames lost or
  overtaken in Redis are lost for good, because cursor and `seqRef` jump past them (`Converged` asks that every change was handed over). After
  a gap, frames kept back stay so if the waiting arrangement is nothing new.
  A create that was served though its answer was lost is sent again and refused
  with its whole batch.
* Job page (`mixed`, `undone`). A cancel's terminal frame goes out before its commit
  (domain/jobs/cancellation.py:124), which may fail: the page has then stopped the
  stream and the polls of a job that runs on, though use-job-stream.ts:53-55 means to
  poll until the job is over. `StopsOnlyWhenOver` therefore says: over, or its
  cancellation was published. An answer about the job shown before adds its events to the
  next one's, though the reset at use-job-stream.ts:71-75 is there against that.
  A late poll may put a running status over a final one after polling stopped.
  An event published and rolled back is held by the page all the same, and its
  number makes the stream skip the event that takes it later; the record brings
  that one (`Heard` counts both). `RecordIsWhole` asks for the events there were
  when the job ended: a walk still in flight may add more after the page has had
  the record, and nothing tells the page.
* Batch (`blind`, `left`). A lost answer makes an item failed whose job lives, and
  a retry then makes a second, charged one: each submit has a fresh key. `OneLiveJob`
  is about jobs alive at once; a retry after a failure is charged again, as it
  should be. Items
  that a reload finds queued, or submitting without a job, are never taken up
  and offer no retry. The pool's workers all compute the same pause before
  a submit, so they submit together.
* Editor (`crossed`, `adrift`). Undo pressed while an edit is being saved goes
  back by two and leaves the index off (drama-editor.tsx:378 reads the target,
  336-344 wait). A batch taken off the queue without a lease is dropped without a
  word and stays on screen.
* Blocking. A chat turn is appended without a comparison, so a manual edit saved
  while it streams is not in it (`TurnsSurvive` is about turns only). A late answer
  may set the version back with nothing to set it forward again, and every later
  save is then refused.

## 4. The proofs

TLAPS checks every proof to its last leaf. Each theorem holds for any sets of
users, jobs, walkers, requests and renders, any amounts, any lengths and any
values of the bounds, so a bound chosen for TLC hides nothing from it. Three facts
make up each: the initial states satisfy an inductive invariant, every action
preserves it (a lemma per action, and a lemma per operator the actions share),
and it implies the property.

The assumptions are those the modules name, and TLC evaluates them in every run:
`LedgerAssumption` (amounts are natural and not zero, an owner is a user, the
"none" values are not real ones), `LifecycleAssumption` (three disjoint kinds of
walkers), `ClaimsAssumption` (finitely many renders, some place in a batch),
`CheckoutAssumption` (there is an intent, an event is about one),
`BatchAssumption`, `SubmitAssumption`, `StreamAssumption`, `EditorAssumption`
(sizes, levels, bounds and the cap of the undo stack are numbers),
`CanvasAssumption` (`MAX_CHANGES_PER_READ` is a number). The blocking studio needs
none.

### Credits

`CreditLedgerProofs`:

* `TypeCorrect`: `Spec => []TypeOK`, hence no negative balance anywhere;
* `SettledAtMostOnce`: `Spec => []SettledOnce`; `OptimisticLock`:
  `Spec => []CopyIsCurrent`; both from `SettlementInvariant`;
* `BalancesAreDerived`: `Spec => []LedgerReplays`; `SettlesWhatWasReserved`:
  `Spec => []SettlementFollowsReserve`; both from `BooksInvariant`;
* `TransfersMintNothing`: `Spec => []TransfersAreBacked`, whatever part of a royalty
  is committed;
* `LedgerImplementsReservations`: `Spec => ImplementsReservations`.

`TypeOK` alone is not inductive: that a written row is typed needs the pending
movements to be well formed (`MovesAreGood`), and that a settlement's hold
comes from a row of the same account needs `RowsAreAtOwner`. Together they are
`Base`, preserved by every step: steps are sorted by `StepCases` into those
that open a transaction, the look-up, the two commits and the rollback, with one
lemma each.

`SettledOnce` is not inductive either: two sessions may both have looked and
found no settlement. What closes the gap is the version. `StillUnsettled` says
that a look-up's answer is true as long as the version it was read under is
still the row's; `CopyIsCurrent` that versions of copies never exceed the row's;
and every commit that adds a row moves the version of each account it touches
(`WriteMovesVersion`), so whatever was read before is stale after. A job's rows
are on one account, so two settlements of one job meet on one version.

The look-up (`CheckLedger`) comes after the account was read, and that order is
what the argument needs: were the account read last, a settlement in between
would be covered by the new version and missed by the old look-up.

`BooksInv` adds what a session is about to write: its columns balance against its
amount (`MovesAddUp`), a checked settlement rests on a reserve that is in the
ledger to stay (`Settles`), and a job has one reserve (`ReservedOnce`, from
UNIQUE(job_id, type)). For transfers `MovesArePaired` says that both legs of one
are in the session's hands until they are in the ledger, or the payer's alone is. The refinement maps a
job to what its rows say of its hold: a commit of a settlement is one abstract
step because its reserve is the only one and nothing settled it before; all
else stutters or moves balances only.

`LedgerAuditProofs` has the sums. A sum is a fold over a set of row numbers, and
the library's induction theorems cannot be used on it; `FiniteInduct` is an
induction over finite sets with the predicate given as a set, and `SumUnfold` to
`SumFacts` derive from it that the fold is what its recursion says, so that an
appended row adds its amount. From them:

* `NoMismatch`: `Spec => []Reconciles`, what the hourly reconciliation looks for
  is never there; `OnlyOpenJobsHold`: `Spec => []ReservedIsOpenHolds`. Both are
  inductive once `BooksInv` is known;
* `CounterFollowsLedger`: `Spec => []PeriodSpentIsNetSpend`, and `CapIsHonoured`:
  `Spec => CapHonoured`, an action property, both from `SpendInvariant`.
  `SpendInv` is `BooksInv` with the months in order: no reserve is stamped with a
  month its account has yet to reach (`MonthsInOrder`), a settlement refunds the
  month of its reserve (`MovesSpend`). `ledger_races` checks it as an invariant.

### Jobs, renders, payments

`JobLifecycleProofs`: `TypeCorrect`; `EndsAreFinal`, `Spec => [][EndIsFinal]_vars`
(a job that ended keeps its status); `WaitsAreAnswerable`,
`Spec => []AwaitingHasQuestion`; and, where no other write of the account makes a
release lose its version (`Races = {FALSE}`),

* `SettledAsItEnded`: `Spec => []SettledWithOutcome`;
* `LifecycleImplementsContract`: `Spec => ImplementsContract`.

That hypothesis is the line between the two halves: without it both are false,
and `job_contended` is the counterexample. `Safe` types the walks, rows and queues
and says what a row's lock is held for (`LocksWell`): the row of a walk that has
not committed its UPDATE still accepts it when it does. Every action is then shown to leave a job in one of the few ways
`RowStep` lists (unchanged, moved on, ended with its credits settled at once), and
the four theorems are read off that list instead of off thirty actions.

`PollClaimsProofs`: `TypeCorrect`; `ClaimsDoExclude`, `Spec => []ClaimsExclude`.
`PollInv` says that a row's claim is either committed or still behind a row lock,
never both, and that until some tick rolls back and goes on (`rolled`) every render
of a tick's batch is held by that tick's claim: nobody reschedules, drops or
outlives it without taking it off that batch.

`CheckoutProofs`: `TypeCorrect`; `CreditedAtMostOnce`, `Spec => []CreditedOnce`;
`RecordedIsBooked`, `Spec => []RecordedIsCredited`. UNIQUE(payment_reference) stops a
second purchase; what needs the invariant is the webhook that records its event
without booking. It works on the intent of that event and found it succeeded
(`ServesItsEvent`), a status no step takes back, so the purchase is there when the
event is recorded, however late.

### The browser

`ScriptBatchProofs`: `BatchTypes`, `BatchOneLiveJob`, `BatchForgetsNothing`,
`BatchStopsAtFailure` (`BatchSpec => []P` for `BatchTypeOK`, `OneLiveJob`,
`NothingForgotten`, `StopsAtFailure`). That two jobs of one item are not both alive
says nothing about where the item's run is, and is not inductive. `BatchInv` says
for each item what is shown of a run at each await (`ShownAsRun`), that a job shown
is one the server took (`JobIsTaken`), that only the job just taken or the one being
polled may be alive (`LiveIsAwaited`), and that an item shown in flight is run, waits
its turn, or was found so by a reload (`Accounted`). The reload is the longest: a
run cut off at its poll is polled again for the same job, and what was cut off
before is in `blind`. `QueueInv` adds the order of the queue to it.

`PagesProofs`:

* the button: `ButtonChargesOnce`, `SubmitSpec => []ChargedOnce`. `SubmitInv` says
  that an answer the page still waits for is about the key in hand (`KeysAreHeld`),
  and counts the keys let go of without word of a job (`LetGo`): no more than the
  refusals that were shown;
* the blocking studio: `BlockingEditsGoOut`, `BlockingSpec => []EditsGoOut`;
  `SavesTheLast` says that a save that is awaited with no edit behind it carries
  the last one;
* the job page: `WatchEndsWithTheJob`, `RecordsAreWhole` and `BarNeverGoesBack`
  (`StreamSpec => []StopsOnlyWhenOver`, `[]RecordIsWhole`, `ProgressNeverDrops`).
  `StreamInv` says that what a frame or the page holds was published under a number
  its job's log, or a publication rolled back, has used (`RowHeard`); that whatever
  says a job ended is right, or its cancel was published (`RowEnds`); and that an
  answer which says so counts every event the job had when it ended (`ReadWell`).
  How long the log then was never changes, and the log only grows (`RowGoesOn`):
  that is why an answer late by any amount takes nothing away, though a log goes
  on after its end;
* the editor: `ScreenShowsWhatIsSaved`, `UndoTakesTheLastStepBack`
  (`EditorSpec => []InSync`, `[]UndoGoesOneBack`). `EditorInv` says that
  an editor with nothing to send shows the revision it is on (`Saved`), and that
  the checkpoint at the index reads as that revision does, as will the one an undo
  is on its way to when it arrives, for nothing else is under way meanwhile
  (`Undoable`);
* the types: `ButtonTypeCorrect`, `BlockingTypeCorrect`, `StreamTypeCorrect` and
  `EditorTypeCorrect` are lemmas of their own, for they count. At most one request of
  a click is under way (`OnePerClick`), so the button's are no more than its
  clicks; a job's log with an event about to be committed stays within `MaxLog`,
  hence every frame in the air and the page's `lastEventId` (`RowWell`), and
  the requests within `MaxReads` and one for each end of a watch (`ReadsInv`); the
  bar shows 0, 100 or a progress some job reported, whichever path it came by
  (`Bars`); a blocking edit is one the author made (`Past`); the undo stack keeps
  between one entry and its cap (`Capped`);
* the tab: `TabsAreSafe` carries the safety properties proved of each page to
  `PagesSpec`, where a tab is on any of the six: a step of a page that is not
  open stutters on it. `PagesTypeCorrect` does it for the types:
  `PagesSpec => []PagesTypeOK`.

`CanvasProofs`: `CanvasTypeCorrect`, `FeedReplays`, `DeletesOnlyTheirOwn`,
`StrandsNothing` (`CanvasSpec => []P` for `CanvasTypeOK`, `FeedIsTheCanvas`,
`OnlyTheirOwn`, `NothingIsStranded`). `CanvasInv` has a part for each participant.
`ServerWell`: the log replays to the rows, a cascade included. `TabWell`: whatever
graph the tab may come to draw or send is over cards there are (`Drawable`), every
card of the acknowledged graph is in the view, or is one that was learned of
while an arrangement drawn without it waited, that its person removed, or that an
old arrangement put out of sight (`Covered`: this is what makes a diff delete no
other), and what waits has a flush to take it up (`Kept`); `ShelfInv` says that the
shelf holds graphs over known cards. `FreshWell` and `StreamWell` say as much of answers and
frames still on the way. What a fold over changes or operations preserves is
proved once, by induction over the set of its prefixes (`FoldedFacts`), and cited
for each of the folds.

`TabConverges`: `CanvasSpec => []Converged`. The property speaks of a tab that was
handed every change; the tab got there by folding batches, some of them late, some
twice and some of its own making, so the invariant speaks of each card and each
connection (`Things`) by itself, and of tabs that have not been handed everything
yet. `CanvasTrack`, proved on top of `CanvasInv`, says:

* of the feed (`FeedTrack`), that every batch still to be published is part of
  the log, in rising order; of an answer to a reload (`FreshTrack`), that it has
  what the server has of each thing not changed since the number it carries;
* of the tab, that it is `Stuck`, its stream lost with more changes in the log
  than a read returns and one of them unseen, and so will never be handed all; or
  that its frames, its answer and its kept-back changes are parts of the log in
  order (`Orderly`) and that it `Agrees`, as long as no change up to its cursor
  was skipped and nothing has aged;
* to agree (`BaseAgrees`) is, for each thing whose every change the cursor has
  passed: the last change of it is among the frames kept back, or none of it is and
  the acknowledged graph has of it what the server has. `FlightAgrees` says the
  same for a flush under way: the operations sent turn what the server has into
  what the tab will take for acknowledged (`Planned`), and of an answer on its
  way back, that every change between its number and the cursor is kept back.

Four facts about folds carry it: a change log folded in leaves of a thing what its
last change says (`FoldLatest`); a thing no change touches is left alone
(`HasFold`); the server's own fold of a request's operations writes to the log what
it does to the rows (`ApplyOpsAct`); and the request computed from two graphs turns
the one into the other (`DiffPlans`).

### What TLC found on the way

Inductive invariants were put to TLC before they were put to TLAPS, as
invariants of the runs' instances; of them `SpendInv` stays in a run, because it
contains the ledger's others. A first attempt to prove `Converged` showed that it said
both too much and too little. Too much: two long scenarios beyond the bounds
of `pages_races` falsified it, which are why `aged` looks at the log and at frames
kept back (section 3). Too little: it was said of a quiet tab only, and holds at
every moment.

### Only model-checked

Every safety property that a passing run checks is also a theorem; the
stronger statements one would like (whole transfers, no card deleted by an undo,
no watch ended before its job) are false of the code, and section 3 lists them.
Liveness stays
with TLC: `EverySubmissionEnds`, `ParkedWorkIsDropped`, `NoTaskStarves`,
`PaymentIsCredited`. Fairness and ENABLED are beyond TLAPS here.

## 5. What is not modelled, and the plan

Not modelled: see `components` with status `not_modelled`, each with its reason.
Within the modelled parts: completion hooks, fast retry, pricing, the graph
itself, and the order of row locks across the two tables (a PostgreSQL deadlock
aborts one transaction, which is `Raise` or `Rollback`). Of the pages: the
canvas's edge ids, previews and save indicator; prompts, quotes and
drafts of a batch; what a command does to a cut, its edit plans and exports; what
an edit or a turn contains in the blocking studio, and the save made when it is
left. Most of the front end's lines are panels, forms, drawing and the
compositor, which keep no state against a server: the map covers a small share of
them. Hooks that do keep one and are not modelled yet: the canvas Agent's panel,
uploads, the editor's exports and proposals, and the admin console's job stream.

Next, in this order:

1. `Redemption`: cap, once per user; unlocks with their grant row.
2. `MediaBreaker`, with the failover that consults it: windows, trip, probe.
3. Editor exports and edit plans; the canvas Agent's runs and completion hook.
4. `RoyaltyPlan` and `Lineage`: pure algorithms against reference definitions.
5. `WorkflowGraph`: the walk over an arbitrary validated graph, of which
   `JobLifecycle`'s nodes are an abstraction.

## 6. Running

    tlc -workers 2 -config ledger_races.cfg MCCreditLedger
    tlc -workers 2 -config job_races.cfg    MCJobLifecycle
    tlc -workers 2 -config poll_claims.cfg  MCPollClaims
    tlc -workers 2 -config checkout_races.cfg MCCheckout
    tlc -workers 2 -config pages_races.cfg MCPages
    tlapm CreditLedgerProofs.tla
    tlapm LedgerAuditProofs.tla
    tlapm JobLifecycleProofs.tla
    tlapm PollClaimsProofs.tla
    tlapm CheckoutProofs.tla
    tlapm ScriptBatchProofs.tla
    tlapm CanvasProofs.tla
    tlapm PagesProofs.tla

The longest run, `pages_races`, takes between three and four minutes; each proof module takes up to ten from nothing, `PagesProofs` up to twenty.
