# Agent-first outreach: a TLA+ verification project

TLA+ models of the server in `src/` (a multi-tenant outreach program: it finds
companies, has drafts written by a language model, queues approved drafts, mails
them, follows up and reads the replies), the TLC runs that check them on small
instances and the theorems TLAPS proves about them. Paths below are relative to
the repository (`src/routes/cron.js` is `src/src/routes/cron.js` in
`PROJECT.json`).

* `PROJECT.json` lists components, runs, the mutated forms that show each
  property can fail, the source lines of each definition, findings, hazards and
  theorems.
* `tlc -config X.cfg M` runs one configuration, `tlapm M.tla` checks the proofs
  of one module.

## 1. The system

One Node process per container serves HTTP (Express) and runs the scheduler
(`src/index.js`, node-cron). All lasting state is in PostgreSQL; several
processes may share it during a deployment. A statement outside a transaction
commits on its own, and every `await` lets other requests, other jobs and other
processes act.

| Component | State | Operations | Interacts with | Modules |
|---|---|---|---|---|
| Job leases (`services/locks.js`) | `app_locks` | `acquireLock`, `releaseLock`, `withLock` | every job, some routes | `AppLock` |
| E-mail queue (`routes/cron.js`, `services/email-sender.js`) | `email_queue`, `email_queue_failed`, parts of `companies` | `processEmailQueue`, `retryFailedEmails`, queue removal | leases, router, gate, pages, agents | `EmailQueue`, `Outbox`, `QueueOutbox` |
| Follow-ups (`routes/cron.js`, `routes/campaigns.js`) | `email_sequences` (steps >= 1), `company_followup_drafts`, `followup_sequences` | `processFollowUps`, `generateFollowUpDrafts`, approvals, resets | replies, opt-outs, clicks | `FollowUps` |
| Reply checker (`services/imap-checker.js`) | `imap_state.last_uid` | `checkReplies` | companies, sequences | `ReplyChecker` |
| Planned sendings (`routes/campaigns.js`, `routes/cron.js`) | `email_sequences` (step 0) | schedule handlers, promotion | queue | `PlannedSends`, `Spread` |
| Drafts (`routes/cron.js`, `routes/companies.js`) | `companies.bozza_*`, `company_email_versions` | `generateEmailDrafts`, edit, approve, restore | queue copies the text | `Drafts` |
| SMTP router (`services/smtp-router.js`) | `smtp_accounts.sent_today`, `rr_position` | choice, decrement, midnight reset | queue and follow-ups | `SmtpRouter` |
| Send gate, tenants (`email-sender.js`, `test-mode.js`, `tenants.js`) | `tenants.is_active`, the `test_mode` setting, `test_recipients` | the tenant check, `resolveTestRecipient`, the switches | queue, follow-ups, the settings cache | `SendGate` |
| Companies, agents, funnel, CMS | `companies.funnel_stage`, the CMS opportunity | calls, bookings, corrections | queue | `Funnel` |
| Municipality search (`routes/cron.js`, `services/serper.js`, `services/cache.js`) | `municipalities`, `daily_api_usage`, `response_cache` | `processMunicipalities`, `searchCompanies` | leases | `Intake` |
| Scraper (`services/browser-pool.js`) | the browser, its contexts, a counter | `acquirePage`, `release` | scraping | `BrowserPool` |
| Settings, schedule, patterns | three caches per process | load, expire, write | all jobs | `Caches` |
| Authentication | `magic_links`, users, tokens, a cache of users | login, every request's check | all routes | `Access` |

What is hard, and what must hold:

* **Leases.** Expiry is judged with the challenger's TTL; a release names the
  process, not the call; crashes leave leases behind. No two calls of a job at once
  while none outlives its lease; an orphaned lease is taken over.
* **Queue.** A claim, a fresh check, an SMTP dialogue and a transaction per item,
  with opt-outs, approvals, consents, removals and retries in between; the process
  can die anywhere. A company is mailed once; not after it opted out; a cold one
  only when a person asked; no failure is forgotten; no claim stays.
* **Follow-ups and replies.** A batch copies its rows and takes minutes; approvals
  are two statements; generations and mailbox checks hold no common lease. A
  follow-up goes out once, not to who has withdrawn, and not with a text nobody read.
  No reply is passed over.
* **Planned sendings.** An INSERT and an UPDATE, each with its own `NOW()`. What is
  marked was queued.
* **Drafts.** Stored after a slow model call. What is sent was read by a person.
* **Router, intake, pool.** Counters taken before and given back after, with
  midnight or a second release in between. Budgets hold, but for what drifted over.
* **Gate.** The tenant is read, then the global test mode, from a cache of any age,
  then the recipient. No message goes elsewhere than some not too old state of the
  flags would have sent it.
* **Funnel, caches, access.** Read, wait, write; loads that overtake each other;
  links and sessions that outlive what they stand for.

`PROJECT.json` has each hazard at its line with the properties that would catch it.

## 2. Modules

All modules are state machines in which an action is one database statement or
transaction, one answer of an outside service, or one moment of the clock: other
actors may act in between. History variables (marked "history") are read by no
guard, only by properties; a bound that the code does not have is a constant or
a history counter named as a bound. Texts, wording and logging are left out.
Each module has the mutated forms its properties are tried against next to the
operators they replace; no specification uses them.

### AppLock

One lease name (rows of different names never interact). `row` is the
`app_locks` row, with the age of `locked_at` capped one past the longest TTL;
`run` what each `withLock` call is doing; `up` the live processes, each with its
random `INSTANCE_ID`. `Acquire`, `AcquireLost`, `Finish`, `Release`,
`ReleaseLost`, `Crash`, `Boot`, `Tick`. History: `overran`, `doubled`.

### EmailQueue, Outbox, QueueOutbox

| TLA+ | Code |
|---|---|
| `company` | `ready` = draft, approval and address; `inviato`, `unsubscribed_at`, `consent_status` |
| `row`, `rows` | `email_queue`; ids follow `created_at`; `old`: claimed thirty minutes ago |
| `letter` | `email_queue_failed`; `due`: an hour since the last retry. Ids of the two tables collide as in the database |
| `worker` | a call of `processEmailQueue`: place, rows to do, item, what the fresh check read |
| `asked` | send requests between their SELECT and their INSERT |
| `StartBatch`, `Claim`, `Check`, `EndBatch` | recovered claims, the claim, the fresh check with the scheduling gate |
| `PutBack`, `Refuse`, `Deliver`, `DeliverUnanswered` | campaign limit or no account; the outcomes of `sendCampaignEmail` |
| `Commit`, `CommitFails`, `CommitUnanswered` | the transaction that records a sending |
| `LogDead`, `LogDeadFails`, `MarkFailed`, `RetryOne` | `logFailedEmail`, the status, one dead letter of `retryFailedEmails` |
| `Ask`, `Enqueue`, `Approve`, `Withdraw`, `MarkSent`, `SetConsent`, `OptOut`, `Remove` | the handlers |

`Fault` and `Handler` select the failures and requests of a run.
`SaveSentAborts` chooses between the code as shipped (TRUE, see the findings)
and as it reads; with FALSE and the "commit" fault every behaviour of the
shipped code is included. The counts of the day are of recorded companies, as
the budget's SELECT counts them.

`Outbox` is the promise to the companies, in which there are no rows, batches
or retries: a message is begun only for a company that has neither opted out nor
been mailed (or whose mail was forgotten), and only what was begun is mailed,
once. `QueueOutbox` maps the queue to it: `begun` are the targets of batches at
the SMTP dialogue, `mailed` is `delivered`, `forgotten` is `unrecorded`.
`KeepsPromise` is `Outbox`'s specification under this mapping.

### FollowUps and ReplyChecker

`FollowUps` has `email_sequences` (`seq`, and `agenda`, the order of the rows that are
due by `scheduled_at`, as a set of pairs), drafts, templates, the batch with the copy it read (`Item`: what
the loop will decide of it, and whether a person has seen its text), generators
and approvals in flight. `StartBatch` is the SELECT (`FirstDue`: the first
rows of the order that pass its conditions, up to the LIMIT); `Drop`, `Skip`, `Take` the
branches of the loop; `Deliver` to `CountTry` the sending and its bookkeeping,
statement by statement; `Approve`, `ApproveAll`, `Edit`, `ResetRows` the draft
handlers; `OptOut`, `Click`, `SetMarketing`, `SetTemplate`, `SetTenant` what else
stops or frees a row. `ReplyChecker` extends it: `Seed`, `ReadMessage`,
`StoreReply`, `RejectReply`, `CancelReplied`, `SaveUid`, `BreakOff` are the
statements of `checkReplies`, and what they store is what `processFollowUps` reads.
The shipped statement of `imap-checker.js:85` has an unbalanced parenthesis and the
database rejects it every time (`ReplySaveAborts = TRUE`): `RejectReply` is then the
only outcome, and `StoreReply` is the statement once it is accepted. With FALSE and
the "reject" fault both are possible, and every behaviour of the shipped code is
included: `replies` and `follow_ups` run so, the theorems cover either value, and
`reply_stored` shows what the shipped statement comes to.

### PlannedSends, Spread

The handler's DELETE, whose rows are fixed by what its SELECT saw and locked,
and its INSERTs; the promotion's two statements; sequences cancelled by replies,
clicks and opt-outs. `Spread` has `addBusinessDays` and `batch-schedule-spread` as
operators, compared with `NthBusinessDay`, a definition by counting.

### Drafts

One company: `generateEmailDrafts` between its SELECT and its UPDATE, approval in
two statements and in bulk, edits with their versions, restoring, rejecting,
the failure count, the claim that copies the text and the check before it is sent.

### SmtpRouter

`account` is the row, `caller` a sending that chooses an account, holds it, sends
or gives its place back (`GiveBack`), or dies (`Lose`). `ResetDay` is midnight.
History: `sent` and `peak` since the last reset, `stray`, what calls of before it did
after it.

### SendGate

One message through the checks in code order: its tenant, the consent, the global
test mode, the recipient, the mail; meanwhile administrators switch the tenant
(`SetActive`) and test mode. `resolveTestRecipient` does not read the `settings`
table but what its process remembers of it, so `SendGate` extends `Caches`: in the
behaviours that follow the settings, `test_mode` is on after an odd number of writes,
`ReadGlobal` reads `cached`, and a process whose first load failed has no value, which
counts as off. The history is `message.floor`, the newest switch by this process that
was over when it asked for the settings; `onceActive`, whether the tenant was active
at some moment since it was looked at; `unread`, whether it could not be read, which
counts as active. `FlagsHonoured` lets the state of test mode that decides be any
since `floor`: a switch by this process binds from its own answer on, one by another
process from the next load, up to a minute later, and never after a failed load.

### Funnel, Caches, BrowserPool, Intake, Access

`Funnel`: requests that read the stage, wait and write it back, corrections, and
the opportunity in the CMS. `Caches`: a read under way and its answer, expiry,
writes by this process and others; a value is the number of writes it has
seen. `over` is the newest write of this process that has touched its cache; each
SELECT remembers what `over` was when it was issued (`since`), and `least` is that of
the value in the cache, or the write that put it there. The first load may fail, as
`start()` goes on without it. `BrowserPool`: contexts, the counter, releases whose `close()` is not over
and releases called twice. `Intake`: runs of `processMunicipalities`, slots of the
day taken and given back, answers kept, strikes. `Access`: links, sessions,
the cache of users, tokens, and users disabled or deleted meanwhile.

### Services

Puts the ten services around the queue side by side in one specification. Only
the gate and the caches share variables (the gate reads the cache, whose steps go on
in its behaviours), so a product of the rest would only multiply states: `focus`
names the one a behaviour is about, the others stay where they start.

## 3. Runs

| Run | Bounds | Shows |
|---|---|---|
| `lease` | 2 processes, 3 calls, TTL 2 | `ExclusionUnlessOverrun`; `FreshExclusionAcrossProcesses`: after an overrun too, calls within their TTL exclude each other, if each process runs one; `OrphanIsTakenOver` |
| `queue_faults` | 1 company, 3 rows, crash, lost answer, failed transaction | `OnceUnlessUnrecorded`, `FailedHasLetter`; `ClaimIsResolved` under fairness |
| `queue_consent` | 1 company, 2 rows, all handlers but the manual `inviato`; lost letters, answers and records | `ColdOnlyByHand`, `OptOutHonoured`, and the refinement `KeepsPromise` |
| `queue_cap` | 3 companies, batch 2, budget 1 | `CapExceededByLessThanABatch`: the budget is read once per batch |
| `follow_ups` | 1 company, 1 step, 1 batch, 2 generations, 1 mailbox check, 2 messages, every fault but overrun, every request | `FollowUpOnceUnlessUnrecorded`, `WithdrawalHonoured`, `OnlySeenTextIsSent` |
| `replies` | 2 companies, 2 checks, 3 messages, failures at every statement, the storing of a reply rejected or not | `NoReplyPassedOver` |
| `services` | two of everything concurrent, see `Services.cfg` | `BudgetKept`, `OnlyReadTextIsSent`, `PlannedIsQueued`, `BusinessDaysInOrder`, `MondayCounted`, `OwnWriteSeen`, `FlagsHonoured`, `StageMovesForward`, `OpportunityBacked`, `PagesBounded`, `SearchesWithinBudget`, `ServedWhileActive`, `OneLinkWorks` |
| `services_live` | 2 readers, 3 writes; 2 municipalities, 3 strikes, limits 0 and 1 | `CacheCatchesUp`, `TownsAreFinished` |

Violation runs, each a disagreement between the code and what it says of itself:

| Run | Statement | What happens |
|---|---|---|
| `lease_two_ttls` | a job holds its lease for the TTL it asked for ("Processamento già in esecuzione") | `municipality` is taken with 1200 s by the scheduler and 600 s by the routes; expiry is judged with the challenger's TTL, so a second search starts |
| `queue_save_sent` | what was sent is saved in the transaction | the statement has an unbalanced parenthesis and aborts the transaction; the retry sends the message again |
| `spread_doc` | "perDay al giorno, solo giorni lavorativi" | from a Thursday three days' companies land on one Monday |
| `reply_stored` | at the first reply the lead goes into the CRM ("al primo segno di interesse (has_replied)"), under fairness | the UPDATE of `imap-checker.js:85` is rejected, the check throws, and every later check stops at the same message. With `ReplySaveAborts = FALSE` and no "reject" fault the same property holds |

Why the bounds are enough to be interesting:

* Where a property speaks of one company and companies meet only in batches and
  budgets, one company is followed; `queue_cap` has three, `replies` two, each with
  its own address (migration 069 makes an address unique).
* Three queue rows let a company fail, be retried and fail again; ids of the two
  tables collide, so `Remove` hits the wrong one. `MaxRetry = 1` reaches the end of
  the retries. At `MaxRows` new requests wait, so the model may stop where the
  program does not: these runs do not check deadlock.
* Two generations, two sendings, two runs, two readers, two requests: every race
  here is between two. `SYMMETRY` exchanges the two; no action tells them apart and the
  run has no liveness property (`StageMovesForward` and `PlannedIsQueued` are
  action properties, which symmetry leaves alone).
* Limits 0 and 1 have the last slot contested and the limit lowered below what is
  used. Three scrapings share two pages of the browser. One
  municipality with two runs in `services`, two with a batch of one in
  `services_live`: the first can keep the second out.
* Three writes turn test mode on, off and on again under a message, by this process
  or another, with two reads of the settings under way.
* Several properties of the services exempt requests that overlap on one row
  (`slipped`, `overlap`, `raced`, `mixed`, `twice`, a stage that is not the one read):
  there the code does what the hazard says, each time, and the property is what is
  left. `BudgetKept` counts what the router handed out; a test mail an administrator
  sends from the accounts page does not pass it. The daily limit of `Intake` is what
  the process knows of the setting; how old that may be is `Caches`.
* Starts on each day of the week, with 5 and 13 companies and 1 or 2 a day, pass one,
  two and three weekends.

## 4. Fairness

* `AppLock!FairSpec`: time passes and processes are restarted by their container
  (weak); a lease that is free again and again is taken in the end (strong): the
  scheduler asks every few minutes, and losing means another call of the job ran.
* `EmailQueue!FairSpec`: a running batch goes on (weak; a crash ends it), half
  hours and days pass (weak), the job is started infinitely often if it could be
  (strong: it is asked every minute, while the budget may be spent or the lease held in
  between). Nothing is assumed of requests, retries or faults.
* `ReplyChecker!FairSpec`, used by `reply_stored`: each check is started every ten
  minutes from the stored position and goes on (weak); from some moment on connections
  last as long as a check. Without that nothing could be promised: a message is stored
  only by a check that reaches it. What the database makes of a statement is not up to
  fairness: a rejection is one way for a check to go on.
* `Services`: `CacheFairness` (the database answers, timers run out, somebody reads
  again) and `IntakeFairness` (the job is started every three minutes and a run goes
  on). The search service may fail every time and the limit may be 0.

## 5. Theorems

All constants are arbitrary, under the modules' assumptions. A proof module
extends the module it is about; `Init => Inv`, `Inv /\ [Next]_vars => Inv'` and
`Inv => P` are its steps, one case per action. Where a module has many actions
(`EmailQueueHandlingProofs`, `FollowUpsProofs`), lemmas first say which actions
change a variable, and how; everything later rests on those instead of on `Next`.

### Leases (`AppLockProofs`)

* `LeaseExclusion` (`ExclusionUnlessOverrun`). While nobody has overrun, the lease
  row names the process of the call that is inside and is exactly as old as that
  call, whose age is within the shortest TTL; so no challenger, whatever its TTL,
  finds it expired.
* `FreshLeaseExclusion` (`FreshExclusionAcrossProcesses`). When calls overrun this
  holds only of calls still within the shortest TTL (`FreshOwnsRow`), and needs
  `OneCallEach`: a process has one call of the name inside, or its late call would
  delete the row of its successor. `doubled` records that the assumption failed.

### Queue (`EmailQueueProofs`, `EmailQueueHandlingProofs`, `OutboxProofs`)

* `TypeCorrect` proves `TypeOK` with `Given`: batches and dead letters deal with
  rows that were inserted, which makes `Target(w)` a company.
* `MailedOnce` (`OnceUnlessUnrecorded`). At most one batch runs when none overruns
  (`OneBatch`) and, for each company not in `unrecorded` (`Accounted`): it was mailed
  at most once; if it was, it is recorded or its batch is about to commit; nobody is
  about to send to it.
* `OptOutsHonoured` (`OptOutHonoured`), for overlapping batches too.
* `NoFailureForgotten` (`FailedHasLetter`): the letter is written a statement before
  the row is marked, so `FailInv` also speaks of the row about to be marked; and a
  free place in the table of letters names no row.
* `ColdMailIsAskedFor` (`ColdOnlyByHand`): the consent is compared with the context
  of the row, which a retry copies from the row its dead letter speaks of. `ColdInv`
  says that a manual row's company was asked for, and that a letter that speaks of a
  row speaks of its company, removed rows included.
* `BudgetOverrunIsBounded` (`CapExceededByLessThanABatch`): the messages of the day,
  the rows a batch has still to send and the one under way are together less than the
  budget and a batch (`CapInv`); cardinalities of the sets the claim chooses.
* `QueueKeepsPromise`: without overruns `Spec => KeepsPromise`, the refinement. On
  top of `OnceInv` it needs `CommitCounted` (a message about to be recorded was
  counted). Each action is matched: the fresh check is `Begin`, whose guard is
  `Accounted`; a delivery is `Mail` or `MailUnheard`; a batch that moves on gives up
  what was on its way, or forgets what was not recorded; everything else stutters.

### Follow-ups and replies (`FollowUpsProofs`)

All are theorems of `ReplyChecker!Spec`, the follow-ups with the checker, for any
number of companies, steps, batches, generators, checks and messages.

* `TypesAreKept` (`TypeOK`). `TypeInv` adds that the agenda orders the rows that are
  due (a batch, a withdrawal and a row that falls due keep it an order), that a busy
  batch has an item, that no row waits with all its tries spent, and that a check that
  is storing has a message in front of it.
* `FollowUpsAreSentOnce` (`FollowUpOnceUnlessUnrecorded`). The rows of a batch differ,
  because `FirstDue` lists each row once (`BatchInv`); without overruns there is one
  batch, no row it holds is sent, and a delivered row is marked or about to be
  (`OnceInv`).
* `WithdrawalsAreHonoured` (`WithdrawalHonoured`): `HeardInv` says it of every item
  a batch still holds and not only of the one it sends. For overlapping batches too.
* `FollowUpsAreRead` (`OnlySeenTextIsSent`): outside `mixed`, an approved draft is one
  a person has seen, an approval in flight concerns the draft that is there, and a
  generator holds only rows without a draft, which no other generator holds
  (`SeenInv`).
* `RepliesAreReached` (`NoReplyPassedOver`): what is claimed up to `last_uid` holds up
  to the place of every check, overlapping ones included, because a check saves only
  the place it has reached; a check that has found whose reply it stores has found
  companies with that address (`ReplyInv`). It needs no assumption on failures, and
  holds of `ReplySaveAborts` as shipped as well: then no check gets past the first
  reply.

### Services (`SendingProofs`, `IntakeProofs`, `ServicesProofs`)

* `OwnWritesAreSeen` (`OwnWriteSeen`), for each of the three tables. `CacheInv` says
  that a SELECT answers with at least what was over when it was issued, that a write of
  this process still to be answered is stored, and that what is over is stored.
* `MailHonoursFlags` (`FlagsHonoured`), of the gate and the cache together. From
  `CacheInv`, what `ReadGlobal` reads is the state of test mode at a moment no earlier
  than its floor; `Passed` says of each place in the code what the checks before it
  found, and stays true while the table is written and the tenant switched.
* `AccountsWithinBudget` (`BudgetKept`): messages sent today plus callers that hold
  the account since midnight are at most `used` plus `stray`, and both `used` and the
  limit are at most `peak`. A decrement takes its caller out of the count, or is stray.
* `SearchesAreBudgeted` (`SearchesWithinBudget`): searches answered today plus those
  under way with a slot of today are at most `spent` plus `drift`, and `spent` is at
  most the highest limit of the day.
* `PoolWithinLimit` (`PagesBounded`): `CounterExact` says what the counter counts, the
  pages held and the releases under way less those called twice; a scraping inside the
  lock found room; every open context belongs to a page that is held, being made or
  being released.
* `DraftsAreRead` (`OnlyReadTextIsSent`): an approved company has no generator at work,
  unless `raced`. Its type needs a count: the failures so far and the generators at
  work never exceed what `GiveUpAfter` admits.
* `MarkedWasQueued` (`PlannedIsQueued`, an action property): between the two
  statements whatever can be marked has been inserted, unless something slipped in.
* `SpreadKeepsOrder` (`BusinessDaysInOrder`): the arithmetic of weeks and remainders
  is monotone. `SpreadFromMonday` (`MondayCounted`): from a Monday the weeks and the
  remainder number the business days without a gap (`DaysOfWeeks`), a bijection that
  gives the count (`DaysAreCounted`). From other days it is false: see `spread_doc`.
* `CmsIsNotAhead` (`OpportunityBacked`),
  `StageGoesForward` (`StageMovesForward`, an action property), `AccessIsGuarded`
  (`ServedWhileActive`), `OneLinkIsLeft` (`OneLinkWorks`). The invariants speak of
  the requests under way: a
  request that is to tell the CMS has taken the company that far; what a login request
  will delete is all that works of the links it has seen.
* `EachServiceAlone`: a behaviour of `Services` is a behaviour of each of its ten
  services, so what is proved of one holds in the composition. `ServicesAreTyped`
  (`ServicesTypeOK`) is the type invariant of them together.

### Model-checked only

The liveness properties `OrphanIsTakenOver`, `ClaimIsResolved`,
`CacheCatchesUp` and `TownsAreFinished`: fairness and ENABLED are outside what the
proof system does here. Every other property of a passing run is a theorem above.
The statements of the violation runs are refuted, not proved.

Where a theorem says more than its run: `follow_ups` has one row and one batch, so
that the order of rows, batches of several and overlapping batches are covered by the
theorems; `queue_cap` has a budget of one. Nothing rests on induction over data: the
lists the theorems speak of are read by index.

## 6. What the code does that no property contradicts

Met while modelling; each is what the code does every time, so a property would
only restate it.

* An opt-out between the fresh check and the sending comes too late
  (`OptOutHonoured` is the half that holds). Retries are counted per dead letter, and
  each failure makes a new letter: an address that keeps failing is retried without
  bound (docs/ARCHITECTURE.md:143 speaks of three attempts). A manual request that
  finds a row in the queue is absorbed by it, and stays automatic
  (`companies.js:345-346`).
* `requireAuth` sets no `tenant_id` on `req.user`; page routes that compare it (the
  manual send of a company, `send-batch`) find no row, and the CSV import throws.
  Only agents' tokens carry one. The modules model what the routes do once a row is
  found.
* The SELECT of the queue (`cron.js:774-786`) names neither `tenant_id` nor
  `consent_channels`, and the follow-ups build their company without them. So the test
  mode of a tenant is consulted for no sending of either (AGENT.md:501: "Consulta
  `isTenantTestMode(tenant_id)` in aggiunta al global `test_mode`"), nor is a company's
  consent per channel (AGENT.md:194-196), and the tenant's activation for follow-ups only.
* With the global test mode on, a message may still go to the real address
  (`mcp-tools.js:314`, docs/AGENT-BOOTSTRAP.md:388 and `test-mode.js:5-14` say it never
  does): another process's switch is unseen until the next load, and for ever after one
  has failed, as settings that were not read are never read again. `FlagsHonoured` is
  the half that holds. AGENT.md:530 calls the wiring of the tenants fail-closed; a
  tenant that cannot be read counts as active. The variable `TEST_MODE`, which stands in
  for a missing setting, is taken as unset.
* Statements with an unbalanced `tenant_id =$N)` are rejected by the database each
  time. Two are modelled, and shown by runs: `email-sender.js:200` (`SaveSentAborts`)
  and `imap-checker.js:85` (`ReplySaveAborts`). The others (`smtp-router.js:60`,
  `blacklist.js:61`, `api-tokens.js:68`, `email-sender.js:316`, `cms.js:344`, and
  several in `campaigns.js`, among them lines 160, 300, 421 and 708) write counters
  and copies that no modelled action reads, or are in handlers not modelled.
* A place that passes every check is inserted without the `tenant_id` that
  migration 087 made NOT NULL: the insert is rejected, the municipality gets a
  strike, and is given up after three. An exhausted daily limit costs strikes too.
* `processCmsSync` takes the same fifty companies for ever, since the stamp
  (`cms.js:344`) is rejected.

## 7. Not modelled

* Lists, searches, statistics, notes, alerts; creating, editing and deleting
  campaigns, companies and tenants; `cleanupErrors`: single statements whose effect on
  the modules is a row that appears or goes.
* Roles, rate limits, the signature of a JWT; `scopeTenant` and memberships.
* Scraping, extraction, imports, merge tags and scoring: parsing without state.
* The texts of mails and the model calls (an outcome in `Drafts` and `FollowUps`).
* The send window and the amount of a quota: comparisons with a clock or a count.
* The CMS sync jobs (above), its retries and its rate slots.
* The MCP table (it forwards to routes), views, locales, migrations.
* Row locks: waiting and deadlock between transactions. A transaction that PostgreSQL
  ends for one is a failed transaction.
* The test mode of a tenant and `consent_channels`, which no sending reads (above).
