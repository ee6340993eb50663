# A verification project for AI4S-Bench

This directory holds TLA+ models of AI4S-Bench: its back end
(`src/backend/src`, Python: FastAPI, SQLAlchemy on SQLite in WAL mode, a job
runner process), its public site (`src/backend/src/website_dist`, JavaScript
modules) and its dashboard (`src/dashboard-frontend/frontend`, React); the TLC
runs that check them on small instances; and the TLAPS proofs of what matters
most for every instance.

## 1. Inventory of the system

The system is a set of processes around one SQLite file. Three of them write it:
the API process (FastAPI, one event loop, many requests interleaved at every
`await`), the job runner (`jobs/runner.py`) and the Harbor v2 runner
(`control_panel/v2`). They share nothing else. A transaction that must read and
write consistently starts with `BEGIN IMMEDIATE` (`begin_immediate`), which takes
SQLite's single write lock; everything else runs statement by statement.
Outside are EC2, GitHub, Discord, an SMTP server and the workers on the EC2
instances, which call back over HTTP. In front are two browser programs, the
public site and the dashboard: each page keeps state of its own and talks to the
API with the session cookie, in requests that overlap, fail and are answered late
while the person goes on typing or changes account in another tab.

Paths of the back end are relative to `src/backend/src`, those of the public site
(`js/...`) to `src/backend/src/website_dist`.

| Component | State it keeps | Operations | What makes it correct |
|---|---|---|---|
| Database job queue (`control_panel/job_queue.py`) | `database_jobs`: state, attempts, lease owner and expiry, availability, dedupe key | enqueue, claim, complete, fail, defer | one holder at a time; only the holder settles; every attempt counted; settled for good |
| v1 run lifecycle (`control_panel/services.py`, `api/v1`) | `runs`, `worker_credentials`, `run_events` | create (single, manual, batch), cancel, worker claim / complete, handle_launch, handle_terminate, reconcile, mark_job_exhausted | every run ends; capacity; a machine per open run, none after; ended runs stay ended |
| Job runner (`jobs/runner.py`) | none of its own (memory only) | process_one, process_delivery_one, reconcile | safe to crash anywhere, to be slow, to run twice |
| EC2 provider (`control_panel/providers.py`, `bootstrap.py`) | EC2 instances, by `ClientToken` | launch, terminate | idempotent launch |
| Benchmark worker (`control_panel/worker.py`) | event queue, run directory | claim, emit, complete | lines in order; one completion |
| Harbor v2 (`control_panel/v2`) | `harbor_v2_runs`: state, owner, lease | enqueue_run, run_once, renew, execute | one Harbor invocation per run; every run ends |
| Outbound deliveries (`community/deliveries.py`, admin and mailing routes) | `outbound_deliveries`: state, attempts | enqueue, claim, send, complete, fail, resend, retry | nothing lost, nothing stuck, no needless duplicate |
| AI review publication (`community/ai_reviews.py`) | `ai_review_publications` (lease, comment and message identity, create-started flag), `proposal_ai_reviews` | submit, publish to GitHub, publish to Discord, recover | one sticky comment, one Discord message, only the latest review shown |
| Email codes (`mailing/verification.py`, `community/reviewer_otp.py`) | `email_verification_challenges` | issue, mail, supersede, verify, consume | a proof is used once, for its address, purpose and account |
| Temporary credentials (`core/temporary_auth.py`) | `temporary_credentials` | issue, redeem, revoke, batch under a key | one live credential per user and kind, redeemed once, for the address it was mailed to |
| Proposals and reviewer assignment (`community/routes.py`, `reviewer_assignment.py`, `reviewer_selector.py`) | `proposals`, `reviewer_applications` | apply, decide, assign, edit, delete, full sync | an assigned reviewer stays approved, fitting and not the author |
| Bulk mail (`mailing/admin_routes.py`, dashboard's `MailComposer.tsx`) | a batch key; the composer's form | preview, confirm, send, resend | sent again is queued once |
| Reviewer application page (`js/pages/reviewer.js`) | form, challenge, proof, session | send code, verify, apply | the proof is for the address shown |
| Account email (`js/account-verification.js`, `community/account_email.py`) | dialog, challenge; `users.email`, identities | connect GitHub, choose an email | a chosen address is proven and unique |
| Account header (`js/app.js`) | account shown, revision, sign-in windows | look up, sign in, poll, sign out, announce | the header ends up showing the session |
| Review drawer and list (`js/pages/task-reviews.js`, `discussion.js`) | drafts, open drawers, cached list, own reviews | open, type, autosave, discard, publish, load | drafts are their author's; own reviews stay listed |
| Review thread and format (`js/reviews.js`, `community/schemas.py`) | none (functions) | latest per reviewer, aggregate, render, parse | a review reads back as written; each reviewer counts once |
| Proposal page and editor (`js/pages/task-detail.js`, `task-edit.js`, `data.js`) | cached board, renders in progress, editor | render, edit, cancel, save | no unseen version is replaced |
| Submission form (`js/pages/submit.js`, `domains.js`) | answers, draft, domain list, step | type, tick, next, submit, reload | the draft holds the answers |
| Task board and timeline (`js/lifecycle.js`, `timeline.js`, `pages/tasks.js`) | filters; the task's record | derive status, stage, timeline, counts | one story everywhere |
| Contributors (`js/people.js`, `contributor-fields.js`) | rows | add, remove, type, store, read back | nobody changes name or affiliation |
| Tasks, plans and launches (`control_panel/services.py`, `App.tsx`) | `task_revisions`, `execution_plans`, the launch form | sync, post, plan, approve, queue one or many | a request is queued once, as a whole; a run fits its task |
| Reviewer applications panel (`App.tsx`, `community/admin_routes.py`) | filter, selection, draft of the details | filter, pick, type, decide, reload | a decision carries its own applicant's details |
| Pre-flight check (`js/task-check.js`, `pages/preflight.js`) | the report | read a PR, a folder, a branch; judge | a new task is judged as one |
| Dashboard shell (`App.tsx`) | account, view, hash, data, `loading` | route, operate, reload, sign in and out | URL and view agree; what one did is shown |
| Identity, configuration, documentation, deployment | sessions, settings | - | no protocol of their own |

How they interact: the API enqueues jobs and deliveries in the same transaction
as the change that needs them; the job runner claims them, calls the outside
world without holding the lock, and settles them in a later transaction;
workers and administrators call the API at any moment in between. The hard
behaviours are therefore the ones a unit test cannot schedule: what another
process does between two transactions of one handler, a process that dies or is
slow at the same place, a response that is lost, and a retry of what already
happened. In the browser they are the answer that arrives after the state it was
asked for is gone, the cache that is older than what the page did itself, and the
timer that outlives the form it belongs to. `PROJECT.json` lists them under `hazards`, each at its line.

## 2. Plan

In the order of what can go worst:

1. `JobQueue` + `RunLifecycle`: the job queue, the run lifecycle and the
   runner that drives both. **Done, with proofs.**
2. `LeasedWork`: the abstract promise of a leased queue; refinement checked and
   proved. **Done.**
3. `OutboundDelivery`: rows and operations of the deliveries, and
   `AIReviewPublication` on top of it: one publication, its lease, GitHub and
   Discord. **Done, with proofs.**
4. The public site with the handlers it calls (`MCWebsite`): email codes, the
   reviewer's application, the account's email and the header; reviews, editor,
   submission form, board, contributors, pre-flight check. **Done, with proofs.**
5. The dashboard with the handlers it calls (`MCDashboard`): shell, reviewer
   assignment (a run of its own, `MCAssignment`), invitations, bulk mail, the launch
   of runs with plans and task revisions, the panel of reviewer applications. **Done,
   with proofs.**
6. `HarborV2`: the lease of the v2 runner, its heartbeat and its final write,
   which take no lock. **Done, with proofs.**
7. `PlainDeliveries`: `process_delivery_one` for Discord and SMTP messages on
   `OutboundDelivery` (at least once, no lease), the retry of the mailing routes.
   *Left.*
8. Publication of a proposal before its local commit, rows of human reviews, the
   worker's event stream. *Left.*

Theorems left: none of a safety property a passing run checks; those of the models
in 7 and 8.

## 3. The models and the code

### 3.1 Atomicity, time and data, in all modules

A transaction that begins with `begin_immediate` is one action, and so is a
single UPDATE that carries its own condition (`claim`, `complete`, `fail` and
`defer` of the queue, `claim_delivery` and `complete_delivery`). A SELECT outside
such a transaction is an action of its own, and so is every call to EC2, GitHub
or Discord: whatever another process can do in between is explored.

Time is reduced to the comparisons the code makes, each a Boolean that a clock
action may flip: `expired` (`lease_expires_at < now`), `ready`
(`available_at <= now`), `stale` (`updated_at < now - 5 minutes`), `overdue`
(`deadline_at <= now`). `created_at` is a rank; rows of one transaction share it.

SQLAlchemy sessions are modelled where they matter. The sessions of the runner
keep objects after a commit (`expire_on_commit=False`) and do not flush on their
own, so the second transaction of `handle_launch` and `handle_terminate` gets the
object of the first one back from the identity map and writes only the columns
that differ from that stale copy: the variable `loaded` is this copy, the operator
`Flush` this rule. `resend_delivery`, `ReturnDelivery` and `FailDelivery` use the
same rule with the row in `resend` and `seen`.

A dead process never acts again. A restarted runner keeps its name, which only
makes more happen than in the code, where the owner contains the process id.

A handler of the API that takes the write lock before it reads is one action. One
that reads without it and writes when it commits is not: `create_plan` is a read and a
write (3.7), and of the handlers that reconcile a reviewer assignment every read and
the commit are steps of their own, with whatever else happens in between (3.7). A
request of a page is three: the call (with the cookie it carries), the handler, and the
answer the page acts on; an answer may be lost or late, and the person acts in between.

### 3.2 `JobQueue`

The variable `job` is the table `database_jobs`, one row per dedupe key
(`launch:<run>`, `terminate:<run>`). `Enqueue`, `Claim`, `Complete`, `Defer` and
`Fail` are the functions of the file, with `HoldsLease` their WHERE clause.
`LeasedWork` says what they promise together: one holder, only the holder
settles, a lapsed hold may be taken over while tries are left, settled for good.

### 3.3 `RunLifecycle`

| Variable | Code |
|---|---|
| `run`, `inst`, `recorded`, `overdue` | `runs.state`, `.instance_state`, `.instance_id IS NOT NULL`, `.deadline_at` |
| `credential` | the row of `worker_credentials` |
| `ec2` | what EC2 holds under the run's `ClientToken` (external) |
| `pc`, `work`, `loaded` | the position of a runner in `process_one`, its job, its ORM copy |
| `crashes` | bound only |

`CreateRun`, `CancelRun`, `ClaimWorker` and `CompleteWorker` are the API handlers,
`Reconcile` the periodic transaction. `handle_launch` is `LaunchNotWanted`,
`LaunchBlocked` (capacity), `LaunchStart` (first transaction), `LaunchCall` (EC2)
and `LaunchRecord` (second transaction); `handle_terminate` is split the same
way. The except blocks are `HandlerFails`, then `FailRead` (the row that decides
whether the failure is terminal, read without the lock), `FailWrite`, and
`ExhaustRead` / `ExhaustWrite`, the two statements of `mark_job_exhausted`. An
exception of the database inside an except block ends the process: `Crash`.
Not modelled here: `run.version` (no transition is conditional on it) and events;
plans and task revisions are `TaskLaunches`. Runs are never deleted.

### 3.4 `OutboundDelivery` and `AIReviewPublication`

A delivery is named `<<review, channel, k>>`: `k = 0` comes with the review,
`k > 0` is the GitHub update of the k-th reviewer assignment. Reviews are numbered
in the order of `(run_id, run_attempt)`.

| Variable | Code |
|---|---|
| `out` | the table `outbound_deliveries` |
| `latest`, `comment`, `started`, `message` | `ai_review_publications.latest_review_id`, `.github_comment_id`, `.discord_create_started`, `.discord_message_id` |
| `assigned` | `assigned_reviewer` of the publication and of the proposal, which the code changes together |
| `lease` | the holder of `lease_token` while `lease_until > now`; `Gone`: a dead process; `Admin`: a recovery |
| `github`, `discord` | what the two services show (external) |
| `pc`, `work`, `copy`, `seen` | the position of a runner in `publish_ai_delivery`, its delivery, the publication object it acquired, the row its except block loaded |
| `resend`, `recovery` | the administrators' requests in progress |

The steps of `publish_ai_delivery` are in the order of the function: claim (SELECT
and UPDATE apart), `Superseded` / `PublicationBusy` / `AcquirePublication`, then
inside `asyncio.timeout(60)` either `FindSticky`, `PublishGithub`, `SaveComment`,
`Decorate`, or `GuardDiscord`, `PatchMessage`, `StartCreate`, `PostMessage` /
`PostLost` / `PostRejected`, `ClearStarted`, `SaveMessage`; then `Complete`, or
`LoadRow` and `ReturnDelivery` / `FailDelivery`, and `Release`. `StepFails` is any
failure without effect, `Refused` a terminal one; the write of a request whose
response is lost is a disjunct of the request.

Assumptions about timing, which the code makes by its constants: a live runner
leaves the 60 s block before its lease of 120 s ends (guard of `LeaseLapses`),
and is done with a delivery before the 5 minutes after which it counts as stale
(guard of `GrowsStale` in `Tick`); a request takes effect, if at all, before its
sender gives up on it. A dead runner's lease lapses and its delivery grows stale
at any moment. In `RecoverStart` the administrator names what the channel shows.
There is at most one unlocked resend and one recovery at a time.

Left out: a second publication (publications share nothing but the runners), the
text of comments and messages except the review and the reviewer shown, labels
and reactions (idempotent), and the GitHub URL in the Discord embed.

### 3.5 `HarborV2`

| Variable | Code |
|---|---|
| `v2run` | the table `harbor_v2_runs`: state, `owner`, `lease_until` |
| `task` | where each runner process is in `_execute`, what it will write, and whether its heartbeat is between its read and its write |
| `machines`, `started` | EC2 instances Harbor has up for a run (external), Harbor invocations |
| `clean` | the runs of which Harbor reported every trial complete |

`RunOnce` is `run_once`, one transaction: every lapsed run is marked and the oldest
queued one claimed. `Execute` is `_execute`: checkout, Harbor, its result
(`TerminalState`; Harbor may also have been killed, its machine still up), and the final write, which is a read of the owner and a write by
id later (`FinalRead`, `FinalWrite`). `Heartbeat` is `_renew`, a read and a write as
well. So another runner can mark the run interrupted in between, and the late
result then replaces the interruption: the code does not promise otherwise, and
the result is Harbor's own. What it does promise is that a run is never started
twice (`OneHarborPerRun`), and a result that was reported stands (`RunsMoveOn`). A restarted runner has a new name (`Departed` owns what the old one had).

### 3.6 The public site

`MCWebsite` is the composition: every page is a browser document of its own and
they share no memory, so a behaviour opens one page (variable `page`) and the rest
stays as it starts. Every module has its own type invariant (`ReviewerTypeOK`,
`DrawerTypeOK`, ...), used while developing and in the proofs; the run lists the
properties that say more.

| Module | Variables and the code they stand for | Left out |
|---|---|---|
| `EmailCodes` | `codes`: the challenges in the order of creation, with mail, attempts, expiry, verified, consumed | the cooldown and hourly limit are a refusal that can always happen; deletion after 24 h equals expiry; delivery and the second transaction are one step |
| `ReviewerApplication` | `form`: the page's variables; `cookie`; `calls`: requests in flight; `applications` | the other fields of the form, one condition |
| `AccountEmail` | `accounts`: email and GitHub email; `tab`, `dialog`, `asks`; `choices`: a history of chosen emails | that a dismissed dialog is remembered |
| `AccountHeader` | `session`, `shown` (`accountUser`), `disabled`, `leaving`, `revision` (`accountRevision`), `window`, `waits` (intervals), `fetches`; `astray`: history | windows opened by other parts of a page |
| `ReviewDrawer` | `drawers` (closed ones keep timer and publication), `drafts` (localStorage), `replies` (GitHub, by the account the session has when the request arrives), `loaded`, `cached` and `published` (the page and sessionStorage); `typed`: who typed a text | the form's fields: a text is its edit |
| `ProposalEditor` | `stored` (`updated_at`), `board` and `method` (the cached promise of `data.js`), `renders`, `painted`, `editor`; `saves`: history | layout, the checklist |
| `SubmitTask` | `text`, `chips`, `primary`, `draftDomains`, `draft`, `list`, `current`, `visited`, `sessionV` and the rest of the page's variables; `wanted`, `chosen`: what the person chose | the fields, one text |
| `ReviewFormat` | `review` (the form), `comment` (the reply in the Discussion) | blank lines, limits of length |
| `ReviewThread` | `thread`: the list as loaded; a legacy reply may have no decision (`undecided`) | criteria other than one |
| `TaskBoard` | `record`: the control plane's record of each task; the filters | sorting, search by words |
| `Contributors` | `rows`; the stored strings as sequences | characters: a name is its parts between separators |
| `TaskCheck` | `base`, `head` (GitHub), `check` (what was read so far), `reports` | the rules on the content of a file, a Boolean each; PRs over 300 files |

`ReviewFormat`, `ReviewThread`, `TaskBoard`, `Contributors` and `TaskCheck` are
mostly functions, compared with an independent reference: the identity of writing
and reading, the newest review of each login by brute force, the stages counted
one task at a time, and the rules for a new task told by what existed before.
`Subsequences` says what a `filter` call keeps of an array: the elements at some
indices in their order, without recursion, so that the proofs can use it.

`AccountHeader` models what the header itself can be told. It ends up right unless
something announced an account that was no longer signed in or a look-up failed
(`astray`): a poll that was sent before a sign-out and is answered after it does
so in the code, and the next look-up repairs it.

### 3.7 The dashboard

`MCDashboard` composes in the same way, except for `ReviewerAssignment`, which
`MCAssignment` checks with its dialog in a run of its own.

| Module | Variables and the code they stand for | Left out |
|---|---|---|
| `DashboardShell` | `role`, `version` (the server), `account`, `polling`, `view`, `hash`, `due` (effect and listener to run), `calls`, `reloads`, `lock`, `ops` (the version shown); `own`, `blurred`, `entry`: history | which rows an operation changes |
| `ReviewerAssignment` | `apps`, `proposals`, `shown` (the AI review's reviewer), `sessions` (of a request without the write lock: the rows it loaded, and as it holds them), `dialog`, `asks` | other columns; pending and rejected are one |
| `Invitations` | `creds`, `email`, `batches` (mails queued), `panel` (the preview and its key), `requests` | inactive users and missing mail are a refusal |
| `MailComposer` | `composer`, `address`, `posts` (sends on their way), `queued` (batches); `sent`: history | text: a number |
| `TaskLaunches` | `revisions`, `plans`, `runs` (the tables), `planning` (`create_plan` between read and write), `posted` (requests; the index is the Idempotency-Key); `answers`: history | CPUs and memory are one size; agents are "oracle" or another; timeouts, links of a revision; what a queued run does |
| `ApplicationsPanel` | `dossiers` (the table), `queue` (as loaded), `lists` (on their way), `filter`, `picked`, `draft`, `op` | the other columns; GitHub login and notes are one text |

In `ReviewerAssignment` applications are made for the topics in `AppliedFor` only,
while proposals and syncs range over all: a topic nobody applied for is enough to
make an assignment unfit. What is one action there and what is not follows the lock.
`assign_proposal_reviewer` and `submit_ai_review` begin IMMEDIATE. `Apply` is one
action too: `create_reviewer_application` flushes the new row before it selects the
assignments it replaces (`routes.py:222-231`), and that INSERT takes the write lock
until the commit. A decision (`DecideBegins`, `DecideLoads`), and an author's edit or a
full sync (`RewriteBegins`), only SELECT until they commit: autoflush is off, so a
session holds what it changed in memory, answers a second read of a row from its copy,
and at the commit writes the columns that differ from what it loaded (`Written`). The
proposals and the application are loaded, reconciled (`Reconciles`) and committed
(`Commits`) in steps of their own, between which assignments, applications, reviews
and other such requests commit. The queries of one reconciliation are one step, and a
full sync is one Discussion. (`enqueue_delivery` inside a reconciliation can flush,
which takes the lock from there on; only when the sticky comment is on record, so that
the model has the behaviours without it as well.)

So the two promises of `reviewer_assignment.py` can be broken: the run
`Assignment_raced` shows it of the first, and the second fails in the same window (a
handler finds no AI review of the proposal, one is submitted and records the reviewer,
and the handler commits the clearing). What the code does ensure is that nothing else
breaks them: `Overtaken` says of a session that a row it read of the
proposal, its application or its AI review was written since, or that the proposal was
assigned to the application after the session looked for such proposals, and
`OnlyOvertakenMisassign` and `OnlyOvertakenMisname` that only the commit of such a
session leaves an ineligible reviewer or a wrong name. A commit that was not overtaken
repairs what it loaded.

In `TaskLaunches` a request may be handled any number of times, because its sender
retries. The dashboard draws a new key at every click, so a lost answer followed by
a second click is a second request, and queues again; retries under one key are
those of clients of the API. `resolve_instance_config` says that it chooses the
smallest instance and takes the first of the allowlist that is large enough, which
is the smallest in the order the list is configured in. A batch that is sent again
resolves every task before it finds the runs it queued: if the requirements grew
meanwhile it is refused, and its runs stay as they are.

In `ApplicationsPanel` a text carries the application it was typed for. Which one is
open follows from the list, the filter and the selection; the effect that replaces
the draft depends on the application and on the details on record, so a reload that
changes neither keeps what is being typed. Two administrators who decide on one
application overwrite each other: the last one stands, and nothing says otherwise.

## 4. The runs

Passing runs; the number of distinct states is what TLC reports.

| Run | Instance | States | Question |
|---|---|---|---|
| `RunLifecycle` | 1 run, 2 runners, 2 attempts, 1 crash; or 2 runs, 2 runners that launch them, capacity 1 | 652 910 | can runners that overlap, lose leases and crash harm a run or its machine? is the capacity kept by launches at the same time? and the queue implements `LeasedWork` |
| `ControlPanel_live` | v1: 1 run, 1 runner, 2 attempts, 1 crash; v2: 2 runs, 2 runners, 1 crash | 34 427 | does every run of both versions end, every lease come back, every termination resolve? does a v2 run start Harbor once, and its result stand? |
| `AIReview` | 1 review, 2 runners, 2 attempts, 1 crash, 1 resend or recovery; or 2 reviews, 1 assignment, 2 runners, first attempts | 2 008 336 | is anything created twice or forgotten? is only the latest review written, and is what is completed on display? |
| `AIReview_live` | 1 review, 1 runner, 2 attempts, 1 crash, 1 resend or recovery | 136 962 | is every delivery settled in the end? |
| `Website` | 11 pages, bounds below | 562 653 | do late answers, stale caches, changes of account and reloads mix up what belongs to whom, lose what was typed, or tell two stories? |
| `Dashboard` | 5 pages, bounds below | 1 105 537 | are decisions, invitations, mails and launches right under lost answers, retries, stale drafts and overlapping reloads? |
| `Assignment` | 1 proposal, 1 dialog, 2 accounts, 2 applications, 1 handler without the lock; or 1 account, 1 application, 2 such handlers | 1 354 149 | does anything but the commit of an overtaken handler leave an ineligible reviewer, or an AI review that names somebody else? |

`Website` checks: `EmailsAreProven`, `ProofIsForShownEmail` (codes, application,
account email), `HeaderTellsSession`, `DraftsAreOwn`, `OwnReviewsStayListed`
(drawer), `NothingUnseenIsLost` (editor), `DraftKeepsAnswers` (submission),
`WrittenReadsBack` (reviews and contributors), `NewestReviewCounts`,
`BoardTellsStatus` and `JudgedByWhatExisted` (pre-flight check). `Dashboard`
checks: `UrlLeadsToView`, `OwnChangesAreShown`, `OnlyNewestIsOpen`,
`InvitesAreSpentFresh`, `RetriesActOnce` (batches of invitations, mails, runs and
batches of runs), `RunsFitTheirTask` and `DecisionsAreForTheirApplicant`.

What three of them leave open. `OwnChangesAreShown` exempts pages whose reloads failed or
overlapped (`blurred`), for `loadOps` orders no answers: that case is a hazard no
property covers. `RunsFitTheirTask` compares a run with what its task was known to
need when the plan was made: the code compares it with nothing later, so requirements
that change under a plan are not covered either. `NothingUnseenIsLost` has one account:
that the page renders again when the account changes, and drops the text in an open
editor (`task-detail.js:412-414`), is outside of it.

Three runs explore two settings each, because the product of both is too large. The
constraint `Within` of their MC modules lets a second run be created only where nothing
has crashed, no launch is claimed twice and no termination is claimed (which changes no
run's state); a second review or an assignment only where nothing has crashed or been
resent and no delivery comes up again after an attempt; and a second handler without
the lock only while one account, one application and one topic are named. It also keeps
a crash and a resend of one delivery to one runner at a time.

Why the bounds are enough to be interesting: two runners are enough for one to
hold a lapsed lease or a stale row while the other works on the same one; two
attempts for a retry and for the last attempt; one crash for each position to be
the one that is lost; two runs against a capacity of one for the count to matter;
two reviews for one to supersede the other at any position. On the pages: two accounts and two
addresses, so that an answer can be for the wrong one; two codes, so that one can
void the other; two drawers, so that one is closed and still at work; two requests
of a kind, so that they overtake each other; three versions of a proposal, so that
one lands before and one during a save; three credentials of a user, so that one
is replaced twice; three reviews or rows, for a newest, an older and another's; two
tasks and three machines, so that the first machine listed is ARM, the second too
small for one task and the third large enough for both; two lists of applications
on their way, so that the older one arrives last.
One sign-in window suffices for polls of one interval to overtake each other and a
sign-out. One handler without the lock is enough to be overtaken by the dialog, an
application or a review; two, to overtake each other. A behaviour of the assignment
runs ends when the proposal is deleted and no dialog is open on it (`Over`). What the bounds leave
out is what the theorems are for. `CHECK_DEADLOCK FALSE` everywhere: when every
run has ended and every job and delivery is settled or given up, the system stops.
`Symmetry` permutes runners, runs, accounts, addresses and tasks in the safety runs
only, and only those that are told apart by name alone. The pages stop at the
bounds of their inputs.

**Fairness** (liveness runs). The runner loop never returns and its statements end
(`WF` of each handler), the service manager restarts a runner that died (`WF` of
`Restart`), an idle runner claims what is claimable (`WF`), `reconcile` is called
every 15 s by the same loop (`SF`, because the loop alternates it with jobs), and
clocks advance (`WF`); an API request that began ends. A v2 runner is restarted by
systemd (`Restart=on-failure` of `backend/systemd/ai4sbench-harbor-v2-jobs.service`),
Harbor comes to an end, and the lease of an owner that is gone runs out; a live
owner's lease need not, and its heartbeat is not obliged to renew it. Nobody is obliged to
create, cancel, submit, assign, resend, call back or crash. Liveness holds with
the exceptions the formulas name, and they are the code's: a job or a delivery
whose runner died in its last attempt is never claimed again (`Abandoned`), and a
delivery that was requeued while a terminal failure was being written is left
pending without attempts.

### What the code does not ensure

Five runs end in a counterexample; each is a statement of the repository about
itself.

- `RunLifecycle_leak` (`TerminatedMeansGone`): a run that is cancelled, timed out
  or completed between the two transactions of `handle_launch` is written as
  `terminated` with no terminate job, because `instance_id` is not on record yet;
  the second transaction then records the instance without looking at the state.
  The instance is never terminated.
- `AIReview_stuck` (`SendingIsBeingSent`): a delivery whose runner dies in the last
  attempt stays in `sending`; nobody claims it and resend refuses it as being sent.
- `AIReview_sticky` (`StickyShowsReviewer`): a reviewer assigned while the first
  sticky comment is being created is not shown in it, and no update is queued.
- `Assignment_raced` (`AssignmentsAreEligible`): an edit or a sync loads a proposal
  without a reviewer, so that it will not reconcile; a reviewer is assigned; the commit
  makes that reviewer the author. A sync's domain does the same, and an assignment
  that commits between a decision's SELECT of assigned proposals and its commit
  survives a rejection. "Clear assignments that no longer match a changed proposal or
  application" (`reviewer_assignment.py:38`).
- `Assignment_revived` (`OffersAreNewest`): `reviewer_selector` passes over an
  application whose login was seen with somebody else before it counts its user as
  seen, so an older approved application of that user is offered again, although
  the comment below says that it is not revived. It takes an administrator who
  corrected logins on the applications.

## 5. The proofs

Proved with TLAPS for every value of the constants, from the named assumptions of
the modules only (finite sets of runs and deliveries, positive bounds, the model
values for "nobody" distinct from processes; `DeliveryAssumption` and
`PublicationAssumption` fix the names of deliveries). Of the pages they assume what
the code's data are: a proposal that is edited has a first version (`MaxVersions` at
least 1), no view of the dashboard is called `""` or `"other"` (the model's names for
no hash and an unknown one), tasks and task revisions are finite (rows of a table),
a machine's name is its key, domains are numbered in the order of their list, and
"none", which the stored string of affiliations says for a contributor without one,
is nobody's affiliation (`splitContributors` reads it so). A theorem about a page or a
panel is about the module's own specification (`DrawerSpec`, `PanelSpec`, ...) where it
has state of its own, and about `Spec` of the composition where pages share a table.
Three theorems carry the former over to the compositions the runs check:
`SiteKeepsPages`, `DashboardKeepsPanels` and `ControlPanelKeepsBoth` show that the
composition implements each part's specification (every step of it is a step or a
stutter of the part), and `SiteIsRight`, `DashboardIsRight` and `OneHarborInEither`
conclude that every safety property of those runs holds of the whole.

**`RunLifecycleProofs`.** `TypeOK`, `LaunchDoneMeansLaunched`,
`TerminateDoneMeansGone`, `TerminatingIsOwed`, `OpenRunKeepsMachine`,
`CapacityRespected` and `EndedRunsStayEnded`. The safety properties are not
inductive alone: that a launch is completed only when the instance is recorded
depends on what the runner that completes it went through, and it may have lost
its lease on the way. `IInv` therefore adds `RowInv` (an absent row is blank, a
leased one has used an attempt), `WorkInv` (a busy runner has a row, of the kind
its position says), `RunInv` (a launch row belongs to a run that was created, a
terminate row to one that ended with an instance on record, a recorded instance
exists) and `RunnerInv` (what has been achieved, whoever holds the lease now,
when a runner reaches its position). One lemma per action, then `Invariance`.

The end of the module shows that the queue as the runners drive it implements
`LeasedWork` (`QueueRefines`). The one step that is not obvious is failure: whether it is terminal
is decided from a row read outside the transaction. `VerdictInv` says that if the
UPDATE still matches, the lease was never lost in between, so the attempts read
are the attempts now.

**`HarborV2Proofs`.** `OneHarborPerRun` and `RunsMoveOn`. Neither the owner nor the lease of a row says
whether its run was started: both may belong to somebody else by the time a runner
acts. `HarborIInv` follows the runners instead: a queued run was never touched
(`Waiting`), a busy runner works on a run that is no longer queued and knows how far
Harbor got (`Holding`), only a runner at work renews (`Renewing`), and no two work on
one run (`Alone`), because a run is claimed from `queued` only and never returns to it.
`RunsMoveOn` needs it too: the final write is by id alone, and that the run it hits has
no result yet is `Holding`.

**`AIReviewProofs`.** `TypeOK`, `OneComment`, `OneMessage`, `NoForgottenMessage`,
`CompletedMeansShown` and `OnlyLatestIsWritten` (`TypeOK`, which says among others
that a returned attempt takes no count below zero, is proved only). The idea of
`IInv`: who is in the timed block holds the lease and works for the latest review
(`HolderInv`), because a lease lapses only when its holder is out of the block and a
review is accepted only when there is no lease. So at most one runner is in the
block, and what it knows cannot change under it: its copy of the comment agrees with
GitHub once `find_sticky` has run (`StickyInv`), there is no message while it is
about to post and the mark is set when it does (`MessageInv`), and what it is about
to complete is on display (`ShownInv`). `RowInv` ties runners and requests to rows
that exist. Steps outside the block share the lemma `Quiet`, steps of the holder the
lemma `HolderStep`.

**`PanelProofs`** (dashboard). `OnlyOvertakenMisassign`, `OnlyOvertakenMisname`,
`DecisionsAreForTheirApplicant`, `UrlLeadsToView` and `OwnChangesAreShown`.
- `AssignmentInv` says what a session without the lock holds (`Knows`): of every
  proposal it loaded either the assignment as loaded, not yet reconciled, or one that
  the application as held allows, with the name that goes with it (`Tracked`). If
  nothing was written since, that is what the commit leaves; if something was, the
  session counts as overtaken. `PromisesHoldUnlessOvertaken` concludes that in a
  behaviour without such commits (`NeverOvertaken`) both promises of
  `reviewer_assignment.py` hold.
- `PanelInv` follows the texts (`OwnTexts`): what an application on record, in the list
  shown or in a list on its way holds was typed for that application, the draft for
  the one that is open, the operation for the one it is about.
- `UrlInv` adds to the property that a link the page was opened with is still in the
  hash, and that nobody polls for a sign-in before the session was checked.
- `ShowInv`: as long as a series of reloads neither failed nor overlapped (`blurred`),
  either nothing is under way and the page shows its own operations, or the one reload
  under way has not been read, will fail, or carries them (`Settled`).

**`RequestProofs`** (dashboard). `OnlyNewestIsOpen`, `InvitesAreSpentFresh`,
`RunsFitTheirTask` and `RetriesActOnce`.
- `InvitationInv` says that of a user's credentials of a kind all but the last are
  closed; since a redemption takes an open one whose address is the account's now,
  what is spent is the newest, and closed ones never open again.
- `BatchInv` (`KeysOnce`): a credential's key is that of a queued batch and occurs once
  among its user's, so a batch that is sent again finds its key and issues nothing.
- `MailInv` (`Remembers`): the composer on screen knows text and key of the last send,
  if it was its own; a key has one batch.
- `LaunchInv`: plans fit what they were resolved for (`LaunchShape`), runs have the key
  of their request and task and an approved plan (`RunsInv`), and a request that
  queued anything was answered with one run for each of its tasks (`AnswersInv`).
  A set of runs that has one for each task has as many as tasks (`AsManyRuns`).
- `RequestsInv` puts the pages together for `Spec`: on the page of the users it is
  `BatchInv`, on the others there are no credentials.

**`PageProofs`** (site). `DraftsAreOwn`, `OwnReviewsStayListed`, `NothingUnseenIsLost`,
`DraftKeepsAnswers`, `JudgedByWhatExisted`, `NewestReviewCounts` and
`BoardTellsStatus`.
- A timer that fires or a publication that is answered after the account changed
  writes for the reviewer the drawer was opened for; `DrawerInv` therefore follows the
  text through the drawers (`OwnDrawers`). `ListsInv` says the same of the lists read.
- `EditorInv`: while a save is checking or writing, what it read as stored is what was
  stored then, and its base was compared with it (`KnowsItsBase`).
- `SubmitInv`: once the list of domains is there the chips hold the answers
  (`AnswersTicked`), until then the domains kept from the draft do (`AnswersHeld`).
- `CheckInv`: unless a push overtook it, the check in flight knows the head, and the
  list of files tells what existed before it, rename or not (`TellsBefore`).
- `ThreadInv`: the reviews' times are a bijection onto `1..n`, wherever the reviews
  stand in the list, so the sorted order exists and is one; the panel then counts
  every login at its newest review.
- The board has no invariant beyond its type: for every record, status, stage, steps
  and badge are compared by cases (`StagesAre`, `StepsFit`), and the counts with the
  tasks the filter lists, by the theorems on finite sets.

**`AccountProofs`** (site). `HeaderTellsSession`, `EmailsAreProven` and
`ProofIsForShownEmail`.
- The header is right when nothing is in flight, so the invariant has to say what is
  owed while something is: `Bookkeeping` (a look-up has a revision of its own, none is
  newer than the page's, and the button is disabled only while an interval polls) and
  `Settled` (unless it was led astray, or a window or a sign-out has yet to report: the
  newest look-up on its way carries the present cookie, and without one the header
  shows the session).
- Two pages, the reviewer form and the account dialog, work on one table of codes. What
  they need of each other is `Onward`: a code stays in its place, for the same address,
  purpose and account, and one that was mailed or has served stays so. `ReviewerInv`
  (`FormFits`, `CallFits`, `ApplicationsFit`) and `DialogInv` (what was chosen is apart
  from the others' and was proven) are kept by every step that moves the codes onward;
  `EmailsInv` is both.

**`WebsiteProofs`** (site). `WrittenReadsBack`, and the site as a whole.
- The invariant is that the reply in the Discussion is `ToComment` of the review
  (`FormatShape`); for the contributors that the rows are rows. The rest is about
  functions, for texts and rows of any length.
- Reading a review is the inverse of writing it, section by section. The rendered reply
  is a sequence of joined parts; `Between` finds the first of the parser's headings or
  labels in it (`BetweenParts`), and what was typed contains none: `safeText` escapes
  headings, and the property excepts texts with the form's own markers. So each section
  is exactly the part written, and unescaping it, after the runtime line, the score
  lines and the padding are taken out, gives the text typed (`ParsedIs`).
- Of contributors, blank names are dropped and the others keep their order; whether the
  affiliations are one for all, one for each or none, the reader takes the same case as
  the writer and gives everyone their own.
- A filter keeps the elements at a set of indices, in their order (`KeptAt`). The order
  exists and is unique for a finite set of numbers (`Ascending`), so a sequence whose
  kept part is known piece by piece is known.

Where the informal argument would be an induction (a least domain, a newest review,
the greatest of the numbers drawn), the proofs take the least element of a set of
numbers, which exists because `<` is well founded on `Nat` (`WFMin`).

**Model-checked only.**
- Liveness (`EveryRunEnds`, `LeasesAreReclaimed`, `TerminationResolves`, `V2RunsEnd`,
  `DeliveriesSettle`): fairness and `ENABLED` are out of the prover's reach.
- The five counterexamples.

## 6. Not modelled

- **Plain Discord and SMTP deliveries**, **publication of proposals** and the rows
  of human reviews: protocols worth a model, left in the plan (section 2). The
  worker's **event stream** is a log that no decision reads.
- **Identity, OAuth and settings**: they rest on libraries; the pages see a session
  that begins and ends.
- **Fetching and parsing of task repositories, image builds, EC2 request
  building**: input and output.
- **The proposal checklist** (`proposal-check.js`, `proposal-advice.js`): advice
  from regular expressions over prose, which blocks nothing.
- **Home, profile, leaderboard, release, rich text and motion** of the site, the
  remaining panels of the dashboard: rendering of data that other components own.
- **Documentation search** (`document/search/lunr.js`): a vendored library.
- **Deployment and maintenance scripts**: outside the running system.
- Faults of SQLite or of its disk, clocks that run backwards, and a browser that
  loses its storage, are not considered.
