# EtiketAI in TLA+

EtiketAI reads the label of an imported product from a photograph, translates
it into Romanian, checks it against the law, lets an operator correct and
confirm it, and prints it. It is a set of Go services behind an API gateway,
with one PostgreSQL database per service, one Redis for all of them, and S3.

This directory holds TLA+ models of the services, TLC configurations that check
them on small instances, and proofs for TLAPS. Paths below are relative to the
repository.

1. [The system](#1-the-system)
2. [Modules](#2-modules)
3. [What the runs check](#3-what-the-runs-check)
4. [Where the code and its documentation disagree](#4-where-the-code-and-its-documentation-disagree)
5. [Fairness](#5-fairness)
6. [What is proved](#6-what-is-proved)
7. [Not modelled](#7-not-modelled)
8. [What is left](#8-what-is-left)
9. [Running](#9-running)

## 1. The system

### Components and their state

| Component | State | Operations | What makes it correct |
|---|---|---|---|
| **label-svc**, labels (`services/label-svc`) | rows of `labels` and `label_audit_log` | upload, AI pipeline (asynq handler), edit fields, confirm, delete | a label is confirmed only with a result, stays confirmed, keeps the operator's edits, and its audit log is true; every uploaded label settles |
| **label-svc**, products | rows of `products` | create, merge default fields, count prints | a field that was given stays until it is taken back |
| **agent-svc** (`services/agent-svc`) | `agent_configs`, its copy in Redis, call logs, rate limits in memory | vision with fallback, translation, validation against the rules, update and test the configuration | an update takes effect; old copies do not come back; the steps of the pipeline understand each other; a score tells what is missing |
| **print-svc** (`services/print-svc`) | `print_jobs`, PDFs in S3 | create a job, render and store (asynq handler), read | a finished job has its output; a job is not lost; leftovers are bounded |
| **api-gateway** (`services/api-gateway`) | rate-limit sets in Redis, open status streams | REST in front of all the others, print status stream, token checks | a stream ends when its job does; limits limit |
| **auth-svc** (`services/auth-svc`) | users, refresh tokens, verification tokens, login attempts | register, verify, log in, refresh, log out | an account can be verified; a dead refresh token yields nothing; tokens claim what their user had; the login limit holds |
| **workspace-svc** (`services/workspace-svc`) | workspaces, members, invitations, quota, subscription | invite, accept, revoke, count quota, Stripe checkout and webhooks | memberships follow invitations and revocations; plan and customer follow what was paid |
| **notification-svc** (`services/notification-svc`) | none | one e-mail per asynq task | sent at least once |
| **asynq in Redis** (a library) | tasks, leases, retries | enqueue, deliver, acknowledge, retry, recover, archive | at least once, at most `MaxRetry + 1` counted attempts |
| **admin-svc** | none | none (an empty gRPC server) | |
| **web**, **mobile** | a token, cached answers | the requests of users | |

### How they interact

* The gateway calls the services by gRPC (labels, agents, members, sessions) or
  HTTP (print jobs, products, billing) and keeps no state between requests but
  the rate limits and the streams that are open.
* label-svc and print-svc put work into asynq and run it themselves. All the
  asynq servers (label-svc, print-svc, notification-svc) serve the queue
  `default` of the *same* Redis (`infra/docker-compose.yml`), each with handlers
  for its own task types only: a delivery to the wrong server fails and costs
  the task a retry.
* label-svc's handler calls agent-svc three times (vision, translation,
  validation); the raw JSON of one answer is the input of the next.
* The print job takes a copy of the label's fields when the gateway creates it.
* Detached goroutines (audit entries, cache writes, call logs, verification
  tokens) are waited for by nobody.

### What is hard

Nothing in the repository tests the services' concurrency or their failures
(`tests/api/api_test.go` is a sequence of requests). The behaviours that make
the properties hard:

* *At-least-once delivery.* A handler that did its work is run again after a
  lost acknowledgement, an expired lease, a shutdown or a late error. Its
  statements carry no version and mostly no status guard.
* *Races of users and the pipeline* on one row, statement by statement.
* *Partial failure.* A row without its task; a status write whose own error is
  ignored; two statements without a transaction.
* *Stale copies.* The configuration in Redis, the label's fields in a job, the
  role in a token.
* *Detached work* that a crash loses or that arrives late.

`PROJECT.json` lists each of them at its line (`hazards`), with the properties
that would notice it going wrong or the reason why there is none.

## 2. Modules

| Module | Models | Checked by | Proved in |
|---|---|---|---|
| `AsynqTask` | one task of asynq: its state, its retries, and what delivering, acknowledging, failing and handing over do to it | through its users | |
| `LabelPromise` | the abstract life of a label's status | as a property of `LabelLifecycle` | |
| `AttemptedWork` | what both services promise about work they give to asynq | as a property of `LabelLifecycle` and of `PrintJob` | |
| `LabelLifecycle` | label-svc: rows, audit log, task, handler and operators of each label | `MCLabelService`, `MCLabel.cfg`; `MCLabelLifecycle` and three `Label*.cfg` | `LabelLifecycleProofs` |
| `Compliance` | one label from the translated fields to what is shown and printed of its compliance: agent-svc's rules, label-svc's columns, the gateway's answers, the copy in a print job | `MCLabelService` | `LabelServiceProofs` |
| `LabelList` | a client that pages through the labels of a workspace while they change | `MCLabelService` | `LabelListProofs`, `LabelServiceProofs` |
| `Products` | label-svc: default fields and print counters of products | `MCLabelService` | `LabelServiceProofs` |
| `LabelService` | label-svc as a whole: the four modules above that keep state, one of them running in each behaviour | `MCLabelService`, `MCLabel.cfg` | `LabelServiceProofs` |
| `PrintJob` | print-svc: row, objects in S3, task and handler of each job, and the gateway's status stream | `MCPrintJob`, `MCPrint.cfg` and two `Print*.cfg` | `PrintJobProofs` |
| `AgentService` | agent-svc for one workspace: configuration row, Redis copy, cache-writing goroutines, vision calls with fallback, and what translation does with their result | `MCAgentService`, `MCAgent.cfg` and two `Agent*.cfg` | `AgentServiceProofs` |
| `AuthSession` | auth-svc: accounts, verification tokens, refresh tokens, statement by statement | through `Accounts` | |
| `Membership` | workspace-svc: the rows of `workspace_members` under their unique indexes | through `Accounts` | |
| `Accounts` | the gateway's handlers for registration, sessions and members, over the two modules above | `MCAccounts`, `MCAccounts.cfg` | `AccountsProofs` |
| `SlidingWindow` | the login limits of auth-svc and of the gateway: overlapping attempts, the sorted set in Redis, its failures, and the DEL of a successful login | `MCAccounts` | `SlidingWindowProofs` |
| `Billing` | workspace-svc's checkout and webhooks, and Stripe on the other side | `MCBilling`, `MCBilling.cfg` | `BillingProofs` |

One step of a model is one statement on a database, S3 or Redis, or one call of
an agent: that is where other processes and crashes come in between.

### AsynqTask

A task is `pending`, `active` (leased), `completed` or `archived`, and knows how
often it was retried. A failed attempt counts, a shutdown's hand-over does not;
after `MaxRetry` counted failures the task is archived, where nothing touches it
again. A scheduled retry is a pending task: backoff only delays.

asynq cancels a handler's context when its lease or its deadline is lost, and a
crash ends it: a handler that was given up starts no further statement. But the
one it was executing may still be on its way to PostgreSQL or S3. `LeaseExpires`,
`Crash` and `Restart` leave it behind as `late`, and `LateWrite` carries it out
at any later moment, after the next delivery has begun and finished, too; then
`overlap` is set, for good. Two bounds are on this: of two such statements about
one row only one is followed, and a statement whose error the handler itself
*saw* has taken effect by then or never does (that is the choice in `MarkProcessing`
and the other steps).

### AttemptedWork

`AttemptedWork` tells what is left of a row and its task when one forgets
handlers, leases, crashes, agents and S3: work is *owed*, *closed* or
*abandoned* (`Phase` of the task), it used up some of its retries, and its
result is *missing*, *there*, *withdrawn* or *forfeited* (`Outcome` of the row's
status; forfeited once deliveries overlapped, after which nothing is promised of
the result, only of the work). A
result comes, and is taken back by another attempt, only while the work is owed;
work is closed only with its result unless it was withdrawn; it is abandoned
only when every retry is spent; what is closed or abandoned is not attempted
again. A label that was deleted is withdrawn, possibly before its task exists; a
print job cannot be, but is read before its task exists.

### LabelLifecycle

| Model | Code |
|---|---|
| `status`, `fields`, `confirmedAt` | `labels.status`, `.fields_translated`, `.confirmed_at` |
| `audit` | the set of actions of the label's rows in `label_audit_log` |
| `auditing` | the goroutine of `service/label.go:74` |
| `task`, `worker` | the label's `label:process` task and the position of `ProcessLabel` in it |
| `late`, `overlap` | a statement that a given-up handler left behind; history: a delivery began while one was outstanding |
| `Upload`, `Enqueue` | `LabelService.Upload`: the row is inserted and listed, then the task is enqueued, which may fail; `uploading` is the call between the two |
| `MarkProcessing` … `StoreResult` | the steps of `ProcessLabel` (`worker/worker.go:58-140`); a statement that reports an error may have taken effect |
| `UpdateFields`, `AppendAuditLog`, `Confirm`, `Delete` | the operator's calls |
| `promised` | history: what an operator changed on a *ready* row and the row then held |

The fields are abstracted to what the properties tell apart: which keys hold the
operator's value, and the shape of the jsonb column, because `||` does different
things to an object, to SQL `NULL` (the edit is lost) and to the JSON `null` of
an empty result (the column becomes an array). The agents are an oracle that
answers or fails. That is weaker than agent-svc as it stands: `AgentService`
shows that translation rejects every vision result today, so at present
label-svc only sees the failing branch.

### PrintJob

| Model | Code |
|---|---|
| `status`, `format`, `pdfKey`, `zpl`, `errorMsg` | the columns of `print_jobs` |
| `objects` | the PDFs of the job in S3; each attempt uploads under a new key |
| `task`, `worker` | the `print:pdf` task and the position of `ProcessPDF` in it |
| `late`, `overlap` | as in `LabelLifecycle`: an UPDATE with the values it carries, or a PUT, which costs an object when it lands |
| `CreateJob`, `Enqueue` | `PrintService.CreateJob`: insert, then enqueue, which may fail; `creating` is the call between the two |
| `MarkProcessing` … `StoreResult` | `ProcessPDF`, `processPDF`, `processZPL` |
| `stream`, `seen` | one client's `StreamPrintStatus`, and the status it sent last |

Rendering cannot fail: `pdf.Generate` returns an error only for a font size
below the legal minimum, and the sizes it computes are constants above it.

### AgentService

| Model | Code |
|---|---|
| `updates`, `saved` | the row of `agent_configs`: the number of the last upsert and the content of each |
| `cache` | which version `agent:config:<id>` holds in Redis |
| `fills` | the unfinished goroutines of `factory.go:125`, by the version they write |
| `pc`, `version`, `since` | `ProcessVision` calls: position, the version loaded last, and (history) the row's version when the call began |
| `UpdateAgentConfig` | the upsert; it replaces all providers and leaves the cache alone |
| `LoadPrimary`, `LoadFallback`, `LoadFails` | `loadConfig` from Redis or from the row, twice in a call that falls back |
| `ExtractFields`, `ProcessTranslation` | the providers, and the decoding of the vision result by the translation handler |

`RawJson` is the set of kinds of JSON values in the raw JSON of a vision result
and `Decodes` says which of them Go stores in a `map[string]*string`.
The translation agent behind a request that does decode is not modelled, as no
call of label-svc gets there.

### Compliance, LabelList, Products

| Model | Code |
|---|---|
| `Food` … `Common`, `ByCategory`, `RulesOf` | the YAML files of the rules agent and which of them apply |
| `Validate` | `rulesAgent.Validate`: what is missing and the score |
| `StoreResult`, `SetAIResult` | steps 4 and 5 of `ProcessLabel`: a validation that does not answer leaves zeros |
| `UpdateFields` | an edit: fields only, never the score or the missing ones |
| `GetCompliance`, `ListedScore` | what the gateway shows of it, and when it shows nothing |
| `SentAs`, `Decoded`, `PrintedFields` | the fields of a print job as the gateway encodes and as print-svc decodes them |
| `LabelList`: `Count`, `Select` | the two statements of `LabelRepo.List`, once for each page |
| `Upload`, `Match`, `Leave` | what may happen to the list in between |
| `Products`: `Merge` | PostgreSQL's `||` on two jsonb values |
| `given`, `bare` | history: the fields sent for a product; a request came without any |

The names of the fields are the real ones, as the mismatch between the rules'
names, the gateway's and print-svc's is what the module is about. Their values
are abstracted to being there or not.

### AuthSession, Membership, Accounts

| Model | Code |
|---|---|
| `account`, `verification`, `refresh` | `users.is_verified` and `.oauth_sub`, `email_verifications` and where the raw token is, `refresh_tokens` |
| `resendKey` | whether `RESEND_API_KEY` is set: then the raw token goes nowhere, otherwise to the log |
| `orphaned` | refresh tokens that no answer contains: every refresh inserts two |
| `members` | `workspace_members`; a row is open, active or revoked |
| `RegisterUser`, `RegisterWorkspace` | `AuthHandler.Register`: two services, and 201 whatever the second says |
| `SendVerification` | the detached goroutine of `AuthService.Register` |
| `VerifyEmailToken`, `VerifyEmailUser` | the two statements of `VerifyEmail` |
| `LoginLookup`, `LoginIssue` | the gateway's `Login`: the membership is read first, then claimed |
| `RefreshBegin` … `RefreshReissue` | the gateway's `Refresh`: validate, issue, look up, validate again, issue again |
| `GoogleLogin` | `OAuthGoogle`, whose token never has a workspace |
| `tokens` | what the access tokens of a session that have not expired claim |
| `Invite`, `Accept`, `Remove` | the handlers for members, behind `RequireRole` |
| `held` | history: what rows with the user's *id* made them while the request ran (`MembershipsOf`) |
| `Diverted` | invitations of the user's *address* that somebody else accepted |

A session slot is one refresh token in a client's hands. Each statement is a
step; every call may fail, or succeed and lose its answer. Passwords and
signatures only tell good from bad, so a wrong one is `LoginFails`. An admin of
a workspace whose admin is not a modelled user is always there (`Existing`).

The gateway looks memberships up by e-mail address, while the rows give them to
user ids, and `AcceptInvite` lets the two differ. The properties are stated by
user id where that is what is meant, and by address where the code can do no
better.

### SlidingWindow

| Model | Code |
|---|---|
| `key` | the sorted set in Redis, whose members are milliseconds, and when it expires |
| `Record`, `Count` | the pipeline of `RecordLoginAttempt` and `slidingWindowCount`: trim, add, renew; count |
| `RedisFails` | both callers go on when the pipeline fails |
| `LoginEnds` | auth-svc's `Login` after the limit: only a success deletes the key, with whatever others recorded meanwhile |
| `lost` | history: attempts that never reached Redis or that a DEL removed |

Attempts overlap: the commands of several pipelines, and the DEL, come in any
order. Assumed are one clock for the services and Redis, that a pipeline's
commands run in the millisecond of its attempt, and that a pipeline is carried
out as a whole or not at all.

### Billing

| Model | Code |
|---|---|
| `customer`, `plan`, `subscribed` | the columns of `workspaces` |
| `checkout` | the requests for `POST /checkout`, call by call (`billing/handler.go:45-105`) |
| `customers`, `subscription`, `events` | Stripe, from how the client and the webhook use it |
| `Webhook` | `POST /webhook`; `delivered` lets an event come again and in any order |
| `PlanFromPriceID` | the first plan with the price, an unset price included |
| `troubled`, `disturbed` | history: overlapping or failed calls; late, repeated or unstored events |

Nothing in this code gives a Stripe subscription the metadata the webhook looks
for. `TagByHand` stands for somebody who does so in Stripe's dashboard, so that
what the webhook would do can be checked, too.

## 3. What the runs check

| Run | Instance | Distinct states |
|---|---|---|
| `label` (`MCLabel.cfg`) | lifecycle: 1 label, 2 fields, 3 retries, 2 outages; compliance: 5 translations, 3 categories, 2 fields to edit; list: 5 labels on pages of 2; 2 products | 435,131 |
| `print` (`MCPrint.cfg`) | 1 job, 3 retries, 2 outages, PDF or ZPL | 272,332 |
| `agent` (`MCAgent.cfg`) | 2 calls, 2 updates, 3 configurations, 2 unfinished cache writes per version | 274,889 |
| `accounts` (`MCAccounts.cfg`) | 1 user, 1 session, 2 workspaces, 2 people, 2 rows, with and without the key; 4 attempts in 5 milliseconds, limit 2, window 3 | 414,869 |
| `billing` (`MCBilling.cfg`) | 2 checkouts, 3 prices, 4 events | 592,237 |

**Why the bounds are enough.** Labels (and jobs) share only crashes and
restarts, which hit all of them at once; every action reads and writes one of
them, so one label shows every behaviour of one, and the theorems hold for any
number. The retry budget is the code's own. Two outages let a crash happen
between the effect of one delivery and of the next, twice. Two fields let an
edit touch one and not the other. Two updates make an old and a new
configuration, with versions to confuse; two calls let one load while the cache
write of the other is pending; two cache writes of one version are in flight at
the same time. The constants that bound the models (`MaxOutages`, `MaxUpdates`,
`MaxFills`) appear in the guards of the actions they bound. The deadlock check is
off where the system may stop: in `MCLabel.cfg` (a deleted label whose task is
done, a finished walk), in `MCAccounts.cfg` (all the attempts of the window are
over) and in `MCBilling.cfg` (both checkouts failed).

`LabelService` puts four specifications side by side: `world` says which of
them runs, because they share no state that a property could tell apart, and
the product of their states would show nothing that each of them does not. The
compliance instance has a complete toy, one with one blocker missing, nearly
empty ones and a translation without a map, so that scores of 100, of 0 and
between occur, edits fill or empty a field, and the categories have rules of
their own (toy, food) or none. Five labels on pages of two make three pages.

In `accounts` one session is enough: sessions share nothing but the tables, and
a session that looks, validates and claims meets every change of the tables by
somebody else between its steps. Two rows let the user own a workspace and be
invited and revoked in another one, or be invited there, revoked, and invited
again. Four attempts for a limit of two and a clock of five milliseconds for a
window of three show both ends of the window, ties, refused attempts that count
against later ones, and a DEL between two attempts or between two commands of
one. The window shares no state with the rest and runs in a world of its own.
Four events let a subscription be bought, changed, tagged and cancelled, and two
checkouts overlap or follow each other.

**`label`**
* `PipelineOwnsRow`: from its first statement to its last the handler sees the
  row in `processing` or gone. No write of the worker checks the status; what
  protects it is that every other write does, or leaves the status alone. It
  ends when a delivery begins with an earlier one's statement still outstanding:
  then two handlers write the row.
* `ConfirmationIsAudited`, `ConfirmedHasResult`: a confirmation date has an
  entry and a result.
* `EditsLostOnlyInProcessing`, `ConfirmedIsFinalAfterAck`: what is left of the
  stronger claims of the documentation, which do not hold (next section): an
  edit that a row held disappears only from a row in `processing` or deleted,
  until deliveries overlap; a confirmation is taken back only while the task is
  alive or a statement is late, and stays even if deliveries overlapped before.
* `ImplementsPromise`: the status refines `LabelPromise`, which is forfeited
  when deliveries overlap.
* `ImplementsAttempts`: row and task together refine `AttemptedWork`. In
  particular no task is done without a processed or deleted label
  (`CompletedMeansProcessed`), and asynq gives no label up early. A draft that is
  deleted before its task is enqueued is withdrawn before it is submitted.
* `NoEndlessProcessing`, `EnqueuedSettles`: a label that was enqueued ends
  ready, confirmed, deleted or in asynq's archive, unless deliveries overlapped:
  a late `processing` behind a finished task is final.
* `IInv`: the invariant that the proofs use.
* `ComplianceIsCurrent`: the compliance that is shown, if any, is the
  validation of the fields that are shown, unless the validation gave no answer
  or an edit came after it; and a label of score 100 is printed with every field
  the common rules ask for but its name.
* `WalkShowsAll`: a client that pages to the end has seen each label that was
  listed all the time, unless a label left from a page already walked or one
  came between `COUNT` and `SELECT` of one request. Uploads alone hide nothing.
* `FieldsSurviveUnlessBare`: one request without `default_fields` loses all of a
  product's fields, those of later requests included, and nothing else does.

**`print`**
* `DoneHasOutput`: a done job has its ZPL or the key of an object that is in S3,
  however its deliveries overlap.
* `ImplementsAttempts`: row and task refine `AttemptedWork`, too; no task is done
  without its job (`CompletedMeansDone`).
* `DoneIsFinalAfterAck`, `KeyOnlyAdvances`: ignored errors, late failures and
  redeliveries do not take a result away for good; the first holds through
  overlaps, the second until one.
* `ObjectsArePaidFor`: the PDFs nobody points to are bounded by retries and
  outages, late uploads included.
* `EndedStreamHasReason`: a stream that ended by itself reported a failure.
* `EnqueuedJobSettles`: an enqueued job ends done or in the archive.

**`agent`**
* `CurrentStaysCurrent`: once the cache and the pending writes are free of old
  versions they stay so until the next update.
* `ConfigConverges`: after the last update every call comes to use it, although
  a delayed goroutine may put the old copy back for one more TTL.
* `EveryCallEnds`: no call falls back without end.

**`accounts`**
* `OnlyFaultsStrand`: without `RESEND_API_KEY` a registered user is verified or
  the token is on its way to the log, in it, or being used, unless a call failed
  or the token expired; with the key nobody is ever verified, because the code
  saves the token and sends it nowhere (section 4). Either way a registered user
  has or is about to get a workspace unless a call failed.
* `TokensAreEarned`: an access token names only a workspace and role that a row
  with its user's id gave while the request that issued it ran (not: gives when
  it is issued), or that somebody else took by accepting an invitation of the
  user's address. The second part is the code's, and a finding.
* `NothingAfterLogout`, `LogoutEndsSession`: a refresh that begins with a dead
  token yields nothing; one under way may, and all the same every session comes
  to its end after a logout.
* `RevocationReachesTokens`: a revoked member's tokens for the workspace run out,
  although nothing invalidates a session on revocation.
* `RevocationIsForGood`: a revoked member cannot come back: the unique index on
  the user id counts the revoked row.
* `LimitHolds`: the decision against the attempts themselves, whatever Redis
  knows of them. An attempt is refused only if there were more than the limit in
  its window; one is admitted beyond the limit only if Redis lost one of them, to
  an error or to the DEL of a successful login, or two were of one millisecond.
  Refused attempts count, and neither trimming nor expiry forgets one too early.

**`billing`**
* `CheckoutsReachNobody`: what is paid never reaches the workspace, because the
  metadata is on the customer and the webhook looks for it elsewhere.
* `OneCustomerUnlessTroubled`: a second customer needs overlapping checkouts or
  a failed call.
* `StalePlanHasReason`: once all events were delivered the plan is that of the
  one subscription bought, or there was one of the listed reasons.

Every property has a mutant in `PROJECT.json`: a change of a definition, of the
kind a bug in that code would be, under which the same run reports the property
violated. The mutants are the operators that the comments call so; nothing else
refers to them.

## 4. Where the code and its documentation disagree

Seven runs check a sentence of the documentation or of a comment and find that
the code does something else, on instances no larger than the ones above.

| Run | The claim | What TLC shows |
|---|---|---|
| `label_confirmed_is_final` | a confirmed label is final (`docs/user-stories.md:315`) | the result is stored, the lease expires before the acknowledgement, asynq delivers again, the operator confirms, and the second delivery sets `processing`; the deliveries do not overlap |
| `label_audit_tells_the_truth` | `Confirm` marks a label confirmed (`repo/label.go:141`) | the audit entry is written and the call succeeds on a draft |
| `label_confirmed_keeps_edits` | operator edits are applied (`repo/label.go:126`) | a delivery that was given up stored its result, asynq delivers again, the ready row holds an edit, the second delivery's result overwrites it, and the label is confirmed without it |
| `print_every_job_is_tried` | a job whose enqueue failed will be retried (`service/print.go:62`) | `CreateJob`'s enqueue fails, there is no task, and the job stays `pending` for ever (no outage, `MaxOutages = 0`) |
| `print_done_ends_stream` | the stream ends at the job's terminal state (`handlers/print.go:121`) | it waits for statuses that print-svc never writes for a finished job |
| `agent_update_takes_effect` | an update takes effect at once and invalidates the cache (`docs/tech-arch.md:551`) | a later call loads the old version from Redis |
| `agent_vision_is_translated` | the extracted fields are translated (`worker/worker.go:84`) | the translation handler cannot decode them |

More disagreements have no violating run, because the models state what the
code does and the properties say what follows (`findings` in `PROJECT.json` has
the quotations):

* An edit changes no score, and confirming validates nothing and counts no quota
  (`docs/tech-arch.md:502-509`, `docs/user-stories.md:313,323`).
* print-svc decodes neither the name nor the expiry date nor the lot number that
  the gateway sends it, and a job has no room for other mandatory fields.
* `Delete` deletes rows where its comment says that it marks them.
* Renaming a product in the web client turns its default fields into an array.
* No print job has a product id, so no print is counted.
* An edit before the first result, or of an empty one, is answered with success
  and lost (`repo/label.go:134`).
* The verification e-mail is never sent (`service/auth.go:293`): the token goes
  to the log or, with `RESEND_API_KEY`, nowhere (`docs/user-stories.md:56`).
* An invitation that somebody else accepts gives its role to tokens of the invited
  address: `workspace_members.email`, "denormalized for display", decides.
* Attempts of one millisecond count once and a successful login deletes others'
  attempts (`repo/token.go:92`: "Max: 5 attempts"); the limiter is a plain
  pipeline, not the atomic Lua script of `docs/erd-adr-devsetup.md:248`.
* Revoking a member invalidates no session; an invitation never expires; a
  failed logout answers success; a Google login claims no workspace; nobody asks
  for the quota.
* Checkout gives the metadata to the customer and makes a new one each time.

## 5. Fairness

* `LabelLifecycle`, `PrintJob`: weak fairness of the queue and of the handler of
  each row. asynq polls for tasks, retries them and recovers lost leases as long
  as a server runs; a handler that runs goes on, because every call it makes ends
  by itself or with the task's deadline. There is no fairness for operators or
  clients, for the agents' or S3's success, for the wrong server, or for the
  stream's poll, nor for the statement that is late. In `PrintJob` the call of
  `CreateJob` goes on to its enqueue (which may fail), which only `EveryJobIsTried`
  needs. Outages are finitely many: with endless crashes nothing settles.
* `AgentService`: weak fairness of each pending cache write (a goroutine runs),
  of the expiry (Redis drops a key after its TTL; only a finite number of
  pending writes renews it), and of each call (providers have HTTP timeouts or
  the caller's deadline). No fairness for updates or new calls, and none for
  success.
* `Accounts`: weak fairness of a request that runs (it goes on or times out), of
  the goroutine that saves a verification, of the second call of a registration
  and the second statement of a verification, and of an access token's expiry
  (15 minutes pass). None for clients, administrators or the expiry of refresh
  tokens.
* `Compliance`, `LabelList`, `Products`, `Billing`: safety only.

## 6. What is proved

The theorems hold for every value of the constants under the named assumptions
of the modules (bounds are natural numbers, configurations are records of
providers, prices are known to Stripe or unset, users are people, a window is
not empty). Nothing is assumed about the number of labels, jobs, calls,
sessions, members, products or checkouts, which may be infinite, but for the
list, whose labels come up to a bound that may be any number.

| Module | Theorems |
|---|---|
| `LabelLifecycleProofs` | `TypeCorrect`, `PipelineOwnsRowHolds`, `CompletedMeansProcessedHolds`, `ConfirmationIsAuditedHolds`, `ConfirmedHasResultHolds`, `ConfirmedIsFinalAfterAckHolds`, `EditsLostOnlyInProcessingHolds`, `SpecInv` (`IInv`), `Refinement` (the status implements `LabelPromise`), `AttemptsRefinement` (row and task implement `AttemptedWork`), `AttemptsRunOutHolds` |
| `PrintJobProofs` | `TypeCorrect`, `DoneHasOutputHolds`, `CompletedMeansDoneHolds`, `EndedStreamHasReasonHolds`, `ObjectsArePaidForHolds`, `DoneIsFinalAfterAckHolds`, `KeyOnlyAdvancesHolds`, `SpecInv` (`IInv`), `AttemptsRefinement`, `AttemptsRunOutHolds` |
| `AgentServiceProofs` | `TypeCorrect`, `CurrentStaysCurrentHolds`, `CallsRunOutHolds`, `OldCopiesDrainHolds` |
| `AccountsProofs` | `TypeCorrect`, `TokensAreEarnedHolds`, `NothingAfterLogoutHolds`, `RevocationIsForGoodHolds`, `OnlyFaultsStrandHolds` |
| `BillingProofs` | `TypeCorrect`, `CheckoutsReachNobodyHolds`, `OneCustomerUnlessTroubledHolds`, `StalePlanHasReasonHolds` |
| `LabelListProofs` | `WalkShowsAllHolds` |
| `LabelServiceProofs` | `ComplianceIsCurrentHolds`, `WalkShowsAllHolds`, `FieldsSurviveUnlessBareHolds`, `ServiceIsLifecycle` |
| `SlidingWindowProofs` | `LimitHoldsHolds` |

**label-svc.** None of the safety properties is inductive alone: whether
`SetAIResult` may hit a confirmed row depends on whether another handler, or what
one left behind, may write, and that on the queue. `IInv` ties the three
together: the handler that asynq waits for has an active task
(`HandlerHoldsTask`, one conjunct among others, true by the way the queue is
used), a handler in the pipeline has a row in `processing` (`PipelineOwnsRow`),
one about to acknowledge has a processed row (`AckMeansProcessed`), a statement
that is late finds the row as its handler left it (`LateFindsItsRow`), each of
these until deliveries overlap, and no task exists before its row
(`NoTaskBefore`). `overlap` itself is set by `Dequeue` only, when a statement is
outstanding; that is what makes the exception no wider than the hazard. There is
one lemma for each group of actions (upload, queue, handler, late statement,
operators, outages). The action properties and the refinement are proved for one
step from `IInv`: `SetAIResult` and the write of `error` map to `Succeed` and
`GiveUp` because `PipelineOwnsRow` puts the row in `processing`.

The second refinement maps the row and its task together onto `AttemptedWork`.
`Ack` is its `Close` only because the handler that returned nil had an active
task and a processed row; `MarkProcessing` is `Redo`, or a stutter on a row
without a result; `Nack` and a lost lease are `Retry` or `Abandon`. A task that
is archived while a statement is late is abandoned when that has landed
(`WorkPhase`), because it may bring the result. `Submit` may find its work
withdrawn: `Upload` and `Enqueue` are two steps.

**print-svc.** The type invariant bounds the objects in S3 by the attempts, so it
is not inductive alone either: it follows from `ObjectsArePaidFor`, which counts
an upload against the retry or the outage that led to it. `DoneHasOutput` needs
`StoreHasObject` (the handler reaches `SetDone` for a PDF only with an object in
S3, and a late `SetDone` is left only behind one) and `EndedStreamHasReason` needs
`FailedHasReason`. A job maps onto
`AttemptedWork` as a label does: `SetFailed` and `MarkProcessing` may take a
result back, but only under a task that is alive.

**What liveness rests on.** That an enqueued label or job settles has two halves.
One is proved: `AttemptsRunOut` gives each label (job) a `Rank`, a natural number
made of the retries and outages that are left and of the steps to the next
acknowledgement, that no step of anybody raises and that each step of the queue,
of a wrong server or of its handler lowers; so there are only finitely many such
steps, however they are interleaved. The other, that a step is always possible
until then and fairness takes it, speaks of `ENABLED` and is TLC's. In the same
way `CallsRunOut` and `OldCopiesDrain` are what `EveryCallEnds` and
`ConfigConverges` need besides fairness.

**agent-svc.** `TypeOK` says that only versions that were saved are cached, on
their way to the cache, or in use. `CurrentStaysCurrent` is proved of every step
from it: a load leaves a write of the row's version only, and a pending write can
only be of that version. `OldCopiesDrain` says the same of the time in between:
before an update's old copies are gone, they only get fewer.

**Accounts.** `Bounded` and `Earned` carry the two theorems about tokens: a
request that is late is still at its first validation with a dead token, and a
request's claim is in `held` or diverted, which a lookup's answer is
(`LookupFinds`) and stays, because a row that has a user keeps it, its address
and its role (`RowsStay`, `DivertedStays`). `SessionMoves` says once what any step of a
session may do to it, `OtherSteps` that nothing else touches it. Membership
needs no invariant of its own for `RevocationIsForGood`: the revoked row itself
keeps each way back closed. `OnlyFaultsStrand` needs `OpenRowsAreFree` (an open
invitation belongs to nobody, so that accepting it takes no admin's row away)
and that a verification that is not `none` belongs to a registered account; that
`resendKey` never changes keeps the two kinds of service apart.

**Billing.** `Untouched` relates an event's metadata to its subscription's,
`Alone` says where the one customer may be at each step of the one checkout that
runs, and `Followed` that the last event tells what the subscription is and the
row what the last delivered one says. `StripeSteps` sums up Stripe's four
actions as one, that emits one event.

**Compliance.** `RulesType` shows, from the tables of the shipped rules, that
every category has rules, that all of them are over known names, and that the
common blockers are among them; `ValidationSpeaks` that a score of 100 means
that no blocker is missing, whatever the fields. `ComplianceInv` says
that what the row shows is a validation that answered, of the fields in the row
until an edit changes them and nothing else. What `Validate`
finds missing is known by the rule's place in the table, not by its name,
because two rules may ask for one field.

**LabelList.** A page is a segment of ranks, so the invariant says that each
label that is owed has been shown or ranks after the pages walked, and that
`total` is large enough to get there; a label that comes pushes ranks up, one
that leaves pulls down only those behind it. The page size may be 0.
`LabelServiceProofs` carries the theorem over to `LabelService` (`SameWalk`).

**Products.** A row is an object with exactly the fields given, or, after a
request without fields, never an object again (`ProductInv`).

**SlidingWindow.** The key and the attempts know of each other: what the key
holds are instants of attempts (`MembersAreMade`), and an attempt of the window
that was not lost is in it (`MadeAreMembers`). Counting is then a comparison of
cardinalities: the instants in the key are images of recent attempts, of
different ones if no two of them share a millisecond.

**LabelService.** Each behaviour of `ServiceSpec`, which `MCLabel.cfg` checks,
is one of `LabelLifecycle`'s `Spec` (`ServiceIsLifecycle`), so what
`LabelLifecycleProofs` proves of `Spec` holds of what TLC checks.

**Only model-checked.** Liveness (`NoEndlessProcessing`, `EnqueuedSettles`,
`EnqueuedJobSettles`, `ConfigConverges`, `EveryCallEnds`, `LogoutEndsSession`,
`RevocationReachesTokens`): TLAPS does not reason about fairness through
`ENABLED`. Every invariant, action property and refinement that a passing run
checks is also the statement of a theorem. The violations of section 4 are
counterexamples and need no proof.

## 7. Not modelled

* Layout (PDF, ZPL), prompts, providers, encryption, prices: pure or external.
* Profile data: names, addresses, logos, categories, reports. Columns that are
  stored and read back, which no decision depends on.
* agent-svc's call logs and rate limits (nothing reads them to decide), and its
  test of a configuration, which keeps nothing.
* The quota counter: written by one statement that nobody calls.
* notification-svc: one e-mail per task, and no service creates such a task. Its
  server is in the models as one that may take another's task.
* The gateway's translation of most HTTP requests into one call and back.
* admin-svc (empty), generated code, deployment, tests, the user interfaces. The
  web client stops polling a label on `failed`, which label-svc never writes, and
  offers a download on `ready`, which print-svc never writes; both mirror the
  disagreement that `print_done_ends_stream` shows on the server. The mobile
  client lets all but one of its requests fail while it refreshes a token.

Nearly half of the repository's lines are generated protobuf code, and much of
the rest is connection set-up, HTTP and gRPC plumbing and layout, so that the
lines the models stand for are a modest share of it all; of the code that keeps
state and decides, what is left out is in this list.

## 8. What is left

* A composition of `LabelLifecycle` and `PrintJob` through the copy of the fields
  that a job takes. The copy itself is in `Compliance`; together they would show
  which version of a label is printed, about which the repository says nothing.
* The two token refreshes of the clients.

## 9. Running

    tlc -config MCLabel.cfg MCLabelService.tla
    tlc -config MCPrint.cfg MCPrintJob.tla
    tlc -config MCAgent.cfg MCAgentService.tla
    tlc -config MCAccounts.cfg MCAccounts.tla
    tlc -config MCBilling.cfg MCBilling.tla
    tlapm LabelLifecycleProofs.tla
    tlapm PrintJobProofs.tla
    tlapm AgentServiceProofs.tla
    tlapm AccountsProofs.tla
    tlapm BillingProofs.tla
    tlapm LabelListProofs.tla
    tlapm LabelServiceProofs.tla
    tlapm SlidingWindowProofs.tla

The other configurations (`Label*.cfg`, `Print*.cfg`, `Agent*.cfg`) end in the
counterexamples of section 4.
