# LinkIQ in TLA+

LinkIQ is a multi-tenant link shortener: a NestJS API (`src/apps/api/src`) over
Postgres (Prisma), Redis and BullMQ queues, and a Next.js front end
(`src/apps/web`). Customers shorten links under workspaces, redirects are served
through a Redis cache and counted asynchronously, workspaces buy plans through
Paystack, and receivers are told of events by signed webhooks.

This directory holds the formal model of that API. It is about the places where
the code is correct only if several awaits of several actors interleave well: the
database writes of a request or job are separate statements, mostly by id, after
checks on rows read earlier. Each such statement is one action here.

## 1. Inventory

| Component (under `src/apps/api/src/modules`) | State it keeps | Operations | Talks to | What is hard | What makes it correct |
|---|---|---|---|---|---|
| Checkout, `billing/subscriptions.service.ts`, `invoices.service.ts`, `billing.controller.ts` | `Subscription`, `Invoice` | subscribe, changePlan, pay an existing invoice, checkoutCallback, confirmAndActivate | Paystack (initialize, verify), roles, outbound webhooks | callback and webhook confirm the same payment; a quote is refreshed under an open session; every write is by id after an older read | no plan without payment (kept for customers of one currency only), receipts for real charges only, a payment is applied once, a webhook is settled before it is written off |
| Paystack webhook intake, `billing/providers/paystack` | `BillingEvent`, BullMQ job | receive, enqueue, process, markProcessed/markFailed | checkout; legacy subscription events | lost enqueue, exceptions, stalled jobs, out-of-order arrival | a queued charge is settled, marked FAILED, or given up |
| Subscription lifecycle, `billing/subscriptions.service.ts`, `utils/effective-status.ts` | status, trial, `cancelAt`, `pastDueSince` | trial, cancel, resume, legacy webhooks; effective plan on read | plan limits, roles | nothing runs when a date passes | the effective plan follows the dates; grace ends |
| Plan limits, `billing/billing-usage.service.ts` | counts of other tables | assertCanUse before each create | lifecycle | check, then create | the limit |
| Roles, `roles` | `User.platformRoleId`, `roleAssignmentSource` | syncStoredRole, assignManualRole, clearManualRole | lifecycle | three awaits without a lock | the stored role is that of the plan, unless an administrator chose one |
| Outbound webhooks, `webhooks` | `WebhookEndpoint`, `WebhookDelivery`, BullMQ job | emit, process, pause, activate, delete, test, manual retry | every module that emits | automatic and manual retries overlap; stalled jobs run again; auto-disable races reactivation | DELIVERED means accepted; nothing left half done; attempts bounded; disabled exactly at the threshold; the queue drains |
| Redirect, `links` | `Link`, Redis entry per short code | create, update, pause, archive, delete; resolve | domains, click queue | a fill that read before an invalidation writes after it; Redis errors are swallowed | a redirect serves the current link, or one at most a TTL old |
| Custom domains, `domains` | `CustomDomain`, Redis entry per host | create, update, verify, activate, disable, setPrimary, delete | redirect | verification spans a DNS lookup; primary is kept by a transaction under READ COMMITTED | a served host is a verified one; one primary |
| Click pipeline, `links/queue`, `analytics/processors` | `ClickEvent`, `LinkDailyStat`, BullMQ job | enqueue, process, emit link.clicked | redirect, webhooks | retries and stalls | each click counted once in both tables |
| Workspaces, `workspaces` | `WorkspaceMember` | create, invite, change role, remove | limits | the last-owner check is a count before a write | always an owner |
| Authentication, `auth` | `RefreshToken`, one-use tokens | register, login, refresh, logout, reset, change password, suspend | e-mail | rotation is read, create, update; revoking all sessions is a statement after the password's | no session outlives a reset; the reuse alarm means what it says |
| E-mail, `email`; reports, `reports` | `EmailLog`, `EmailReportRun`, the users' preferences | queueEmail, process; hourly tick | everything that mails | retries after the provider accepted; a period claimed before its report exists | one report per period, and a row that says what became of it |
| QR codes, campaigns, link sources | `QRCode`, `Campaign` | create, partial updates, status transitions, soft delete | limits, links | a partial update is validated against the row it read and written over the row there is | what is valid stays valid; an archived campaign stays archived |
| API keys, users, admin, audit | rows of their own | CRUD, suspension | sessions, limits | suspension has to end sessions | - |
| Currency, `currency` | `Currency`, settings with a 60 s process cache | CRUD, resolve | checkout | cache filled after it was cleared | default and fallback stay active |
| Landing page, branding, public, infrastructure, web, packages | content, wiring | - | - | - | - |

The queues are the only asynchronous channels: `paystack-webhook`, `webhook-delivery`,
`click-events`, `email`, `report-dispatch`, `api-usage`. All other interaction is
through shared rows and direct calls. `PROJECT.json` lists the components with
their status and the hazards at their lines.

## 2. Modules

| Module | Models | Checked by | Proved in |
|---|---|---|---|
| `Entitlement`, `Checkout` | one-time payments, the role that follows them | `MCCheckout` | `CheckoutProofs` |
| `WebhookDelivery` | outbound webhooks | `MCWebhookDelivery` | `WebhookDeliveryProofs` |
| `LinkRedirect` | the two caches of a redirect and what invalidates them | `MCLinkRedirect` | `LinkRedirectProofs` |
| `Workspace` | members, domains, QR codes, campaigns, plan limits | `MCWorkspace` | `WorkspaceProofs` |
| `Lifecycle` | subscriptions over a clock, recurring charges, roles of an owner of several workspaces | `MCLifecycle` | `LifecycleProofs` |
| `Sessions` | refresh tokens, resets, suspension | `MCBackground` | `SessionsProofs` |
| `ClickPipeline` | a click from the redirect to the counters | `MCBackground` | `ClickPipelineProofs` |
| `Reports` | report ticks and the e-mail queue | `MCBackground` | `ReportsProofs` |

`Checkout` implements `Entitlement` (`INSTANCE` with a refinement mapping). The other
modules stand for components that share no row: where two of them meet, the one that is
called appears in the caller as an event or a verdict, and the section on the caller
says so. `Lifecycle` takes a verified payment as an event because `Checkout` says how it
comes about; `Workspace` changes the domains whose caching is in `LinkRedirect`.

Left of the plan: a composition of `ClickPipeline` with `WebhookDelivery` (the queue
of one feeds the other), the currency settings' cache, and pure operators (UTM merging, date ranges, client IP)
against reference definitions.

## 3. Modelling conventions

* A handler (an HTTP request or a worker of a queue) is a slot with a program counter
  `pc[h]`, naming the await it will execute next, and `local[h]`, the values it read
  before. Reading a row and acting on it later are two actions, so every row may change
  in between. A database transaction is one action unless its isolation matters.
* A throw, a crash of the process and a failed `queue.add` are actions of their own
  (`Fault`/`Throw`, `Crash`, `AddFails`, ...), bounded by `MaxFaults`.
* BullMQ is modelled from how the code configures it: `attempts` with backoff, one
  stalled re-run, at-least-once execution. Audit writes swallow their errors and are left out.
* Variables marked *history* exist for the properties only; no guard reads them.
* Operators that start as "Mutant:" are plausible bugs of the definition they precede;
  they are used by no specification. Substituting one must make the named property fail.

## 4. Checkout (`Entitlement`, `Checkout`)

`Entitlement` is the promise: a workspace is only ever moved to an offer that is free
or covered by a charge its customer really paid, in the same currency.

`Checkout` is one workspace, its invoices, the transactions opened at Paystack and
their webhooks. Correspondence:

| Action | Code |
|---|---|
| `SelectPlan`, `RequiresPayment`, `ApplyDirectly` | `subscribe` / `changePlan`, `determinePaymentRequirement` |
| `FindPending`, `RefreshQuote`, `CountInvoices`, `CreateInvoice` | `createOrReusePendingInvoice`; the create fails if the number is taken |
| `Proceed`, `InitializeTransaction`, `AttachNewReference` | `proceedToPayment`, `createCheckoutSession` |
| `CustomerPays`, `ReceiveWebhook` | external; the webhook controller with its duplicate check and enqueue |
| `Callback`, `RunJob` | `checkoutCallback`; the queue processor |
| `LookupByReference`, `LookupById`, `AttachReference`, `Decide`, `Activate`, `MarkPaid`, `MarkFailed` | `confirmAndActivate` |
| `SyncRole`, `ResolveRole`, `StoreRole` | `syncOwnerRoles`, `syncStoredRole` |
| `MarkProcessed`, `Acknowledge`, `Fault`, `Crash` | `markProcessed`; BullMQ; exceptions; a dying process |

An offer is a record of plan, amount and currency; dates, periods, customer codes and
the free plan's missing price row are left out.

| Run | Question | Bounds |
|---|---|---|
| `checkout_faults` | Are receipts honest and events only written off when settled, whatever fails? Does the checkout implement `Entitlement`, all prices being in one currency? | 2 invoices, 2 references, the free plan and one paid plan (buy, drop to free, buy again), 1 request slot, 1 worker, 2 faults, 2 handlers in flight; symmetry on ids |
| `checkout_races` | Can refreshed quotes, two currencies and concurrent confirmations give a customer of one currency something not paid for? Is every queued charge settled, failed or given up? Does the inductive invariant hold? | 2 invoices, 1 reference, the same plan in two currencies, 1 request slot, 1 worker, 2 faults, 2 handlers in flight; no symmetry, for the liveness |
| `checkout_serial` | What the documentation promises of a payment, when handlers do not overlap | 2 invoices, 2 references, 1 handler in flight, no faults; callback and webhook still come in any order |
| `checkout_v_callback` | A callback that opens before the payment spoils it (finding) | 1 plan, no faults |
| `checkout_v_currency` | A dearer plan is had for nothing in another currency (finding) | 2 plans, the dearer one in two currencies, 1 handler in flight, no faults |
| `checkout_v_once` | Callback and webhook both activate (finding) | 2 handlers, no faults |

Two invoices are the least for which a payment can be matched to the wrong one and
for which numbers can collide; two references let one invoice have an old and a new
session; `checkout_serial` has three prices, to tell an upgrade from a downgrade; two handlers in flight are the
least that interleave, and a third slot only repeats the roles of the other two.

`AppliedOnce`, `OnePendingPerPlan`, `RoleFollowsPlan`, `TerminalInvoices` and
`UpgradesArePaid` are stated of serial executions because the code does not keep them
when handlers overlap: the finding `checkout_v_once` shows it for the first; for the
others the same kind of run finds two requests that both miss the pending invoice, a
role computed from an older plan stored last, `markFailed` landing on a PAID invoice,
and a plan change decided from an amount read before another payment. What the code
does keep under every interleaving is `PaidInOneCurrency`, `ActivatesWhatWasCharged`,
`PaidMeansChargedAndActivated` and `ProcessedMeansSettled`.

**Currencies.** An offer covers another only in its own currency, in `PaidUpTo` and in
`Entitlement`'s `Covered`. `determinePaymentRequirement` (`subscriptions.service.ts:235`)
compares bare numbers, so with prices in two currencies `EntitlementPaidFor` is false:
`checkout_v_currency` pays 1 for a plan in NGN and moves to one of 2 NGN by asking for its
price of 1 USD, with one handler and no faults. `PaidInOneCurrency` is what is left: as long
as all that was paid is in the subscription's currency, one of the payments covers it,
whatever other currencies there are to choose from. `KeepsPromise` is checked with prices
in one currency, where it holds, and proved under that hypothesis (`OneCurrency`).

**Fairness** (`ChargeResolves` in `checkout_races`). Weak fairness of a handler's next step: an awaited
call returns or throws (HTTP clients have timeouts). Weak fairness of the worker taking
a queued job: BullMQ workers poll for ever. None for the customer, for the browser's
callback or for the arrival of a webhook.

### Proofs (`CheckoutProofs`)

For every set of offers, invoices, references, requests and workers and every number
of faults, under the named assumptions of `Checkout` (the free offer is free, names
are distinct, the invoice set is finite):

* `Invariance`: `IInv` is an invariant. `TypeOK` and the properties are not inductive
  by themselves, because what a handler is about to write depends on what it read. `IInv`
  adds `LedgerOK`, what rows say of each other (a transaction's invoice exists and is for
  its plan; an event exists only for a paid transaction), and `HandlerOK`, what the
  locals of a handler still guarantee at each label although rows have moved on.
* The argument: rows only grow (`Grows`: invoices are never deleted nor change plan,
  paid transactions stay paid), so facts a handler learned stay true (`HandlerStable`);
  one lemma per action then only has to treat the handler that moved.
* What is inductive about amounts is what the code compares, numbers (`NumbersPaidFor`, a
  part of `IInv`). `CustomersOfOneCurrencyPay` draws `PaidInOneCurrency` from it, for any
  offers. `EntitlementIsPaidFor` and `CheckoutKeepsPromise` assume `OneCurrency`, without
  which they are false: the first is `EntitlementPaidFor`, the second that `Checkout` refines
  `Entitlement`, a payment mapping to `Charge`, a write of the subscription to `Grant`, any
  other step to a stutter.
* Corollaries `TypeCorrect`, `OnlyChargedOffersActivate` and `ReceiptsAreHonest`.
* `ProcessedIsSettled`: `ProcessedMeansSettled` in every interleaving. Its invariant
  `Settled` says where a job may be: past `markPaid` or `markFailed` its own invoice is
  terminal (`WorkerOK`). It survives the others' steps because no step takes an invoice
  out of PAID and FAILED or moves a recorded charge to another invoice (`Final`).
* `RejectionsAreJustified`: an invoice is marked FAILED only for a transaction of its own
  that is not priced as the row was when it was read, or by a callback that asked too
  early. So the finding `checkout_v_callback` has that one cause: webhooks do not have it.

What the code keeps only when handlers do not overlap is proved under `MaxInFlight <= 1`,
still for any sets and still with callback, webhook, browser and requests in any order:

* `OnePendingWhenSerial`, `TerminalWhenSerial` and `UpgradesPaidWhenSerial`, with any
  number of faults, crashes and stalled jobs; `checkout_serial` checks them without. Their
  invariant `SerialInv` is what overlap destroys: what a handler read of the ledger is
  still so when it writes (`ReadsHold`), because no other handler runs (`Alone`).
* `AppliedAgainOnlyAfterFault` and `AppliedOnceWhenSerial`: an invoice is activated at most
  once, and once more for each fault. `CountInv` keeps the account: a PENDING invoice has
  been activated no more often than there were faults, one more while its handler is at
  `markPaid`; a fault there pays for the repetition.
* `RoleFollowsWhenSerial`, with `MaxFaults = 0`: by `RoleInv` the stored role is the plan's
  or the one running handler is between its write and `store`, and what it has read is
  current (`RoleHolds`). A fault in between leaves the old role, so the hypothesis is needed.

## 5. Outbound webhooks (`WebhookDelivery`)

One workspace whose endpoints all subscribe to every event. `emit` reads the ACTIVE
endpoints (`FindEndpoints`) and then creates a row and a job for each, whatever became
of it since (`FanOut`); a throw drops the rest (`EmitThrows`), a failed `queue.add`
leaves a row without a job (`AddFails`). A worker takes a job, reads delivery and
endpoint (`Load`), refuses an inactive endpoint (`Refuse`) or posts (`MarkProcessing`,
`Post`) and records the outcome (`FinalizeSuccess`, one transaction; `FinalizeFailure`,
`CountFailure`, `Disable`, three statements); the job then ends or backs off
(`Complete`). `job[j].made` and `.max` are BullMQ's `attemptsMade` and `opts.attempts`.
Pause, activate, delete and retry are a check and a later write each. A row's `refused`
stands for the failure reason "Endpoint is ...".

`webhook_delivery` checks one endpoint and one event with two job slots, two workers,
one request slot, two attempts, a threshold of two, one manual retry and one fault. Two
jobs of one delivery are what two deliveries of one endpoint would share (the counter
and the endpoint) and more (the row): a manual retry of a FAILED row runs beside the
automatic one. The threshold is reached by the automatic cascade and the manual retry
together; one fault makes a stall, a lost enqueue or a throw at every point.

`DeliveredWasAccepted`, `SettledWhenIdle` and `AutoDisableNotMissed` relate a row to what
receivers, jobs and the counter did before. `AttemptsBounded` counts requests over
automatic attempts, manual retries and repeats after a crash. `SettledWhenIdle` excepts
deliveries that lost their job to a fault: nothing recovers those.
`AutoDisableNotMissed` excepts faults, after which the counter may have been written by a
worker that then died.

**Fairness** (`QueueDrains`). Weak fairness of every handler's next step (the request to
a receiver is aborted after `webhooks.timeoutMs`) and of the fan-out; weak fairness of a
backoff's end; strong fairness of each job being taken, since workers are often busy with
other jobs but BullMQ serves waiting jobs in order.

### Proofs (`WebhookDeliveryProofs`)

For any endpoints, events and requests, any finite numbers of job slots and workers, and
any numbers of attempts, manual retries and faults. All six safety properties are proved;
`QueueDrains` is only model-checked.

* `Held`, the ground of the rest (`TypeCorrect`): a job has attempts left or is gone
  (`JobOK`), a worker that is not idle has the active job it was given (`WorkerOK`), and no
  other worker has it (`OneWorkerPerJob`, although a crash hands a job on).
* `DeliveredMeansAccepted`: `Truthful` adds that a worker about to write DELIVERED heard a
  2xx for the delivery of its job.
* `ThresholdDisables`: with `Held` the property is inductive by itself. The counter and
  the status it is compared with come from one statement, so whoever crosses the
  threshold of an ACTIVE endpoint disables it.
* `DisablingIsEarned`: the counter lags the failures by the workers between the two
  statements, so `AllCounted` says that the counter *plus* those workers is at most the
  terminal failures, and that a worker about to disable saw enough of them.
* `NothingLeftHalfDone`: `AllAttended` says who owes what: a row that is not settled, nor
  lost its job to a fault, is owed to by a job that waits or backs off, by a worker before
  the end of its attempt or about to rethrow, or by a manual retry about to enqueue.
* `RequestsAreBounded`: `Budgeted` counts the attempts still to come as a set of pairs of
  a job slot and the number of the attempt (`Left`): attempts made and left are at most
  those granted. A crash gives back at most one; `Begun` shows that an event fans out to
  an endpoint once.

## 6. Redirects, links and hosts (`LinkRedirect`)

`RedirectService.resolve` reads two caches one after the other: the host's
(`DomainResolverService`, `DomainCacheService`) and the short code's
(`LinkCacheService`). The two services are the same code over different keys, so the
model has one cache over `Codes \cup Hosts` and a request walks it twice: `GetHit` or
`GetMiss` (an absent key, or a Redis error), `ReadRow`, `Fill`, and `Advance`, which is
what the code does without an await once it has a value: go on from a serving host to the
code, or answer. `EvaluateState` is `evaluateState`, `Outcome` adds the comparison of
`customDomainId` with the host.

Operations of `LinksService` and `DomainsService` are three steps: `Ask...` (the reads and
checks), the write (`Insert`, `Update`, `StartVerification`, `FinishVerification`,
`SoftDelete`) and `Invalidate`. Writes are by id and do not check again. `Die` ends a
handler at any await. `Insert` does not touch the cache, as in the code; neither does
`SoftDelete` of a domain for the links it detaches. A domain is its host name here, so
the rename of an unverified domain is in `Workspace`; the redirect serves
neither the old nor the new name of such a domain.

Time is `Tick`. An entry's `left` is what remains of its EX and its `stale` counts the
ticks since its value was last the row's; the same count goes with a value held by a
request. `Patience` is an assumption about the environment and not in the code, which
sets no deadline: a request takes at most so many ticks. Without some such bound a
request could store a row it read long ago, and no bound on answers would hold.
`excused` marks the entries the properties except; no guard reads it.

`link_redirect` checks one code and one host, two operations that may overlap, one
request slot used again and again, one fault, `PositiveTTL` 2, `NegativeTTL` 1 and
`Patience` 1. Two operations change a row twice or change link and domain; a second
request adds nothing the slot's next user does not (a fill by one, a hit by the other);
TTLs of 2 and 1 are the least that differ and let an entry age in the cache. The system
may stop when the operations are used up, so deadlock is not checked.

* `CacheFresh`, `AnswersAreRecent`: bounds on the age of entries and answers that hold
  whatever is lost, late or interleaved.
* `StaleOnlyIfExcused`: without a late fill, a lost deletion, a create or a detached link,
  an entry is out of date only while an operation is between its write and its deletion.

Nothing is stated of the comparison of `customDomainId` with the host: `Outcome` makes it on
the copy of the link it has, so what can be wrong about it is the age of that copy and of
the host's, which `AnswersAreRecent` bounds. A link that was detached from a host is shown
there from its copy until then.

### Proofs (`LinkRedirectProofs`)

For any codes, hosts, slots, TTLs and patience, under the named assumptions of
`LinkRedirect` (names distinct, TTLs and patience positive):

* `TypeCorrect`: `TypeOK` is inductive because `EditorOK` says of an operation about to
  write that its row exists and that its assignment fits the row (`PatchTyped`); that
  `isActive` stays `status = ACTIVE` is `MergeAgrees`.
* `CacheForgets` and `AnswersBounded` follow from `Timed`: at every tick an entry's `left`
  falls by one and its `stale` grows by at most one, and a request's `age` grows by one and
  the `stale` of what it holds by at most one. `CacheFresh` alone is not inductive: a
  fill needs the bound on the request's value, a hit the bound on the entry's.
* `StaleIsExcused`: `StaleOnlyIfExcused` is inductive by itself, given `TypeOK`. Key by key
  (`Accounted`): a write that changes what a key should show leaves its operation owing
  the deletion, a fill stores what the row shows or carries the mark, and a deletion
  pays what is owed or, when it fails, marks the entry.

## 7. The rows of a workspace (`Workspace`)

`WorkspacesService`, `DomainsService`, `QrCodesService` and `CampaignsService` follow one
pattern, and the module has one pattern for all: a request passes
`WorkspaceRolesGuard` and reads its row (`Begin`), checks what it read, may read once
more (`Count`: `assertCanUse`'s count, or the other owners), and writes by id (`Insert`,
`Update`) over whatever the row is by then. `Patched` merges a partial update the way
Prisma does: fields that are not in it keep their present value, not the one that was
validated. What does not fit the pattern has actions of its own:

| Action | Code |
|---|---|
| `InviteMember`, `UpdateMemberRole`, `RemoveMember` | `WorkspacesService`, with `assertNotLastOwner` as `ChangeMember` and `OtherOwners` |
| `CreateDomain`, `UpdateDomain`, `ActivateDomain`, `DisableDomain`, `DeleteDomain` | `DomainsService`; each names the statuses it admits |
| `VerifyDomain`, `StartVerification`, `FinishVerification` | `verify`: VERIFYING is stored, DNS is asked, the verdict is stored by id |
| `SetPrimary`, `BeginTransaction`, `Unset`, `CommitPrimary` | `setPrimary`: a transaction at READ COMMITTED; `Unset` is one row of `updateMany`, which waits for a row that another transaction has locked (`held`) and looks at it again then |
| `CreateQr`, `UpdateQr`, `CreateCampaign`, `UpdateCampaign`, `TransitionStatus`, `SoftDelete` | `QrCodesService`, `CampaignsService` |
| `Fail` | an await throws, or the process dies: nothing more is written |

The rules about these rows live in the checks and not in the database, so two overlapping
requests can break every one of them. Stating them of serial executions would say little.
Instead `dirty` and `excess` (history) record each write whose request had read something
that was no longer so (`Stale`), on the row, table rule or count it touched, and each
property says that such a write is the *only* way to break it: a failure, a verification,
a primary that moves, a partial update and every interleaving of writes that were not
stale keep it. The exact exception per property is in its comment. What remains possible
in the code is therefore also said: two owners who remove each other at the same time
leave none; a rename under a verification is served without proof; two overlapping
`setPrimary` requests can leave two primary domains.

`workspace` checks any three requests, two at a time (a third finds what the first two
left), four users of whom two are owners, three names of which one is free, two colours
and two dates (the least that can be equal, differ and be out of order), and plan limits
that allow one more row, so that two creations that overlap exceed them and the third
does so without overlapping. Users, names and requests are symmetric. Requests are a
bound, so deadlock is not checked. No fairness is assumed or needed.

Two things met while reading and not turned into findings, because no run is about them:
`domain-cache.service.ts:86` says `invalidate` is called on create, and
`domains.service.ts` does not call it there (its consequence is in `LinkRedirect`, whose
`Insert` leaves the cache alone); `links.service.ts:498-501` says that a link moved to another campaign
loses its UTM values, and the update does not clear them.

### Proofs (`WorkspaceProofs`)

All seven properties, for any users, names, colours, dates and limits and any number of
requests. The plan is assumed to admit the rows of `Init`, and `None` to be no row.

* `Sound`, the ground of the rest (`TypeCorrect`), says what a request holds across its
  awaits. `Fit` makes no reference to the tables, so nobody else's write can disturb it:
  a creation that goes on to write saw fewer rows than the limit (`Creator`), a change was
  valid for the row that was read (`Changer`), and a member's change leaves an owner or
  saw another (`MemberChange`). `Arrives` is that every request starts so.
* `RowsSound` (`ServedNamesAreProven`, `MergedRowsAreValid`, half of `AtMostOnePrimary`): a
  row that no stale write has touched obeys the rules about single rows. A write that is
  not stale meets the row it was checked against, so `Fit` says what it leaves.
* `AnOwnerRemains`, `LimitsAlwaysHold` and `ArchivedStays` follow the same way, the first
  two with what the second read saw; `LiveUpdate` and the lemmas after it add that nothing
  but a creation makes a row live.
* `PrimariesSound` (`AtMostOnePrimary`): an open `setPrimary` that nobody overtook *knows*
  every primary: it is still to be unset, held, or the new one (`Knows`). So when nothing
  is left to unset, it commits the only primary.

## 8. Subscriptions over time (`Lifecycle`)

One user owns the workspaces. `Tick` is the clock; `getEffectiveStatus` is
`EffectiveStatus`, evaluated whenever the code evaluates it, since nothing runs when a
date passes. Correspondence:

| Action | Code |
|---|---|
| `Move`, `PaidMove` | `subscribe`, `changePlan` without payment (`MovePatch`: trial, upgrade, downgrade); `confirmAndActivate` of such a move's invoice, whose write is an event's |
| `Cancel`, `CancelRemote`, `Reactivate`, `ReactivateByCheckout`, `ExtendTrial` | `cancel` with the provider's cancellation, `reactivate` and its checkout, `extendTrial` |
| `ChargeFails`, `ProviderDisables` | what Paystack stores as events (external) |
| `Take`, `Correlated`, `EventPatch`, `Ignore` | `PaystackWebhookProcessor`: the subscription is found by code, else by customer code |
| `Write` | the update by id |
| `Current`, `Resolve`, `Derive`, `Store` | `syncStoredRole`: the user, the owned subscriptions, the write, each an await |
| `AssignManualRole`, `ClearManualRole` | `RoleResolutionService` |
| `Fail`, `End` | an exception or the death of the process; a failed job is run again |

A renewal that succeeds has no action: its `charge.success` carries no metadata of ours and
matches no invoice, so `handleChargeSuccess` records it and changes nothing else, not even
PAST_DUE. That Paystack may echo the metadata of the first transaction is not modelled.

`past` is history: who wrote over a state they had not read (`raced`), whose plan change
left `PAST_DUE` without clearing `pastDueSince` (`carried`), and when the role that
stands was derived.

* `GraceFromFirstFailure`: a grace period counts from the first failed charge, whatever
  further failures, late events and retries follow, except for `raced` and `carried`.
  `carried` is real: `subscribe` and `changePlan` (`subscriptions.service.ts:796`, `:926`)
  leave the old `pastDueSince`, and a later failure keeps it, which ends the grace early.
* `OneTrial`: the flag and the trials agree, unless writes overlapped; a payment's update
  writes back the `trialUsed` it read (`subscriptions.service.ts:576`).
* `RoleFollowsPlans`: the role is that of the highest plan in effect at the last
  synchronisation, not of the plan in effect now: expiry synchronises nothing.
* `AssignedRoleSticks`: only a synchronisation that had read the user before overwrites an
  administrator's choice.

`lifecycle` starts from a workspace with a recurring subscription that is new or in
arrears, and a free one, and lets any three inputs happen: requests, charges, clock ticks
and failures all count. Three are what the longest interesting story needs (a failed
charge, a move, another failed charge; a trial, its end, a second attempt); two handlers
overlap. Workspaces and handlers are symmetric. `lifecycle_v_trial` is a finding: a trial
records the plan's price as what the workspace pays, so asking for the same plan again is
no upgrade and makes it ACTIVE without a payment, where `billing.md` says a payment is
needed.

Proofs (`LifecycleProofs`): the four properties, for any workspaces, handlers, finite set
of plans, tiers, intervals and number of requests. The finite set gives the highest plan
held, which `Resolved` chooses (`HighestPlan`). The invariant `Inv` has four parts:

* `RowsTyped`, no more of the types than the rest needs.
* `HandlersSound`: what a handler is about to write fits the row it read (`MoveFits`,
  `PaymentFits`, `FailureFits`, `OtherFits`), and the role it is about to store is that of
  the rows it derived it from (`SyncFits`), both only as long as it is not stale. A
  handler that does not move keeps this (`RestsFits`) because whoever changes what it
  read makes it stale (`Rests`).
* `PastSound`: `GraceFromFirstFailure` and `OneTrial` are not inductive, since a failure
  that opens a spell relies on `pastDueSince` being null outside of one; `RowSound` adds
  that, and says `trials` exactly. Only `Write` changes it (`WriteSound`, by the four kinds
  of patch).
* `RoleSound`: the role stands, or a handler is between its write and the end of its
  synchronisation, or `drift` or an assignment excuses it. A write makes itself such a
  handler, which is why the rows may change under the role.

`AssignedRoleSticks` follows from `SyncFits`: a handler that is not stale and does not
clear an assignment found none.

`ActiveWasPaid` is false, and two theorems say that trials are the whole reason.
`UntriedIsPaid`: a workspace without a trial in its past is only on plans whose price it
has paid. `PaidWithoutTrials`: `ActiveWasPaid` holds where no plan has a trial. The
invariant `PaidSound` adds what a move about to be written is `Covered` by. It needs no
exception for overlapping writes, unlike the others: what was paid and the trials only
grow, so a plan that was covered when a move read the row still is when it is written.

## 9. Sessions, clicks and reports (`MCBackground`)

Three small modules that share no state. `MCBackground` lets a behaviour run one of them,
so that one run has the sum of their states; each has its own specification, which the
proofs are about. All three state safety only, so no fairness is assumed. Each may stop
(inputs, clicks or hours are used up), so deadlock is not checked.

### Sessions

A user, some browsers that each hold one cookie, and the `RefreshToken` rows. `Login` and
`Refresh` read, then `Issue` inserts a token, `Rotate` marks the old one, and `Answer`
sets the cookie: four awaits, as in `AuthService.refresh` and `AuthController`.
`ForgotPassword`, `ResetPassword`, `ChangePassword`, `Suspend` read, `Store` writes the
user's row, and `RevokeAll` revokes what is live then, as does `LogoutAll` in one step.
`Abort` ends a request at any await, and an answer can be lost with it.

`OldSessionsEnd` is about `auth.service.ts:511`. A session from before a reset survives in
three ways, which the property names: its revocation is still owed; the process died
between the transaction at `:500` and the statement at `:514`; or a refresh that was
under way inserted its token after the revocation, and rotation keeps that one alive.
`AlarmExplained` is about `:326`: clients that use their latest token never raise the
alarm for a token they exchanged; two tabs or a lost answer do.

Bounds: two browsers, two requests in flight, four tokens (a login on each and two
rotations), one reset link, five inputs (log in, refresh and reset at once, and use what
is left). Token expiry and e-mail verification are left out.

### Clicks

`Redirected` is `ClickEventProducer.enqueue`, whose failure is swallowed; `StartClick`,
`OpenTransaction`, `Commit` and `Tell` are the awaits of `ClickEventProcessor.process`.
`Commit` inserts the row and counts the day; a unique violation (P2002) ends the job as a
duplicate, *whichever* row it is about. If the database client turns the counter's upsert
into a read and an insert, two first clicks of a day can collide there, and one is
dropped; `NativeUpsert` says which. `Throws` and `Stalls` (dead or only slow) run a job
again. `ClicksCountedOnce` bounds the drops by one less than the workers and keeps all
else exact; that `link.clicked` is lost when `emit` fails after the commit, and a click
when Redis refuses it, is why it says "at most once".

Bounds: three clicks, two workers, two attempts, two faults; `NativeUpsert` is FALSE, the
case in which clicks can be dropped.

### Reports and e-mail

`StartTick`, `FindEligible`, `Claim`, `FindRecipient`, `QueueEmail` and `LinkLog` are the tick: a job that may run
late, and again if its worker stalls, reads the hour when it runs, and claims the user's
day by a row with a unique key. `FindRecipient` reads the user and the workspace, who may be
inactive or gone at any reading: the dispatch then ends with the day claimed. `LinkLog`
stores the e-mail's id in the run. `StartMail`, `SendMail`, `RecordOutcome` and `NoteOutcome`
are the awaits of `EmailDeliveryProcessor`, which never looks at the row's status:
`MailThrows` and `MailStalls` after the provider accepted send again. `repeatable`
(history) counts those occasions, `abandoned` the days dropped by a fault, `unreached` those
without a recipient, `cut` those whose tick failed after the claim. A claimed day whose
process dies before the e-mail is queued, or whose user was inactive, has no report and no
row; nothing retries it.

`ReportSentOnce` bounds the e-mails of a day by one more than those occasions and says
when the row may be believed: `SENT` always, `FAILED` and `SKIPPED` unless the job was
repeated. When nothing is under way, a claimed day without a final row was unreached or
dropped by a fault or has a job that was repeated, and a run that names no row is of a day
that was unreached or whose tick failed.

Bounds: two tick workers, two e-mail workers, three hours of two-hour days (two days, and
a preference that moves past the hour), two attempts, one fault.

### Proofs (`ClickPipelineProofs`, `SessionsProofs`, `ReportsProofs`)

For any number of workers, clients, requests, attempts, hours and faults; the workers of
a queue are finitely many where they are counted.

* `ClicksAreCountedOnce`. The bound on drops is not inductive: the invariant adds, once
  the counter exists, that the drops *and* the workers that had not found it are fewer
  than the workers (`FewDropped`), that a click is told of by the worker that made its row
  and nobody else (`ToldByItsWriter`), `RowsCounted` and `DoneIsRecorded`.
* `OldSessionsAreEnded`. `OldTokens` says of every token, and `OldRequests` of every
  request that holds one, what the property says of live tokens, since a refresh passes
  the password of its token on to the next.
* `AlarmsAreExplained`. One live cookie per token (`OneHolder`), requests belong to the
  client that holds their token or one it exchanged (`RequestsOfClients`), two requests
  of a client mark it disturbed (`Overlaps`), and a rotated token in a cookie or request
  is explained (`RotatedExplained`).
* `ReportsAreSentOnce`. The invariant is about one day at a time (`DayOK`): e-mails sent,
  plus the job that waits, plus the workers that have not heard of acceptance, are at most
  one more than the repetitions (`FewSent`); who claims (`ClaimedOnce`); what an answer
  says of `sent` (`AnswersKept`); and that without a repetition one worker is on the job
  (`OneAtATime`). `LinksInv` is the same for what the run's row names: a day is named by the
  tick that queued it, or its tick failed (`LinkedOnce`).

## 10. What is only model-checked, and what is not modelled

Only liveness (`ChargeResolves`, `QueueDrains`) rests on the instances above alone: the
prover used has no rules for liveness under fairness or ENABLED. Every other property of a
passing run is a theorem, five of them under the hypothesis that handlers do not overlap
and one, `KeepsPromise`, under the hypothesis that prices are in one currency (section 4). It has no induction over data either; no proof needs one. The four
properties that the code violates (`AppliedOnce` with two handlers in flight,
`CallbackIsSafe`, `EntitlementPaidFor` with two currencies, `ActiveWasPaid`) are shown by
TLC's counterexamples, and `RejectionsAreJustified`, `PaidInOneCurrency` and `UntriedIsPaid`
bound what goes wrong.

Not modelled, and why:

* The web application, shared packages, seed data and generated clients, more than half of the
  repository's lines: rendering, types and constants, with no state that the API's
  correctness depends on. A model of a page would restate its markup.
* Administration of plans, currencies, branding and the landing page; API keys; link
  sources; listings: single statements behind a check, without a rule over several rows.
* Hashing, signing, encryption, templates, QR images, DNS and HTTP beyond their verdicts;
  the SQL of analytics.
* Hazards seen and left out: a report tick that runs an hour late misses the users of its
  hour, who simply get no report that day (`report-dispatch.service.ts:61`; the tick is
  modelled, that it should not be missed is not promised); a database error in the middle
  of a webhook fan-out leaves later endpoints without a row (`EmitThrows` has it, and
  nothing promises otherwise); the currency settings' cache can be filled by a read from
  before the write that cleared it (`currency.service.ts:400`), for sixty seconds.

## 11. Running

    tlc -workers 2 -config MCCheckout_faults.cfg MCCheckout.tla      # _races, _serial, _v_*
    tlc -workers 2 -config MCWebhookDelivery.cfg MCWebhookDelivery.tla
    tlc -workers 2 -config MCLinkRedirect.cfg MCLinkRedirect.tla
    tlc -workers 2 -config MCWorkspace.cfg MCWorkspace.tla
    tlc -workers 2 -config MCLifecycle.cfg MCLifecycle.tla           # _v_trial
    tlc -workers 2 -config MCBackground.cfg MCBackground.tla
    tlapm CheckoutProofs.tla       # and the other *Proofs modules

The largest runs have about two million states and take one to two minutes on two cores.
`lifecycle_v_trial`, `checkout_v_callback`, `checkout_v_currency` and `checkout_v_once` are expected to end with
a violation: each is a finding of section 4 or 8.
