------------------------------- MODULE Checkout -------------------------------
(***************************************************************************)
(* The invoice-first checkout of one workspace, with a real payment        *)
(* provider configured: SubscriptionsService, InvoicesService,             *)
(* BillingController.checkoutCallback, the Paystack webhook receiver and   *)
(* its BullMQ processor, all over the same Postgres rows.                  *)
(*                                                                         *)
(* Nothing in this code runs in a database transaction or under a lock:    *)
(* every `await' is a point where another handler may run, so every        *)
(* database or provider call is a step of its own and what the code keeps  *)
(* in local variables between two awaits is kept in `local'.               *)
(*                                                                         *)
(* Plans here have no trialDays and the provider never sent                *)
(* subscription.create, so no trial is granted and no recurring            *)
(* subscription has to be cancelled on a downgrade; every provider         *)
(* transaction comes from proceedToPayment and carries an invoiceId, and   *)
(* invoice rows are never deleted, so the legacy branch of charge.success  *)
(* is unreachable.                                                         *)
(***************************************************************************)
EXTENDS Naturals, FiniteSets

CONSTANTS
    Offers,        \* what resolvePlanPrice can answer: [plan, amount, currency]
    FreeOffer,     \* the seeded FREE plan every workspace starts on
    Invoices, NoInvoice,
    Refs, NoRef,   \* provider references (one transaction, one webhook each)
    Requests,      \* HTTP request slots of the API
    Workers,       \* BullMQ worker slots of the Paystack webhook queue
    MaxFaults,     \* bound: exceptions, crashes and lost enqueues
    MaxInFlight    \* bound: handlers running at the same time

ASSUME OffersAssumption ==
    /\ FreeOffer \in Offers /\ FreeOffer.amount = 0
    /\ \A o \in Offers : o.amount \in Nat
    /\ \A o, p \in Offers :          \* nothing else tells two offers apart
          o.plan = p.plan /\ o.amount = p.amount /\ o.currency = p.currency => o = p

ASSUME NamesAssumption ==
    /\ NoInvoice \notin Invoices /\ NoRef \notin Refs
    /\ Requests \cap Workers = {} /\ IsFiniteSet(Invoices)

ASSUME BoundsAssumption == MaxFaults \in Nat /\ MaxInFlight \in Nat

VARIABLES
    sub,          \* Subscription row: plan, amount and currency of the workspace
    invoice,      \* Invoice rows
    tx,           \* the provider's transactions, with our metadata
    event,        \* BillingEvent rows, one per charge.success (per reference)
    job,          \* the BullMQ job of each BillingEvent
    role,         \* plan behind the owner's stored platform role
    pc, local,    \* per handler: the next await, and the values it holds
    activations,  \* history: how often each invoice's activation was written
    faults        \* bound: faults so far

rows == <<sub, invoice, tx, event, job, role, activations>>
vars == <<sub, invoice, tx, event, job, role, pc, local, activations, faults>>

Handlers == Requests \cup Workers
Plans == {o.plan : o \in Offers}

InvoiceStatus == {"NONE", "PENDING", "PAID", "FAILED"}   \* NONE: no such row yet
Labels == {"idle", "find", "refresh", "count", "create", "apply", "sync", "resolve", "store",
           "initialize", "attachNew", "lookup", "lookupById", "attach",
           "activate", "markPaid", "markFailed", "finish", "ack"}

NoLocal == [offer |-> FreeOffer, inv |-> NoInvoice, ref |-> NoRef,
            ok |-> FALSE, count |-> 0, seen |-> FreeOffer.plan]
NoRow == [status |-> "NONE", offer |-> FreeOffer, ref |-> NoRef, number |-> 0]
NoTx == [state |-> "none", inv |-> NoInvoice, offer |-> FreeOffer]

Locals == [offer: Offers, inv: Invoices \cup {NoInvoice}, ref: Refs \cup {NoRef},
           ok: BOOLEAN, count: Nat, seen: Plans]
InvoiceRows == [status: InvoiceStatus, offer: Offers, ref: Refs \cup {NoRef}, number: Nat]
Transactions == [state: {"none", "open", "paid"}, inv: Invoices \cup {NoInvoice},
                 offer: Offers]

Init ==
    /\ sub = FreeOffer
    /\ invoice = [i \in Invoices |-> NoRow]
    /\ tx = [r \in Refs |-> NoTx]
    /\ event = [r \in Refs |-> "NONE"]
    /\ job = [r \in Refs |-> "none"]
    /\ role = FreeOffer.plan
    /\ pc = [h \in Handlers |-> "idle"]
    /\ local = [h \in Handlers |-> NoLocal]
    /\ activations = [i \in Invoices |-> 0]
    /\ faults = 0

-----------------------------------------------------------------------------
Existing == {i \in Invoices : invoice[i].status # "NONE"}
Running == {h \in Handlers : pc[h] # "idle"}
Idle(h) == pc[h] = "idle" /\ Cardinality(Running) < MaxInFlight

\* Control passes to `label', the handler's locals become `l'.
Goto(h, label, l) ==
    /\ pc' = [pc EXCEPT ![h] = label]
    /\ local' = [local EXCEPT ![h] = l]

\* What a job still knows when its handler is done.
OnlyRef(h) == [NoLocal EXCEPT !.ref = local[h].ref]

\* The handler returns: a request is answered, a job goes on to its ledger write.
Return(h) ==
    IF h \in Workers THEN Goto(h, "finish", OnlyRef(h)) ELSE Goto(h, "idle", NoLocal)

-----------------------------------------------------------------------------
(* subscribe and changePlan *)

\* Mutant: before Sprint 17, a first paid conversion was applied with no payment.
RequiresPaymentAgain(o) == sub.amount > 0 /\ o.amount > sub.amount

\* Only a move to a higher amount than the one paid today goes through an invoice.
RequiresPayment(o) == o.amount > sub.amount

\* The current subscription is read once; everything after is decided from it.
SelectPlan(h, o) ==
    /\ h \in Requests /\ Idle(h)
    /\ Goto(h, IF RequiresPayment(o) THEN "find" ELSE "apply",
            [NoLocal EXCEPT !.offer = o])
    /\ UNCHANGED <<rows, faults>>

\* A downgrade or lateral move is written directly, then roles are synced.
ApplyDirectly(h) ==
    /\ pc[h] = "apply"
    /\ sub' = local[h].offer
    /\ Goto(h, "sync", local[h])
    /\ UNCHANGED <<invoice, tx, event, job, role, activations, faults>>

PendingFor(plan) ==
    {i \in Invoices : invoice[i].status = "PENDING" /\ invoice[i].offer.plan = plan}

\* Mutant: a new row every time the review screen is opened.
FindPendingNever(h) ==
    /\ pc[h] = "find"
    /\ Goto(h, "count", local[h])
    /\ UNCHANGED <<rows, faults>>

\* createOrReusePendingInvoice: find the newest PENDING invoice of the plan...
FindPending(h) ==
    LET pending == PendingFor(local[h].offer.plan) IN
    /\ pc[h] = "find"
    /\ \/ /\ pending = {}
          /\ Goto(h, "count", local[h])
       \/ \E i \in pending :
             /\ \A j \in pending : invoice[j].number <= invoice[i].number
             /\ Goto(h, "refresh", [local[h] EXCEPT !.inv = i])
    /\ UNCHANGED <<rows, faults>>

\* ...and overwrite its quote, by id and whatever its status is by now;
RefreshQuote(h) ==
    /\ pc[h] = "refresh"
    /\ invoice' = [invoice EXCEPT ![local[h].inv].offer = local[h].offer]
    /\ Return(h)
    /\ UNCHANGED <<sub, tx, event, job, role, activations, faults>>

\* Mutant: off by one on an empty ledger.
CountInvoicesFromZero(h) ==
    /\ pc[h] = "count"
    /\ Goto(h, "create", [local[h] EXCEPT !.count = Cardinality(Existing) - 1])
    /\ UNCHANGED <<rows, faults>>

\* or count the workspace's invoices...
CountInvoices(h) ==
    /\ pc[h] = "count"
    /\ Goto(h, "create", [local[h] EXCEPT !.count = Cardinality(Existing)])
    /\ UNCHANGED <<rows, faults>>

NumberTaken(n) == \E j \in Existing : invoice[j].number = n

\* ...and create one numbered count + 1, unless the number is taken by now
\* (unique on workspaceId and number: the request fails).  Bound: the request
\* also fails when the instance has no row left.
CreateInvoice(h) ==
    /\ pc[h] = "create"
    /\ Return(h)
    /\ \/ /\ NumberTaken(local[h].count + 1) \/ Existing = Invoices
          /\ UNCHANGED invoice
       \/ /\ ~NumberTaken(local[h].count + 1)
          /\ \E i \in Invoices \ Existing :
                invoice' = [invoice EXCEPT ![i] =
                    [status |-> "PENDING", offer |-> local[h].offer,
                     ref |-> NoRef, number |-> local[h].count + 1]]
    /\ UNCHANGED <<sub, tx, event, job, role, activations, faults>>

-----------------------------------------------------------------------------
(* proceedToPayment *)

\* Mutant: any invoice of the workspace may be paid.
ProceedAnyStatus(h, i) ==
    /\ h \in Requests /\ Idle(h)
    /\ invoice[i].status # "NONE"
    /\ Goto(h, "initialize", [NoLocal EXCEPT !.inv = i, !.offer = invoice[i].offer])
    /\ UNCHANGED <<rows, faults>>

\* Load an invoice that is PENDING now...
Proceed(h, i) ==
    /\ h \in Requests /\ Idle(h)
    /\ invoice[i].status = "PENDING"
    /\ Goto(h, "initialize", [NoLocal EXCEPT !.inv = i, !.offer = invoice[i].offer])
    /\ UNCHANGED <<rows, faults>>

\* ...open a provider transaction for the amount and currency just read (the
\* provider may refuse the currency)...
InitializeTransaction(h) ==
    /\ pc[h] = "initialize"
    /\ \/ /\ Return(h)
          /\ UNCHANGED tx
       \/ \E r \in Refs :
             /\ tx[r].state = "none"
             /\ tx' = [tx EXCEPT ![r] = [state |-> "open", inv |-> local[h].inv,
                                         offer |-> local[h].offer]]
             /\ Goto(h, "attachNew", [local[h] EXCEPT !.ref = r])
    /\ UNCHANGED <<sub, invoice, event, job, role, activations, faults>>

\* ...and store its reference on the row, by id and whatever its status is.
AttachNewReference(h) ==
    /\ pc[h] = "attachNew"
    /\ invoice' = [invoice EXCEPT ![local[h].inv].ref = local[h].ref]
    /\ Return(h)
    /\ UNCHANGED <<sub, tx, event, job, role, activations, faults>>

-----------------------------------------------------------------------------
(* The provider and the webhook receiver *)

\* External: the customer pays an open transaction, once.
CustomerPays(r) ==
    /\ tx[r].state = "open"
    /\ tx' = [tx EXCEPT ![r].state = "paid"]
    /\ UNCHANGED <<sub, invoice, event, job, role, pc, local, activations, faults>>

\* charge.success arrives for the first time: the BillingEvent row is created
\* and its job enqueued, fire and forget.  A redelivery hashes to the same
\* externalEventId and changes nothing.
ReceiveWebhook(r) ==
    /\ tx[r].state = "paid" /\ event[r] = "NONE"
    /\ event' = [event EXCEPT ![r] = "PENDING"]
    /\ \/ /\ job' = [job EXCEPT ![r] = "queued"]
          /\ UNCHANGED faults
       \/ /\ faults < MaxFaults          \* Redis is down, or the API dies in between
          /\ job' = [job EXCEPT ![r] = "lost"]
          /\ faults' = faults + 1
    /\ UNCHANGED <<sub, invoice, tx, role, pc, local, activations>>

-----------------------------------------------------------------------------
(* The two callers of confirmAndActivate *)

\* checkoutCallback: ask the provider, whoever calls and whenever they call.
Callback(h, r) ==
    /\ h \in Requests /\ Idle(h)
    /\ tx[r].state # "none"
    /\ Goto(h, "lookup", [NoLocal EXCEPT !.ref = r, !.ok = (tx[r].state = "paid")])
    /\ UNCHANGED <<rows, faults>>

\* PaystackWebhookProcessor.process: an event already PROCESSED is done with.
RunJob(h, r) ==
    /\ h \in Workers /\ Idle(h)
    /\ job[r] \in {"queued", "stalled"}
    /\ \A w \in Workers : pc[w] # "idle" => local[w].ref # r
    /\ Goto(h, IF event[r] = "PROCESSED" THEN "ack" ELSE "lookup",
            [NoLocal EXCEPT !.ref = r, !.ok = TRUE])
    /\ UNCHANGED <<rows, faults>>

-----------------------------------------------------------------------------
(* confirmAndActivate *)

Terminal(row) == row.status \in {"PAID", "FAILED"}

\* Mutant: the provider's status is not looked at.
VerifiedTrustingCaller(h, row) ==
    /\ tx[local[h].ref].offer.amount = row.offer.amount
    /\ tx[local[h].ref].offer.currency = row.offer.currency

\* Mutant: amounts are compared without their currency.
VerifiedAnyCurrency(h, row) ==
    local[h].ok /\ tx[local[h].ref].offer.amount = row.offer.amount

\* The verification checklist, against the row as it was read.
Verified(h, row) ==
    /\ local[h].ok
    /\ tx[local[h].ref].offer.amount = row.offer.amount
    /\ tx[local[h].ref].offer.currency = row.offer.currency

\* Mutant: no short circuit for a terminal invoice.
DecideAgain(h, i, row) ==
    Goto(h, IF Verified(h, row) THEN "activate" ELSE "markFailed",
         [local[h] EXCEPT !.inv = i, !.offer = row.offer])

\* What is decided from the row just read: a terminal invoice is a no-op, a
\* verified one is activated, anything else is marked failed.
Decide(h, i, row) ==
    IF Terminal(row) THEN Return(h)
    ELSE Goto(h, IF Verified(h, row) THEN "activate" ELSE "markFailed",
              [local[h] EXCEPT !.inv = i, !.offer = row.offer])

\* Mutant: a webhook that overtakes attachProviderReference is dropped.
LookupByReferenceOnly(h) ==
    /\ pc[h] = "lookup"
    /\ \/ \E i \in Existing : /\ invoice[i].ref = local[h].ref
                              /\ Decide(h, i, invoice[i])
       \/ /\ \A i \in Existing : invoice[i].ref # local[h].ref
          /\ Return(h)
    /\ UNCHANGED <<rows, faults>>

\* Correlate by stored reference...
LookupByReference(h) ==
    /\ pc[h] = "lookup"
    /\ \/ \E i \in Existing : /\ invoice[i].ref = local[h].ref
                              /\ Decide(h, i, invoice[i])
       \/ /\ \A i \in Existing : invoice[i].ref # local[h].ref
          /\ Goto(h, "lookupById", local[h])
    /\ UNCHANGED <<rows, faults>>

\* ...else by the transaction's own metadata.invoiceId; a PENDING row found so
\* gets the reference first.
LookupById(h) ==
    LET i == tx[local[h].ref].inv IN
    /\ pc[h] = "lookupById"
    /\ IF invoice[i].status = "PENDING"
       THEN Goto(h, "attach", [local[h] EXCEPT !.inv = i])
       ELSE Decide(h, i, invoice[i])
    /\ UNCHANGED <<rows, faults>>

\* The update returns the row as it is now.
AttachReference(h) ==
    LET i == local[h].inv IN
    /\ pc[h] = "attach"
    /\ invoice' = [invoice EXCEPT ![i].ref = local[h].ref]
    /\ Decide(h, i, invoice'[i])
    /\ UNCHANGED <<sub, tx, event, job, role, activations, faults>>

\* The subscription is written from the row as it was read...
Activate(h) ==
    /\ pc[h] = "activate"
    /\ sub' = local[h].offer
    /\ activations' = [activations EXCEPT ![local[h].inv] = @ + 1]
    /\ Goto(h, "markPaid", local[h])
    /\ UNCHANGED <<invoice, tx, event, job, role, faults>>

\* Mutant: the role is left to a later webhook.
MarkPaidNoSync(h) ==
    /\ pc[h] = "markPaid"
    /\ invoice' = [invoice EXCEPT ![local[h].inv].status = "PAID"]
    /\ Return(h)
    /\ UNCHANGED <<sub, tx, event, job, role, activations, faults>>

\* ...then the invoice is marked, by id and whatever its status is by now.
MarkPaid(h) ==
    /\ pc[h] = "markPaid"
    /\ invoice' = [invoice EXCEPT ![local[h].inv].status = "PAID"]
    /\ Goto(h, "sync", local[h])
    /\ UNCHANGED <<sub, tx, event, job, role, activations, faults>>

MarkFailed(h) ==
    /\ pc[h] = "markFailed"
    /\ invoice' = [invoice EXCEPT ![local[h].inv].status = "FAILED"]
    /\ Return(h)
    /\ UNCHANGED <<sub, tx, event, job, role, activations, faults>>

\* syncOwnerRoles: read the owner's stored role...
SyncRole(h) ==
    /\ pc[h] = "sync"
    /\ Goto(h, "resolve", [local[h] EXCEPT !.seen = role])
    /\ UNCHANGED <<rows, faults>>

\* ...resolve the one the subscription gives, and store it when they differ.
ResolveRole(h) ==
    /\ pc[h] = "resolve"
    /\ IF local[h].seen = sub.plan THEN Return(h)
       ELSE Goto(h, "store", [local[h] EXCEPT !.offer = sub])
    /\ UNCHANGED <<rows, faults>>

StoreRole(h) ==
    /\ pc[h] = "store"
    /\ role' = local[h].offer.plan
    /\ Return(h)
    /\ UNCHANGED <<sub, invoice, tx, event, job, activations, faults>>

-----------------------------------------------------------------------------
(* The end of a job, and what can go wrong *)

\* Mutant: the event's ledger row is not closed.
MarkProcessedForgotten(h) ==
    /\ pc[h] = "finish"
    /\ Goto(h, "ack", local[h])
    /\ UNCHANGED <<rows, faults>>

MarkProcessed(h) ==
    /\ pc[h] = "finish"
    /\ event' = [event EXCEPT ![local[h].ref] = "PROCESSED"]
    /\ Goto(h, "ack", local[h])
    /\ UNCHANGED <<sub, invoice, tx, job, role, activations, faults>>

Acknowledge(h) ==
    /\ pc[h] = "ack"
    /\ job' = [job EXCEPT ![local[h].ref] = "done"]
    /\ Goto(h, "idle", NoLocal)
    /\ UNCHANGED <<sub, invoice, tx, event, role, activations, faults>>

\* An awaited call throws.  A request ends there.  A job catches the error and
\* writes the event FAILED, which ends it without a retry; if that write throws
\* too, BullMQ runs the job again.
Fault(h) ==
    /\ pc[h] \notin {"idle", "ack"} /\ faults < MaxFaults
    /\ faults' = faults + 1
    /\ \/ /\ h \in Workers
          /\ event' = [event EXCEPT ![local[h].ref] = "FAILED"]
          /\ Goto(h, "ack", OnlyRef(h))
       \/ /\ Goto(h, "idle", NoLocal)
          /\ UNCHANGED event
    /\ UNCHANGED <<sub, invoice, tx, job, role, activations>>

\* External: the process running these handlers dies.  BullMQ gives a stalled
\* job to another worker once; a job that stalls again is failed for good.
Crash(dead) ==
    /\ faults < MaxFaults
    /\ faults' = faults + 1
    /\ pc' = [h \in Handlers |-> IF h \in dead THEN "idle" ELSE pc[h]]
    /\ local' = [h \in Handlers |-> IF h \in dead THEN NoLocal ELSE local[h]]
    /\ job' = [r \in Refs |->
                 IF \E w \in dead \cap Workers : pc[w] # "idle" /\ local[w].ref = r
                 THEN IF job[r] = "queued" THEN "stalled" ELSE "lost"
                 ELSE job[r]]
    /\ UNCHANGED <<sub, invoice, tx, event, role, activations>>

-----------------------------------------------------------------------------
\* What a handler does next by itself, once it is running.
Continue(h) ==
    \/ ApplyDirectly(h) \/ FindPending(h) \/ RefreshQuote(h)
    \/ CountInvoices(h) \/ CreateInvoice(h)
    \/ InitializeTransaction(h) \/ AttachNewReference(h)
    \/ LookupByReference(h) \/ LookupById(h) \/ AttachReference(h)
    \/ Activate(h) \/ MarkPaid(h) \/ MarkFailed(h)
    \/ SyncRole(h) \/ ResolveRole(h) \/ StoreRole(h) \/ MarkProcessed(h) \/ Acknowledge(h)

Next ==
    \/ \E h \in Handlers : Continue(h) \/ Fault(h)
    \/ \E h \in Handlers, o \in Offers : SelectPlan(h, o)
    \/ \E h \in Handlers, i \in Invoices : Proceed(h, i)
    \/ \E h \in Handlers, r \in Refs : Callback(h, r) \/ RunJob(h, r)
    \/ \E r \in Refs : CustomerPays(r) \/ ReceiveWebhook(r)
    \/ \E dead \in SUBSET Running \ {{}} : Crash(dead)

Spec == Init /\ [][Next]_vars

\* Awaited calls return, and BullMQ hands a queued job to a free worker.
\* Customers and requests owe nothing.
Fairness ==
    /\ \A h \in Handlers : WF_vars(Continue(h))
    /\ \A h \in Workers, r \in Refs : WF_vars(RunJob(h, r))

FairSpec == Spec /\ Fairness

-----------------------------------------------------------------------------
(* What must hold, whatever interleaves and whatever fails *)

TypeOK ==
    /\ sub \in Offers
    /\ invoice \in [Invoices -> InvoiceRows]
    /\ tx \in [Refs -> Transactions]
    /\ event \in [Refs -> {"NONE", "PENDING", "PROCESSED", "FAILED"}]
    /\ job \in [Refs -> {"none", "queued", "stalled", "done", "lost"}]
    /\ role \in Plans
    /\ pc \in [Handlers -> Labels]
    /\ local \in [Handlers -> Locals]
    /\ activations \in [Invoices -> Nat]
    /\ faults \in 0..MaxFaults

\* A paid transaction covers an offer: it was for at least as much, in its currency.
PaidUpTo(o) ==
    o.amount = 0 \/ \E r \in Refs : /\ tx[r].state = "paid"
                                  /\ tx[r].offer.currency = o.currency
                                  /\ tx[r].offer.amount >= o.amount

\* determinePaymentRequirement, an upgrade "always requires payment": no order of plan changes,
\* callbacks, webhooks, retries and crashes leaves the workspace on an offer dearer than
\* anything its customer has really paid.  False as soon as plans are priced in two
\* currencies, for RequiresPayment compares numbers of different units.
EntitlementPaidFor == PaidUpTo(sub)

\* It does hold of a customer who pays in one currency, whatever currencies the plans are
\* offered in: while all that was ever paid is in the currency of the subscription, the
\* subscription costs no more than one of those payments.
PaidInOneCurrency ==
    (\A r \in Refs : tx[r].state = "paid" => tx[r].offer.currency = sub.currency)
        => EntitlementPaidFor

\* All plans are priced in one currency.
OneCurrency == \A o, p \in Offers : o.currency = p.currency

\* When a handler is about to write the subscription from an invoice, it writes
\* the plan, amount and currency of a transaction that was really paid, and that
\* was opened for this very invoice, even if the invoice's quote or reference has
\* been overwritten since it was read.
ActivatesWhatWasCharged ==
    \A h \in Handlers : pc[h] = "activate" =>
        tx[local[h].ref] = [state |-> "paid", inv |-> local[h].inv,
                            offer |-> local[h].offer]

\* A receipt is never issued for nothing: behind a PAID invoice there is a
\* paid transaction of its own, and the subscription was written for it first.
PaidMeansChargedAndActivated ==
    \A i \in Invoices : invoice[i].status = "PAID" =>
        /\ activations[i] > 0
        /\ \E r \in Refs : tx[r].state = "paid" /\ tx[r].inv = i

\* A webhook is only written off as PROCESSED once its invoice is settled.
ProcessedMeansSettled ==
    \A r \in Refs : event[r] = "PROCESSED" => Terminal(invoice[tx[r].inv])

\* With one currency, Checkout implements the billing promise of Entitlement.tla.
Promise == INSTANCE Entitlement WITH
    charges <- {tx[r].offer : r \in {x \in Refs : tx[x].state = "paid"}},
    held <- sub
KeepsPromise == Promise!Spec

\* A queued charge.success is eventually settled, marked FAILED for follow-up,
\* or given up by BullMQ: it never waits or circles for ever.
ChargeResolves ==
    \A r \in Refs : job[r] = "queued" ~>
        \/ event[r] = "FAILED" \/ job[r] = "lost"
        \/ event[r] = "PROCESSED" /\ Terminal(invoice[tx[r].inv])

-----------------------------------------------------------------------------
(* What holds when handlers do not overlap and nothing fails *)

\* PAID and FAILED are terminal: such a row is never written again.
TerminalInvoices ==
    [][\A i \in Invoices : Terminal(invoice[i]) => invoice'[i] = invoice[i]]_vars

\* The callback and the webhook of one payment write the subscription once.
AppliedOnce == \A i \in Invoices : activations[i] <= 1

\* Reopening the review screen reuses the pending invoice of a plan.
OnePendingPerPlan == \A p \in Plans : Cardinality(PendingFor(p)) <= 1

\* When nothing is running the owner's stored role is that of the current plan.
RoleFollowsPlan == Running = {} => role = sub.plan

\* A step to a higher amount is always a charge for exactly the new offer.
UpgradesArePaid ==
    [][sub'.amount > sub.amount =>
         \E r \in Refs : tx[r].state = "paid" /\ tx[r].offer = sub']_vars

\* A payment for the invoice exactly as quoted is not turned away.
CallbackIsSafe ==
    \A r \in Refs : event[r] = "PROCESSED" =>
        LET i == tx[r].inv IN invoice[i].offer = tx[r].offer => invoice[i].status # "FAILED"

-----------------------------------------------------------------------------
(* The inductive invariant behind the theorems of CheckoutProofs *)

\* What the code compares, and all that is inductive: amounts as bare numbers, of whatever
\* currency each is.
NumberPaid(amount) ==
    amount = 0 \/ \E r \in Refs : tx[r].state = "paid" /\ tx[r].offer.amount >= amount
NumbersPaidFor == NumberPaid(sub.amount)

HasRow(i) == i \in Invoices /\ invoice[i].status # "NONE"
Opened(r) == r \in Refs /\ tx[r].state # "none"
PaidFor(i) == \E r \in Refs : tx[r].state = "paid" /\ tx[r].inv = i

\* What the rows say of each other: a transaction's invoice exists and still is
\* for the plan it was opened for; a reference on an invoice is one of its own
\* transactions; an event or a job exists only for a paid transaction.
LedgerOK ==
    /\ \A r \in Refs : tx[r].state # "none" =>
          HasRow(tx[r].inv) /\ invoice[tx[r].inv].offer.plan = tx[r].offer.plan
    /\ \A i \in Invoices : invoice[i].ref # NoRef =>
          Opened(invoice[i].ref) /\ tx[invoice[i].ref].inv = i
    /\ \A r \in Refs : event[r] # "NONE" => tx[r].state = "paid"
    /\ \A r \in Refs : job[r] # "none" => event[r] # "NONE"

\* What a handler's locals still mean at its next step, however much the rows
\* have changed since they were read.
HandlerOK(h) ==
    LET l == local[h] IN
    /\ h \in Workers /\ pc[h] # "idle" => l.ref \in Refs /\ event[l.ref] # "NONE"
    /\ pc[h] = "initialize" => h \in Requests
    /\ pc[h] \in {"finish", "ack"} => h \in Workers
    /\ pc[h] = "apply" => NumberPaid(l.offer.amount)
    /\ pc[h] \in {"refresh", "initialize"} =>
          HasRow(l.inv) /\ invoice[l.inv].offer.plan = l.offer.plan
    /\ pc[h] = "attachNew" => Opened(l.ref) /\ tx[l.ref].inv = l.inv
    /\ pc[h] \in {"lookup", "lookupById", "attach"} =>
          Opened(l.ref) /\ (l.ok => tx[l.ref].state = "paid")
    /\ pc[h] = "attach" => tx[l.ref].inv = l.inv
    /\ pc[h] = "activate" =>
          l.ref \in Refs /\ HasRow(l.inv)
          /\ tx[l.ref] = [state |-> "paid", inv |-> l.inv, offer |-> l.offer]
    /\ pc[h] = "markPaid" => HasRow(l.inv) /\ PaidFor(l.inv) /\ activations[l.inv] > 0
    /\ pc[h] = "markFailed" => HasRow(l.inv)

IInv ==
    /\ TypeOK
    /\ LedgerOK
    /\ \A h \in Handlers : HandlerOK(h)
    /\ NumbersPaidFor
    /\ PaidMeansChargedAndActivated
=============================================================================
