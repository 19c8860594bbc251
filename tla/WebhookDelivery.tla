---------------------------- MODULE WebhookDelivery ----------------------------
(***************************************************************************)
(* Outbound webhooks of one workspace: WebhookEventsService.emit writes an *)
(* event and one delivery row per subscribed endpoint and enqueues one     *)
(* BullMQ job per delivery; WebhookDeliveryProcessor makes the attempts;   *)
(* WebhooksService pauses, activates and deletes endpoints and retries     *)
(* deliveries by hand.  Postgres holds the status, BullMQ the retries.     *)
(*                                                                         *)
(* Every endpoint here subscribes to every event.  URLs, secrets,          *)
(* payloads, timestamps and the wait of a backoff are left out.            *)
(***************************************************************************)
EXTENDS Naturals, FiniteSets

CONSTANTS
    Endpoints,
    Events,
    Jobs,          \* slots of the BullMQ queue
    NoJob, Nobody,
    Workers,       \* concurrency of the processor
    Requests,      \* HTTP request slots of the API
    MaxAttempts,   \* webhooks.maxAttempts: attempts of an automatic job
    Threshold,     \* webhooks.autoDisableThreshold
    MaxRetries,    \* bound: manual retries
    MaxFaults      \* bound: exceptions, crashes and lost enqueues

Deliveries == Endpoints \X Events     \* unique on webhookEndpointId and eventId
Handlers == Workers \cup Requests

ASSUME WebhookNames ==
    /\ Workers \cap Requests = {} /\ NoJob \notin Jobs /\ Nobody \notin Deliveries
    /\ IsFiniteSet(Endpoints) /\ IsFiniteSet(Jobs) /\ IsFiniteSet(Workers)

ASSUME WebhookBounds ==
    /\ MaxAttempts \in Nat \ {0} /\ Threshold \in Nat \ {0}
    /\ MaxRetries \in Nat /\ MaxFaults \in Nat

VARIABLES
    endpoint,    \* WebhookEndpoint rows
    delivery,    \* WebhookDelivery rows
    emit,        \* each event's emit call: how far it is, and whom it still owes a row
    job,         \* the queue
    pc, local,   \* per handler: the next await, and the values it holds
    accepted,    \* history: deliveries some receiver answered with a 2xx
    exhausted,   \* history: terminal failures counted against each endpoint
    stranded,    \* history: deliveries that lost a job to a fault
    retries, faults

rows == <<endpoint, delivery, emit, job, accepted, exhausted, stranded, retries>>
vars == <<rows, pc, local, faults>>

NoDelivery == [status |-> "NONE", attempts |-> 0, refused |-> FALSE]
FreeJob == [state |-> "free", of |-> Nobody, made |-> 0, max |-> 0, stalled |-> FALSE]
NoLocal == [job |-> NoJob, at |-> Nobody, of |-> Nobody, outcome |-> "none"]

Init ==
    /\ endpoint = [e \in Endpoints |-> [status |-> "ACTIVE", deleted |-> FALSE, failures |-> 0]]
    /\ delivery = [d \in Deliveries |-> NoDelivery]
    /\ emit = [v \in Events |-> [state |-> "new", to |-> {}]]
    /\ job = [j \in Jobs |-> FreeJob]
    /\ pc = [h \in Handlers |-> "idle"]
    /\ local = [h \in Handlers |-> NoLocal]
    /\ accepted = {}
    /\ exhausted = [e \in Endpoints |-> 0]
    /\ stranded = {}
    /\ retries = 0
    /\ faults = 0

-----------------------------------------------------------------------------
Goto(h, label, l) ==
    /\ pc' = [pc EXCEPT ![h] = label]
    /\ local' = [local EXCEPT ![h] = l]

Return(h) == Goto(h, "idle", NoLocal)

Active(e) == endpoint[e].status = "ACTIVE" /\ ~endpoint[e].deleted
JobsOf(d) == {j \in Jobs : job[j].of = d}

FreeJobs == {j \in Jobs : job[j].state = "free"}

\* Queue.add: some free slot takes the job.
Add(d, max) ==
    /\ FreeJobs # {}
    /\ job' = [job EXCEPT ![CHOOSE j \in FreeJobs : TRUE] =
                  [state |-> "waiting", of |-> d, made |-> 0, max |-> max, stalled |-> FALSE]]
    /\ UNCHANGED <<stranded, faults>>

\* What BullMQ makes of a job whose processor threw.
Failed(j) ==
    IF job[j].made + 1 < job[j].max
    THEN [job[j] EXCEPT !.state = "delayed", !.made = @ + 1] ELSE FreeJob

\* The enqueue fails; the error is logged and swallowed.
AddFails(d) ==
    /\ faults < MaxFaults
    /\ faults' = faults + 1
    /\ stranded' = stranded \cup {d}
    /\ UNCHANGED job

-----------------------------------------------------------------------------
(* WebhookEventsService.emit, and sendTestEvent *)

\* The event row is written, then the ACTIVE endpoints are read...
FindEndpoints(v) ==
    /\ emit[v].state = "new"
    /\ emit' = [emit EXCEPT ![v] =
          [state |-> "fanout",
           to |-> {e \in Endpoints : Active(e)}]]
    /\ UNCHANGED <<endpoint, delivery, job, accepted, exhausted, stranded, retries,
                   pc, local, faults>>

\* (a test event goes to one endpoint, paused or not)
SendTestEvent(v, e) ==
    /\ emit[v].state = "new"
    /\ ~endpoint[e].deleted
    /\ emit' = [emit EXCEPT ![v] = [state |-> "fanout", to |-> {e}]]
    /\ UNCHANGED <<endpoint, delivery, job, accepted, exhausted, stranded, retries,
                   pc, local, faults>>

\* Mutant: the job names the row's key the wrong way round.
FanOutSwapped(v, e) ==
    /\ e \in emit[v].to
    /\ emit' = [emit EXCEPT ![v].to = @ \ {e}]
    /\ delivery' = [delivery EXCEPT ![<<e, v>>].status = "PENDING"]
    /\ Add(<<v, e>>, MaxAttempts) \/ AddFails(<<e, v>>)
    /\ UNCHANGED <<endpoint, accepted, exhausted, retries, pc, local>>

\* ...and each of them, whatever became of it since, gets a row and a job.
FanOut(v, e) ==
    /\ e \in emit[v].to
    /\ emit' = [emit EXCEPT ![v].to = @ \ {e}]
    /\ delivery' = [delivery EXCEPT ![<<e, v>>].status = "PENDING"]
    /\ Add(<<e, v>>, MaxAttempts) \/ AddFails(<<e, v>>)
    /\ UNCHANGED <<endpoint, accepted, exhausted, retries, pc, local>>

\* A database call of the fan-out throws: the endpoints left get nothing.
EmitThrows(v) ==
    /\ emit[v].to # {} /\ faults < MaxFaults
    /\ faults' = faults + 1
    /\ emit' = [emit EXCEPT ![v].to = {}]
    /\ UNCHANGED <<endpoint, delivery, job, accepted, exhausted, stranded, retries, pc, local>>

-----------------------------------------------------------------------------
(* WebhookDeliveryProcessor.process *)

\* External: BullMQ hands a waiting job to a free worker; a backoff ends.
Take(w, j) ==
    /\ w \in Workers /\ pc[w] = "idle" /\ job[j].state = "waiting"
    /\ job' = [job EXCEPT ![j].state = "active"]
    /\ Goto(w, "load", [NoLocal EXCEPT !.job = j, !.of = job[j].of, !.at = job[j].of[1]])
    /\ UNCHANGED <<endpoint, delivery, emit, accepted, exhausted, stranded, retries, faults>>

BackoffEnds(j) ==
    /\ job[j].state = "delayed"
    /\ job' = [job EXCEPT ![j].state = "waiting"]
    /\ UNCHANGED <<endpoint, delivery, emit, accepted, exhausted, stranded, retries,
                   pc, local, faults>>

\* Delivery and endpoint are read afresh; the delivery's own status is not looked at.
Load(w) ==
    /\ pc[w] = "load"
    /\ Goto(w, IF Active(local[w].at) THEN "mark" ELSE "refuse", local[w])
    /\ UNCHANGED <<rows, faults>>

\* Mutant: the job waits for a paused endpoint instead.
RefuseByWaiting(w) ==
    /\ pc[w] = "refuse"
    /\ job' = [job EXCEPT ![local[w].job].state = "delayed"]
    /\ Return(w)
    /\ UNCHANGED <<endpoint, delivery, emit, accepted, exhausted, stranded, retries, faults>>

\* The endpoint was paused, disabled or deleted: no request, no further retry.
Refuse(w) ==
    /\ pc[w] = "refuse"
    /\ delivery' = [delivery EXCEPT ![local[w].of].status = "FAILED",
                                    ![local[w].of].refused = TRUE]
    /\ Goto(w, "complete", local[w])
    /\ UNCHANGED <<endpoint, emit, job, accepted, exhausted, stranded, retries, faults>>

MarkProcessing(w) ==
    /\ pc[w] = "mark"
    /\ delivery' = [delivery EXCEPT ![local[w].of].status = "PROCESSING"]
    /\ Goto(w, "post", local[w])
    /\ UNCHANGED <<endpoint, emit, job, accepted, exhausted, stranded, retries, faults>>

\* Mutant: any answer counts as a delivery.
PostAnyAnswer(w) ==
    /\ pc[w] = "post"
    /\ \E outcome \in {"success", "retryable", "permanent"} :
          /\ Goto(w, IF outcome = "retryable" THEN "fail" ELSE "succeed",
                  [local[w] EXCEPT !.outcome = outcome])
          /\ accepted' = IF outcome = "success" THEN accepted \cup {local[w].of} ELSE accepted
    /\ UNCHANGED <<endpoint, delivery, emit, job, exhausted, stranded, retries, faults>>

\* The URL guard refuses (permanent), or the receiver answers: a 2xx; a 408, 429,
\* 5xx, timeout or network error (retryable, the receiver may have accepted it
\* none the less); any other 4xx (permanent).
Post(w) ==
    /\ pc[w] = "post"
    /\ \E outcome \in {"success", "retryable", "permanent"} :
          /\ Goto(w, IF outcome = "success" THEN "succeed" ELSE "fail",
                  [local[w] EXCEPT !.outcome = outcome])
          /\ accepted' = IF outcome = "success" THEN accepted \cup {local[w].of} ELSE accepted
    /\ UNCHANGED <<endpoint, delivery, emit, job, exhausted, stranded, retries, faults>>

\* finalizeSuccess: one transaction over both rows.
FinalizeSuccess(w) ==
    /\ pc[w] = "succeed"
    /\ delivery' = [delivery EXCEPT ![local[w].of] =
          [status |-> "DELIVERED", attempts |-> @.attempts + 1, refused |-> FALSE]]
    /\ endpoint' = [endpoint EXCEPT ![local[w].at].failures = 0]
    /\ Goto(w, "complete", local[w])
    /\ UNCHANGED <<emit, job, accepted, exhausted, stranded, retries, faults>>

\* Mutant: one retry too many is waited for.
IsTerminalLate(w) ==
    local[w].outcome # "retryable" \/ job[local[w].job].made >= job[local[w].job].max

\* No retry is allowed, or none is left.
IsTerminal(w) ==
    \/ local[w].outcome # "retryable"
    \/ job[local[w].job].made + 1 >= job[local[w].job].max

\* Mutant: every failed attempt counts against the endpoint.
FinalizeEveryFailure(w) ==
    /\ pc[w] = "fail"
    /\ delivery' = [delivery EXCEPT ![local[w].of] =
          [status |-> IF IsTerminal(w) THEN "EXHAUSTED" ELSE "FAILED",
           attempts |-> @.attempts + 1, refused |-> FALSE]]
    /\ exhausted' = [exhausted EXCEPT ![local[w].at] = @ + IF IsTerminal(w) THEN 1 ELSE 0]
    /\ Goto(w, "count", local[w])
    /\ UNCHANGED <<endpoint, emit, job, accepted, stranded, retries, faults>>

\* finalizeFailure: the row first...
FinalizeFailure(w) ==
    /\ pc[w] = "fail"
    /\ delivery' = [delivery EXCEPT ![local[w].of] =
          [status |-> IF IsTerminal(w) THEN "EXHAUSTED" ELSE "FAILED",
           attempts |-> @.attempts + 1, refused |-> FALSE]]
    /\ exhausted' = [exhausted EXCEPT ![local[w].at] = @ + IF IsTerminal(w) THEN 1 ELSE 0]
    /\ Goto(w, IF IsTerminal(w) THEN "count" ELSE "complete", local[w])
    /\ UNCHANGED <<endpoint, emit, job, accepted, stranded, retries, faults>>

\* Mutant: off by one.
CountFailureStrictly(w) ==
    LET e == local[w].at IN
    /\ pc[w] = "count"
    /\ endpoint' = [endpoint EXCEPT ![e].failures = @ + 1]
    /\ Goto(w, IF endpoint'[e].failures > Threshold /\ endpoint[e].status = "ACTIVE"
               THEN "disable" ELSE "complete", local[w])
    /\ UNCHANGED <<delivery, emit, job, accepted, exhausted, stranded, retries, faults>>

\* ...then the endpoint's counter, which the update returns with its status...
CountFailure(w) ==
    LET e == local[w].at IN
    /\ pc[w] = "count"
    /\ endpoint' = [endpoint EXCEPT ![e].failures = @ + 1]
    /\ Goto(w, IF endpoint'[e].failures >= Threshold /\ endpoint[e].status = "ACTIVE"
               THEN "disable" ELSE "complete", local[w])
    /\ UNCHANGED <<delivery, emit, job, accepted, exhausted, stranded, retries, faults>>

\* ...and the endpoint is disabled, by id and whatever it is by now.
Disable(w) ==
    /\ pc[w] = "disable"
    /\ endpoint' = [endpoint EXCEPT ![local[w].at].status = "DISABLED"]
    /\ Goto(w, "complete", local[w])
    /\ UNCHANGED <<delivery, emit, job, accepted, exhausted, stranded, retries, faults>>

\* The attempt ends: a retryable failure with attempts left is rethrown and backs
\* off, anything else completes the job.
Complete(w) ==
    LET j == local[w].job IN
    /\ pc[w] = "complete"
    /\ job' = [job EXCEPT ![j] =
          IF local[w].outcome = "retryable" /\ ~IsTerminal(w) THEN Failed(j) ELSE FreeJob]
    /\ Return(w)
    /\ UNCHANGED <<endpoint, delivery, emit, accepted, exhausted, stranded, retries, faults>>

-----------------------------------------------------------------------------
(* WebhooksService: each operation checks a row it read and writes it later *)

Found(q, e, label, d) ==
    /\ q \in Requests /\ pc[q] = "idle"
    /\ ~endpoint[e].deleted
    /\ Goto(q, label, [NoLocal EXCEPT !.at = e, !.of = d])
    /\ UNCHANGED <<rows, faults>>

AskPause(q, e) == endpoint[e].status # "PAUSED" /\ Found(q, e, "pause", Nobody)
AskActivate(q, e) == endpoint[e].status # "ACTIVE" /\ Found(q, e, "activate", Nobody)
AskDelete(q, e) == Found(q, e, "delete", Nobody)
AskRetry(q, d) ==
    /\ retries < MaxRetries
    /\ endpoint[d[1]].status = "ACTIVE"
    /\ Found(q, d[1], "check", d)

SetEndpoint(q, row) ==
    /\ endpoint' = [endpoint EXCEPT ![local[q].at] = row]
    /\ Return(q)
    /\ UNCHANGED <<delivery, emit, job, accepted, exhausted, stranded, retries, faults>>

Pause(q) ==
    pc[q] = "pause" /\ SetEndpoint(q, [endpoint[local[q].at] EXCEPT !.status = "PAUSED"])

Activate(q) ==
    /\ pc[q] = "activate"
    /\ SetEndpoint(q, [endpoint[local[q].at] EXCEPT !.status = "ACTIVE", !.failures = 0])

SoftDelete(q) ==
    pc[q] = "delete" /\ SetEndpoint(q, [endpoint[local[q].at] EXCEPT !.deleted = TRUE])

\* retryDelivery: only a FAILED or EXHAUSTED row...
CheckRetryable(q) ==
    /\ pc[q] = "check"
    /\ IF delivery[local[q].of].status \in {"FAILED", "EXHAUSTED"}
       THEN Goto(q, "reset", local[q]) ELSE Return(q)
    /\ UNCHANGED <<rows, faults>>

\* ...is made PENDING again...
ResetDelivery(q) ==
    /\ pc[q] = "reset"
    /\ delivery' = [delivery EXCEPT ![local[q].of].status = "PENDING"]
    /\ Goto(q, "enqueue", local[q])
    /\ UNCHANGED <<endpoint, emit, job, accepted, exhausted, stranded, retries, faults>>

\* Mutant: a manual retry starts a full cascade of attempts.
EnqueueCascade(q) ==
    /\ pc[q] = "enqueue"
    /\ Add(local[q].of, MaxAttempts) \/ AddFails(local[q].of)
    /\ retries' = retries + 1
    /\ Return(q)
    /\ UNCHANGED <<endpoint, delivery, emit, accepted, exhausted>>

\* ...and gets a job of one attempt.
EnqueueRetry(q) ==
    /\ pc[q] = "enqueue"
    /\ Add(local[q].of, 1) \/ AddFails(local[q].of)
    /\ retries' = retries + 1
    /\ Return(q)
    /\ UNCHANGED <<endpoint, delivery, emit, accepted, exhausted>>

-----------------------------------------------------------------------------
(* What can go wrong *)

\* An awaited database call throws: the job backs off if it has attempts left,
\* else BullMQ gives it up.
Throw(w) ==
    LET j == local[w].job IN
    /\ w \in Workers /\ pc[w] \notin {"idle", "complete"}
    /\ faults < MaxFaults
    /\ faults' = faults + 1
    /\ job' = [job EXCEPT ![j] = Failed(j)]
    /\ stranded' = IF Failed(j) = FreeJob THEN stranded \cup {local[w].of} ELSE stranded
    /\ Return(w)
    /\ UNCHANGED <<endpoint, delivery, emit, accepted, exhausted, retries>>

\* External: the worker dies.  BullMQ gives its job to another once, and gives
\* it up if that one dies too.
Crash(w) ==
    LET j == local[w].job IN
    /\ w \in Workers /\ pc[w] # "idle" /\ faults < MaxFaults
    /\ faults' = faults + 1
    /\ IF job[j].stalled
       THEN job' = [job EXCEPT ![j] = FreeJob] /\ stranded' = stranded \cup {local[w].of}
       ELSE job' = [job EXCEPT ![j].state = "waiting", ![j].stalled = TRUE]
            /\ UNCHANGED stranded
    /\ Return(w)
    /\ UNCHANGED <<endpoint, delivery, emit, accepted, exhausted, retries>>

-----------------------------------------------------------------------------
Continue(h) ==
    \/ Load(h) \/ Refuse(h) \/ MarkProcessing(h) \/ Post(h)
    \/ FinalizeSuccess(h) \/ FinalizeFailure(h) \/ CountFailure(h) \/ Disable(h)
    \/ Complete(h)
    \/ Pause(h) \/ Activate(h) \/ SoftDelete(h)
    \/ CheckRetryable(h) \/ ResetDelivery(h) \/ EnqueueRetry(h)

Next ==
    \/ \E h \in Handlers : Continue(h) \/ Throw(h) \/ Crash(h)
    \/ \E v \in Events : FindEndpoints(v) \/ EmitThrows(v)
    \/ \E v \in Events, e \in Endpoints : SendTestEvent(v, e) \/ FanOut(v, e)
    \/ \E h \in Handlers, j \in Jobs : Take(h, j)
    \/ \E j \in Jobs : BackoffEnds(j)
    \/ \E h \in Handlers, e \in Endpoints :
          AskPause(h, e) \/ AskActivate(h, e) \/ AskDelete(h, e)
    \/ \E h \in Handlers, d \in Deliveries : AskRetry(h, d)

Spec == Init /\ [][Next]_vars

\* Awaited calls return (the request to a receiver has a timeout), a backoff
\* ends, and BullMQ hands every waiting job to some worker.  Nobody owes a request.
Fairness ==
    /\ \A h \in Handlers : WF_vars(Continue(h))
    /\ \A v \in Events, e \in Endpoints : WF_vars(FanOut(v, e))
    /\ \A j \in Jobs : WF_vars(BackoffEnds(j)) /\ SF_vars(\E w \in Workers : Take(w, j))

FairSpec == Spec /\ Fairness

-----------------------------------------------------------------------------
Statuses == {"NONE", "PENDING", "PROCESSING", "DELIVERED", "FAILED", "EXHAUSTED"}

TypeOK ==
    /\ endpoint \in [Endpoints -> [status: {"ACTIVE", "PAUSED", "DISABLED"},
                                   deleted: BOOLEAN, failures: Nat]]
    /\ delivery \in [Deliveries -> [status: Statuses, attempts: Nat, refused: BOOLEAN]]
    /\ emit \in [Events -> [state: {"new", "fanout"}, to: SUBSET Endpoints]]
    /\ job \in [Jobs -> [state: {"free", "waiting", "active", "delayed"},
                         of: Deliveries \cup {Nobody}, made: Nat, max: Nat, stalled: BOOLEAN]]
    /\ pc \in [Handlers -> {"idle", "load", "refuse", "mark", "post", "succeed", "fail",
                            "count", "disable", "complete", "pause", "activate", "delete",
                            "check", "reset", "enqueue"}]
    /\ local \in [Handlers -> [job: Jobs \cup {NoJob}, at: Endpoints \cup {Nobody}, of: Deliveries \cup {Nobody},
                               outcome: {"none", "success", "retryable", "permanent"}]]
    /\ accepted \in SUBSET Deliveries /\ stranded \in SUBSET Deliveries
    /\ exhausted \in [Endpoints -> Nat]
    /\ retries \in Nat /\ faults \in 0..MaxFaults

\* Whatever retries, crashes and manual retries overlap on a delivery, its row only
\* says DELIVERED if a receiver answered one of its requests with a 2xx.
DeliveredWasAccepted ==
    \A d \in Deliveries : delivery[d].status = "DELIVERED" => d \in accepted

\* A row is never left PENDING, PROCESSING or FAILED with nobody working on it: once
\* no job and no manual retry is under way, the delivery is DELIVERED or EXHAUSTED,
\* or was refused by an inactive endpoint, unless a fault took its job away.
SettledWhenIdle ==
    \A d \in Deliveries :
        /\ delivery[d].status # "NONE" /\ d \notin stranded
        /\ JobsOf(d) = {}
        /\ \A q \in Requests : pc[q] = "enqueue" => local[q].of # d
        => \/ delivery[d].status \in {"DELIVERED", "EXHAUSTED"}
           \/ delivery[d].status = "FAILED" /\ delivery[d].refused

\* Automatic attempts, manual retries of one attempt each and what crashes repeat
\* are all the requests a receiver ever gets for a delivery.
AttemptsBounded ==
    \A d \in Deliveries : delivery[d].attempts <= MaxAttempts + retries + faults

\* The counter counts terminal failures, not attempts: an endpoint is never disabled
\* before Threshold of its deliveries ended so.
DisabledOnlyAfterFailures ==
    \A e \in Endpoints :
        /\ endpoint[e].failures <= exhausted[e]
        /\ endpoint[e].status = "DISABLED" => exhausted[e] >= Threshold

\* Nor does an endpoint slip past the threshold, however failures, pauses and
\* reactivations interleave: one that is ACTIVE at or above it is about to be disabled.
AutoDisableNotMissed ==
    \A e \in Endpoints :
        endpoint[e].status = "ACTIVE" /\ endpoint[e].failures >= Threshold =>
            faults > 0 \/ \E w \in Workers : pc[w] = "disable" /\ local[w].at = e

\* Every job comes to an end, also when endpoints are paused or workers die.
QueueDrains == \A d \in Deliveries : JobsOf(d) # {} ~> JobsOf(d) = {}
=============================================================================
