------------------------------- MODULE Lifecycle -------------------------------
(***************************************************************************)
(* The life of a subscription after checkout, over a clock: trials,        *)
(* cancellation and its reversal, failed renewals and their grace period   *)
(* (SubscriptionsService, getEffectiveStatus), the Paystack events about   *)
(* recurring charges (PaystackWebhookProcessor), and the platform role of  *)
(* the one user who owns the workspaces (RoleResolutionService).  How an   *)
(* invoice is paid is in Checkout; here a verified payment is an event.    *)
(* A renewal that succeeds has no action: its charge.success carries no    *)
(* metadata of ours, so that it is recorded and changes nothing else, not  *)
(* even PAST_DUE (handleChargeSuccess, "cannot correlate, skipping").      *)
(*                                                                         *)
(* A gateway is configured.  Times are ticks, 0 is null; one currency, and *)
(* a plan's price does not change, so amount is the price of plan.  Every  *)
(* plan has its platform role, named as the plan.  One customer code, that *)
(* of the owner, is on every subscription that has one.                    *)
(***************************************************************************)
EXTENDS Integers, FiniteSets

CONSTANTS
    Workspaces, Handlers,
    Plans, Free,           \* Plan rows and the one of tier FREE
    Recurs,                \* the plans that were once sold as recurring subscriptions
    Granted,               \* the roles an administrator assigns by hand
    Tier, Price, TrialDays,
    Period, Grace,         \* the billing interval and PAYSTACK_PAST_DUE_GRACE_DAYS
    None,
    MaxInputs              \* a bound on requests, charges, ticks and failures together

ASSUME LifecycleConstants ==
    /\ IsFiniteSet(Plans) /\ Free \in Plans
    /\ Recurs \subseteq Plans \ {Free} /\ Granted \subseteq Plans
    /\ None \notin Workspaces /\ None \notin Plans
    /\ Tier \in [Plans -> Nat] /\ Price \in [Plans -> Nat] /\ TrialDays \in [Plans -> Nat]
    /\ \A p \in Plans : (Price[p] = 0 <=> p = Free) /\ (Tier[p] = 0 <=> p = Free)
    /\ Period \in Nat \ {0} /\ Grace \in Nat
    /\ MaxInputs \in Nat

VARIABLES
    now,
    sub,       \* Subscription rows by workspace
    user,      \* the owner's platformRoleId and roleAssignmentSource
    remote,    \* recurring subscriptions that charge at Paystack, by the workspace they are for
    events,    \* stored Paystack events whose job has not ended
    handler,   \* requests and jobs: the next await and the values held across it
    past,      \* history, see Past
    inputs     \* requests, charges, ticks and failures so far

vars == <<now, sub, user, remote, events, handler, past, inputs>>

Status == {"TRIALING", "ACTIVE", "PAST_DUE", "CANCELED", "EXPIRED"}

Subscription == [plan : Plans, status : Status, trialEnd : Nat, trialUsed : BOOLEAN,
                 cancelAt : Nat, end : Nat, since : Nat,
                 code : Workspaces \cup {None}, customer : BOOLEAN]
Role == [id : Plans, source : {"ADMIN_ASSIGNED", "SUBSCRIPTION", "SYSTEM_DEFAULT"}]

\* spell: when a workspace was last found in arrears, trials: how many it has been given,
\* paid: the most it has paid, raced: its row was written by somebody who had not seen its
\* latest state, carried: a plan change ended a spell without clearing pastDueSince,
\* asOf: the time of the last derivation of the role that stands, drift: it does not stand.
Past == [spell : [Workspaces -> Nat], trials : [Workspaces -> Nat], paid : [Workspaces -> Nat],
         raced : SUBSET Workspaces, carried : SUBSET Workspaces, asOf : Nat, drift : BOOLEAN]

Idle == [pc |-> "idle", op |-> None, event |-> None, w |-> None, patch |-> None, code |-> None,
         user |-> None, at |-> 0, stale |-> FALSE]

-----------------------------------------------------------------------------
(***************************************************************************)
(* Status, plan and role as they are derived when read.                    *)
(***************************************************************************)
\* getEffectiveStatus
EffectiveStatus(s, t) ==
    IF s.status = "TRIALING" /\ s.trialEnd # 0 /\ s.trialEnd < t THEN "EXPIRED"
    ELSE IF s.cancelAt # 0 /\ s.cancelAt <= t THEN "CANCELED"
    ELSE IF s.status = "PAST_DUE" /\ s.since # 0 /\ t - s.since > Grace THEN "EXPIRED"
    ELSE s.status

OnPlan(s, t) == EffectiveStatus(s, t) \in {"ACTIVE", "TRIALING", "PAST_DUE"}

Held(t) == {sub[w].plan : w \in {v \in Workspaces : OnPlan(sub[v], t)}}

\* resolveFromSubscriptions
Resolved(t) ==
    IF Held(t) = {} THEN [id |-> Free, source |-> "SYSTEM_DEFAULT"]
    ELSE [id |-> CHOOSE p \in Held(t) : \A q \in Held(t) : Tier[p] >= Tier[q],
          source |-> "SUBSCRIPTION"]

IsUpgrade(s, p) == Price[p] > Price[s.plan]
\* Mutant: a trial that was used does not count.
TrialEligibleAgain(s, p) == IsUpgrade(s, p) /\ TrialDays[p] > 0

TrialEligible(s, p) == IsUpgrade(s, p) /\ TrialDays[p] > 0 /\ ~s.trialUsed

-----------------------------------------------------------------------------
(***************************************************************************)
(* A workspace has a recurring subscription from an earlier version, whose *)
(* first event is still to be handled or which is in arrears; the others   *)
(* are on the plan they were created with.                                 *)
(***************************************************************************)
FreeRow == [plan |-> Free, status |-> "ACTIVE", trialEnd |-> 0, trialUsed |-> FALSE,
            cancelAt |-> 0, end |-> 0, since |-> 0, code |-> None, customer |-> FALSE]
Recurring(w, p, kind) ==
    [FreeRow EXCEPT !.plan = p, !.end = Period, !.customer = TRUE,
                    !.code = IF kind = "new" THEN None ELSE w,
                    !.status = IF kind = "arrears" THEN "PAST_DUE" ELSE "ACTIVE",
                    !.since = IF kind = "arrears" THEN 1 ELSE 0]
Event(type, w, p, n) == [type |-> type, w |-> w, plan |-> p, n |-> n]

Init ==
    /\ now = 1
    /\ \E w \in Workspaces, p \in Recurs, kind \in {"new", "arrears"} :
         /\ sub = [v \in Workspaces |-> IF v = w THEN Recurring(w, p, kind) ELSE FreeRow]
         /\ remote = {w}
         /\ events = IF kind = "new" THEN {Event("subscription.create", w, None, 0)} ELSE {}
         /\ user = [id |-> p, source |-> "SUBSCRIPTION"]
         /\ past = [spell |-> [v \in Workspaces |-> sub[v].since], trials |-> [v \in Workspaces |-> 0],
                    paid |-> [v \in Workspaces |-> IF v = w THEN Price[p] ELSE 0],
                    raced |-> {}, carried |-> {}, asOf |-> 1, drift |-> FALSE]
    /\ handler = [h \in Handlers |-> Idle]
    /\ inputs = Cardinality(events)      \* the sale whose event is to be handled was one

\* One more event is stored; n tells those apart that are otherwise equal.
Stored(type, w, p) ==
    LET n == CHOOSE k \in 0..MaxInputs + 1 :
                 /\ Event(type, w, p, k) \notin events
                 /\ \A j \in 0..k - 1 : Event(type, w, p, j) \in events
    IN  events \cup {Event(type, w, p, n)}

Tick ==
    /\ inputs < MaxInputs
    /\ inputs' = inputs + 1
    /\ now' = now + 1
    /\ UNCHANGED <<sub, user, remote, events, handler, past>>

\* A request reads the workspace's row; the provider is told to stop the recurring charge
\* called code, if any, and then the row is written.
Begin(h, op, w, patch, code) ==
    /\ handler[h].pc = "idle"
    /\ inputs < MaxInputs
    /\ handler' = [handler EXCEPT ![h] = [Idle EXCEPT !.pc = IF code = None THEN "write" ELSE "cancelRemote",
                                            !.op = op, !.w = w, !.patch = patch, !.code = code]]
    /\ inputs' = inputs + 1
    /\ UNCHANGED <<now, sub, user, remote, events, past>>

Patched(s, patch) == [f \in DOMAIN s |-> IF f \in DOMAIN patch THEN patch[f] ELSE s[f]]
Merge(a, b) == [f \in DOMAIN a \cup DOMAIN b |-> IF f \in DOMAIN b THEN b[f] ELSE a[f]]

-----------------------------------------------------------------------------
(***************************************************************************)
(* Requests of the workspace's admins and of the platform's.               *)
(***************************************************************************)
\* subscribe and changePlan without payment: a first trial, a move to the same price, or a
\* downgrade, which drops the recurring subscription.  Only subscribe starts a period.
MovePatch(s, p, starts) ==
    LET trial == TrialEligible(s, p)
        moved == [plan |-> p, status |-> IF trial THEN "TRIALING" ELSE "ACTIVE",
                  trialEnd |-> IF trial THEN now + TrialDays[p] ELSE 0,
                  trialUsed |-> s.trialUsed \/ trial, cancelAt |-> 0]
        period == IF starts THEN [end |-> now + Period] ELSE <<>>
        code == IF s.code # None /\ Price[p] < Price[s.plan] THEN [code |-> None] ELSE <<>> IN
    Merge(Merge(moved, period), code)

Move(h, w, p, starts) ==
    /\ IsUpgrade(sub[w], p) => TrialEligible(sub[w], p)
    /\ Begin(h, "move", w, MovePatch(sub[w], p, starts),
             IF Price[p] < Price[sub[w].plan] THEN sub[w].code ELSE None)

\* With payment: confirmAndActivate, when the invoice of such a move has been paid (its
\* write is that of the event, below).
PaidMove(w, p) ==
    /\ inputs < MaxInputs
    /\ IsUpgrade(sub[w], p) /\ ~TrialEligible(sub[w], p)
    /\ events' = Stored("invoice paid", w, p)
    /\ inputs' = inputs + 1
    /\ UNCHANGED <<now, sub, user, remote, handler, past>>

Cancel(h, w) ==
    /\ EffectiveStatus(sub[w], now) # "CANCELED"
    /\ Begin(h, "cancel", w, [cancelAt |-> IF sub[w].end # 0 THEN sub[w].end ELSE now],
             sub[w].code)

Reactivate(h, w) ==
    /\ sub[w].cancelAt > now /\ sub[w].code = None
    /\ Begin(h, "reactivate", w, [cancelAt |-> 0], None)

\* What Paystack has stopped needs a new checkout, without an invoice.
ReactivateByCheckout(w) ==
    /\ inputs < MaxInputs
    /\ sub[w].cancelAt > now /\ sub[w].code # None
    /\ events' = Stored("charge.success", w, sub[w].plan)
    /\ inputs' = inputs + 1
    /\ UNCHANGED <<now, sub, user, remote, handler, past>>

ExtendTrial(h, w, t) ==
    /\ sub[w].status = "TRIALING"
    /\ Begin(h, "extendTrial", w, [trialEnd |-> t], None)

\* The handlers, of whom those that took the user's role for u hold what is no longer so.
Outdated(u) ==
    [g \in Handlers |-> [handler[g] EXCEPT
        !.stale = @ \/ (u # user /\ handler[g].pc \in {"derive", "store"})]]

\* What is read before the write is not used in it.
AssignManualRole(p) ==
    /\ inputs < MaxInputs
    /\ user' = [id |-> p, source |-> "ADMIN_ASSIGNED"]
    /\ handler' = Outdated(user')
    /\ inputs' = inputs + 1
    /\ UNCHANGED <<now, sub, remote, events, past>>

ClearManualRole(h) ==
    /\ handler[h].pc = "idle" /\ inputs < MaxInputs
    /\ handler' = [handler EXCEPT ![h] = [Idle EXCEPT !.pc = "derive", !.op = "clear"]]
    /\ inputs' = inputs + 1
    /\ UNCHANGED <<now, sub, user, remote, events, past>>

-----------------------------------------------------------------------------
(***************************************************************************)
(* Paystack, and the jobs of its events.                                   *)
(***************************************************************************)
ChargeFails(w) ==
    /\ inputs < MaxInputs /\ w \in remote
    /\ inputs' = inputs + 1
    /\ events' = Stored("invoice.payment_failed", w, None)
    /\ UNCHANGED <<now, sub, user, remote, handler, past>>

ProviderDisables(w) ==
    /\ inputs < MaxInputs /\ w \in remote
    /\ inputs' = inputs + 1
    /\ remote' = remote \ {w}
    /\ events' = Stored("subscription.disable", w, None)
    /\ UNCHANGED <<now, sub, user, handler, past>>

\* findFirst by customer code, on no stated order.
OfCustomer == {v \in Workspaces : sub[v].customer}

\* The rows an event may be correlated with.
Correlated(e) ==
    CASE e.type = "subscription.create" -> {e.w} \cup OfCustomer
      [] e.type = "subscription.disable" ->
           {v \in Workspaces : sub[v].code = e.w /\ sub[v].cancelAt = 0}
      [] e.type = "invoice.payment_failed" -> OfCustomer
      [] OTHER -> {e.w}

\* Mutant: each failure restarts the grace period.
EventPatchRestart(e, s) ==
    CASE e.type = "invoice.payment_failed" -> [status |-> "PAST_DUE", since |-> now]
      [] OTHER -> [status |-> s.status]

EventPatch(e, s) ==
    CASE e.type = "invoice paid" ->
           [plan |-> e.plan, status |-> "ACTIVE", customer |-> TRUE, end |-> now + Period,
            since |-> 0, cancelAt |-> 0, trialEnd |-> 0, trialUsed |-> s.trialUsed]
      [] e.type = "charge.success" ->
           [plan |-> e.plan, status |-> "ACTIVE", customer |-> TRUE,
            since |-> 0, cancelAt |-> 0, trialEnd |-> 0]
      [] e.type = "subscription.create" -> [code |-> e.w, end |-> now + Period]
      [] e.type = "subscription.disable" -> [cancelAt |-> now]
      [] OTHER -> [status |-> "PAST_DUE", since |-> IF s.since # 0 THEN s.since ELSE now]

Take(h, e, v) ==
    /\ handler[h].pc = "idle" /\ \A g \in Handlers : handler[g].event # e
    /\ v \in Correlated(e)
    /\ handler' = [handler EXCEPT ![h] = [Idle EXCEPT !.pc = "write", !.op = e.type, !.event = e,
                                            !.w = v, !.patch = EventPatch(e, sub[v]), !.at = now]]
    /\ UNCHANGED <<now, sub, user, remote, events, past, inputs>>

\* Nothing to correlate it with: a warning, or nothing to do.
Ignore(e) ==
    /\ Correlated(e) = {} /\ \A g \in Handlers : handler[g].event # e
    /\ events' = events \ {e}
    /\ UNCHANGED <<now, sub, user, remote, handler, past, inputs>>

-----------------------------------------------------------------------------
(***************************************************************************)
(* The rest of a handler: provider, row, then the owner's role.            *)
(***************************************************************************)
End(h) ==
    /\ handler' = [handler EXCEPT ![h] = Idle]
    /\ events' = events \ {handler[h].event}

\* Paystack confirms with an event of its own.
CancelRemote(h) ==
    LET code == handler[h].code IN
    /\ handler[h].pc = "cancelRemote"
    /\ remote' = remote \ {code}
    /\ events' = Stored("subscription.disable", code, None)
    /\ handler' = [handler EXCEPT ![h].pc = "write", ![h].code = None]
    /\ UNCHANGED <<now, sub, user, past, inputs>>

\* What becomes of history when h turns the row s of w into n.
Written(h, w, s, n) ==
    [past EXCEPT
        !.spell[w] = IF n.status # "PAST_DUE" THEN 0 ELSE IF s.status # "PAST_DUE" THEN h.at ELSE @,
        !.trials[w] = IF h.op = "move" /\ n.status = "TRIALING" THEN @ + 1 ELSE @,
        !.paid[w] = IF h.op \in {"invoice paid", "charge.success"} /\ Price[n.plan] > @
                    THEN Price[n.plan] ELSE @,
        !.raced = IF h.stale THEN @ \cup {w} ELSE @,
        !.carried = IF h.op = "move" /\ s.since # 0 THEN @ \cup {w} ELSE @,
        !.drift = @ \/ h.op = "extendTrial"]

\* Mutant: a subscription that Paystack disables keeps its owner's role.
SyncsUnlessDisabled(op) == op \notin {"extendTrial", "subscription.disable"}

Syncs(op) == op # "extendTrial"

\* The others, of whom some now hold what was read before h turned s into n.
Overtaken(h, w, s, n) ==
    [g \in Handlers |->
        IF g # h /\ s # n /\ (handler[g].pc = "store" \/ handler[g].w = w)
        THEN [handler[g] EXCEPT !.stale = TRUE]
        ELSE handler[g]]

Write(h) ==
    LET r == handler[h]
        n == Patched(sub[r.w], r.patch) IN
    /\ r.pc = "write"
    /\ sub' = [sub EXCEPT ![r.w] = n]
    /\ past' = Written(r, r.w, sub[r.w], n)
    /\ handler' = [Overtaken(h, r.w, sub[r.w], n) EXCEPT
                     ![h] = IF Syncs(r.op)
                            THEN [Idle EXCEPT !.pc = "current", !.event = r.event]
                            ELSE Idle]
    /\ UNCHANGED <<now, user, remote, events, inputs>>

\* syncStoredRole: the role stored now, then the one it should be.
Current(h) ==
    /\ handler[h].pc = "current"
    /\ handler' = [handler EXCEPT ![h].pc = "resolve", ![h].user = user]
    /\ UNCHANGED <<now, sub, user, remote, events, past, inputs>>

\* Mutant: the override is not looked at.
ResolveOverride(h) ==
    /\ handler[h].pc = "resolve"
    /\ handler' = [handler EXCEPT ![h].pc = "derive"]
    /\ UNCHANGED <<now, sub, user, remote, events, past, inputs>>

\* resolveEffectiveRole: an administrator's assignment stands.
Resolve(h) ==
    LET assigned == user.source = "ADMIN_ASSIGNED" IN
    /\ handler[h].pc = "resolve"
    /\ IF assigned /\ handler[h].user = user
       THEN End(h)
       ELSE /\ handler' = IF assigned
                          THEN [handler EXCEPT ![h].pc = "store", ![h].user = None, ![h].patch = user]
                          ELSE [handler EXCEPT ![h].pc = "derive"]
            /\ UNCHANGED events
    /\ UNCHANGED <<now, sub, user, remote, past, inputs>>

\* A derivation of time t has ended; it stands if nothing it read has changed.
Derived(t, stands) ==
    past' = IF stands THEN [past EXCEPT !.asOf = t, !.drift = FALSE]
                      ELSE [past EXCEPT !.drift = TRUE]

Derive(h) ==
    LET role == Resolved(now) IN
    /\ handler[h].pc = "derive"
    /\ IF handler[h].op # "clear" /\ role = handler[h].user
       THEN End(h) /\ Derived(now, user = role)
       ELSE /\ handler' = [handler EXCEPT ![h].pc = "store", ![h].user = None,
                                          ![h].patch = role, ![h].at = now]
            /\ UNCHANGED <<events, past>>
    /\ UNCHANGED <<now, sub, user, remote, inputs>>

Store(h) ==
    LET r == handler[h] IN
    /\ r.pc = "store"
    /\ user' = r.patch
    /\ IF r.patch.source = "ADMIN_ASSIGNED" THEN UNCHANGED past ELSE Derived(r.at, ~r.stale)
    /\ handler' = [Outdated(r.patch) EXCEPT ![h] = Idle]
    /\ events' = events \ {r.event}
    /\ UNCHANGED <<now, sub, remote, inputs>>

\* The process dies or an await throws; a job is run again or its event is FAILED for good.
Fail(h, again) ==
    LET r == handler[h] IN
    /\ r.pc # "idle" /\ inputs < MaxInputs
    /\ inputs' = inputs + 1
    /\ handler' = [handler EXCEPT ![h] = Idle]
    /\ events' = IF again THEN events ELSE events \ {r.event}
    /\ past' = [past EXCEPT !.drift = @ \/ r.pc \in {"current", "resolve", "derive", "store"}]
    /\ UNCHANGED <<now, sub, user, remote>>

-----------------------------------------------------------------------------
Request(h) ==
    \/ \E w \in Workspaces, p \in Plans, starts \in BOOLEAN : Move(h, w, p, starts)
    \/ \E w \in Workspaces :
         \/ Cancel(h, w)
         \/ Reactivate(h, w)
    \/ \E w \in Workspaces, t \in {now, now + 1} : ExtendTrial(h, w, t)
    \/ ClearManualRole(h)

Environment ==
    \/ Tick
    \/ \E w \in Workspaces, p \in Plans : PaidMove(w, p)
    \/ \E w \in Workspaces :
         \/ ReactivateByCheckout(w)
         \/ ChargeFails(w)
         \/ ProviderDisables(w)
    \/ \E p \in Granted : AssignManualRole(p)
    \/ \E e \in events : Ignore(e)

Job(h) == \E e \in events, v \in Workspaces : Take(h, e, v)

Step(h) ==
    \/ CancelRemote(h)
    \/ Write(h)
    \/ Current(h)
    \/ Resolve(h)
    \/ Derive(h)
    \/ Store(h)
    \/ \E again \in BOOLEAN : Fail(h, again)

Next == Environment \/ \E h \in Handlers : Request(h) \/ Job(h) \/ Step(h)

Spec == Init /\ [][Next]_vars

-----------------------------------------------------------------------------
(***************************************************************************)
(* Properties.                                                             *)
(***************************************************************************)

\* pastDueSince, effective-status.ts:7 and paystack-webhook.processor.ts:455: the grace
\* period counts from the failure that began this spell of arrears, unless a plan change
\* ended an earlier spell and kept its pastDueSince, or two writes of the row overlapped;
\* and only the owner's own customer code brings a workspace into arrears.
GraceFromFirstFailure ==
    \A w \in Workspaces :
        sub[w].status = "PAST_DUE" =>
            /\ sub[w].customer
            /\ w \notin past.raced \cup past.carried => sub[w].since = past.spell[w]

\* trialUsed, schema.prisma:1024 ("never reset once true"): a workspace is given one trial,
\* and the flag remembers it, unless two writes of its row overlapped.
OneTrial ==
    \A w \in Workspaces \ past.raced :
        past.trials[w] <= 1 /\ (past.trials[w] = 1 <=> sub[w].trialUsed)

\* roles-and-permissions.md:157: no subscription event overwrites a role an administrator
\* assigned, unless its synchronisation had read the user before the assignment.
AssignedRoleSticks ==
    [][\A h \in Handlers :
          /\ user.source = "ADMIN_ASSIGNED" /\ user'.source # "ADMIN_ASSIGNED"
          /\ handler[h].pc = "store" /\ handler'[h].pc = "idle"
          => handler[h].op = "clear" \/ handler[h].stale]_vars

\* syncStoredRole: once no handler is at work, the owner has the role of the highest plan
\* that was in effect at the last synchronisation, unless an administrator assigned one,
\* a handler failed before its synchronisation, two of them overlapped, or a trial was
\* extended, which does not synchronise.
RoleFollowsPlans ==
    LET held == Held(past.asOf) IN
    (/\ \A h \in Handlers : handler[h].pc = "idle"
     /\ ~past.drift
     /\ user.source # "ADMIN_ASSIGNED")
    => /\ \A p \in held : Tier[user.id] >= Tier[p]
       /\ user.id \in held \cup {Free}

\* billing.md:220 and subscriptions.service.ts:220: moving up to a higher price needs a
\* payment, except for a trial: an ACTIVE subscription was paid for.
ActiveWasPaid ==
    \A w \in Workspaces : sub[w].status = "ACTIVE" => past.paid[w] >= Price[sub[w].plan]
=============================================================================
