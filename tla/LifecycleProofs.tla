---------------------------- MODULE LifecycleProofs ----------------------------
(***************************************************************************)
(* The rules of Lifecycle for any workspaces, plans, intervals and number  *)
(* of requests.  What a handler holds is only related to the rows as long  *)
(* as it is not stale, and every write of a row makes those stale that     *)
(* have read it.                                                           *)
(***************************************************************************)
EXTENDS Lifecycle, FiniteSetTheorems, TLAPS

Columns == {"plan", "status", "trialEnd", "trialUsed", "cancelAt", "end", "since", "code", "customer"}
Fields == {"pc", "op", "event", "w", "patch", "code", "user", "at", "stale"}
Labels == {"idle", "cancelRemote", "write", "current", "resolve", "derive", "store"}
EventTypes == {"invoice paid", "charge.success", "subscription.create", "subscription.disable",
               "invoice.payment_failed"}

RowType(s) ==
    DOMAIN s = Columns /\ s.plan \in Plans /\ s.trialUsed \in BOOLEAN /\ s.customer \in BOOLEAN
HandlerType(r) ==
    DOMAIN r = Fields /\ r.pc \in Labels /\ r.stale \in BOOLEAN
EventType(e) ==
    e.type \in EventTypes /\ (e.type \in {"invoice paid", "charge.success"} => e.plan \in Plans)

\* What a patch sets is there and, if it matters here, of its type.
PatchType(p) ==
    /\ "plan" \in DOMAIN p => p.plan \in Plans
    /\ "trialUsed" \in DOMAIN p => p.trialUsed \in BOOLEAN
    /\ "customer" \in DOMAIN p => p.customer = TRUE

RowsTyped ==
    /\ now \in Nat \ {0}
    /\ sub = [w \in Workspaces |-> sub[w]] /\ \A w \in Workspaces : RowType(sub[w])
    /\ \A e \in events : EventType(e)

(***************************************************************************)
(* A handler about to write row s of its workspace.                        *)
(***************************************************************************)
MoveFits(r, s) ==
    /\ {"status", "trialUsed"} \subseteq DOMAIN r.patch /\ "since" \notin DOMAIN r.patch
    /\ r.patch.status \in {"TRIALING", "ACTIVE"}
    /\ ~r.stale => /\ r.patch.trialUsed <=> (s.trialUsed \/ r.patch.status = "TRIALING")
                   /\ r.patch.status = "TRIALING" => ~s.trialUsed

PaymentFits(r, s) ==
    /\ {"status", "since"} \subseteq DOMAIN r.patch /\ r.patch.status = "ACTIVE" /\ r.patch.since = 0
    /\ "trialUsed" \in DOMAIN r.patch /\ ~r.stale => r.patch.trialUsed = s.trialUsed

FailureFits(r, s) ==
    /\ DOMAIN r.patch = {"status", "since"} /\ r.patch.status = "PAST_DUE"
    /\ s.customer /\ r.at # 0
    /\ ~r.stale => r.patch.since = IF s.since # 0 THEN s.since ELSE r.at

OtherFits(r) == {"status", "since", "trialUsed"} \cap DOMAIN r.patch = {}

WriterFits(r, s) ==
    /\ r.w \in Workspaces /\ PatchType(r.patch)
    /\ \/ r.op = "move" /\ MoveFits(r, s)
       \/ r.op \in {"invoice paid", "charge.success"} /\ PaymentFits(r, s)
       \/ r.op = "invoice.payment_failed" /\ FailureFits(r, s)
       \/ r.op \in {"cancel", "reactivate", "extendTrial", "subscription.create", "subscription.disable"} /\ OtherFits(r)

(***************************************************************************)
(* A handler that derives a role, of what it read of the user and of rows. *)
(***************************************************************************)
HeldOf(rows, t) == {rows[w].plan : w \in {v \in Workspaces : OnPlan(rows[v], t)}}
RoleOf(rows, t) ==
    IF HeldOf(rows, t) = {} THEN [id |-> Free, source |-> "SYSTEM_DEFAULT"]
    ELSE [id |-> CHOOSE p \in HeldOf(rows, t) : \A q \in HeldOf(rows, t) : Tier[p] >= Tier[q],
          source |-> "SUBSCRIPTION"]

SyncFits(r, u, rows) ==
    /\ r.pc = "derive" /\ ~r.stale /\ r.op # "clear" => u.source # "ADMIN_ASSIGNED"
    /\ r.pc = "store" /\ ~r.stale /\ r.patch.source # "ADMIN_ASSIGNED" =>
         /\ r.patch = RoleOf(rows, r.at)
         /\ r.op # "clear" => u.source # "ADMIN_ASSIGNED"

Fits(r, rows, u) ==
    /\ r.pc \in {"cancelRemote", "write"} => WriterFits(r, rows[r.w])
    /\ SyncFits(r, u, rows)

HandlersSound ==
    /\ handler = [h \in Handlers |-> handler[h]]
    /\ \A h \in Handlers : HandlerType(handler[h]) /\ Fits(handler[h], sub, user)

LEMMA RoleIsOf == \A t : Resolved(t) = RoleOf(sub, t) /\ Held(t) = HeldOf(sub, t)
BY DEF Resolved, RoleOf, Held, HeldOf

LEMMA IdleIs == HandlerType(Idle) /\ Idle.pc = "idle" /\ Idle.stale = FALSE /\ Idle.op = None /\ Idle.event = None
                /\ \A rows, u : Fits(Idle, rows, u)
BY DEF Idle, HandlerType, Fields, Labels, Fits, SyncFits

\* What a patch makes of a row.
LEMMA PatchedRow ==
    ASSUME NEW s, RowType(s), NEW p, PatchType(p)
    PROVE  LET n == Patched(s, p) IN
           /\ RowType(n)
           /\ n.status = IF "status" \in DOMAIN p THEN p.status ELSE s.status
           /\ n.since = IF "since" \in DOMAIN p THEN p.since ELSE s.since
           /\ n.trialUsed = IF "trialUsed" \in DOMAIN p THEN p.trialUsed ELSE s.trialUsed
           /\ s.customer => n.customer
BY DEF Patched, RowType, PatchType, Columns

(***************************************************************************)
(* The handlers that do not move in a step.                                *)
(***************************************************************************)
Stays(r, q) ==
    /\ DOMAIN q = Fields /\ q.stale \in {r.stale, TRUE}
    /\ q.pc = r.pc /\ q.op = r.op /\ q.w = r.w /\ q.patch = r.patch /\ q.at = r.at

\* It is stale if what it read has changed.
Rests(r, q) ==
    /\ Stays(r, q)
    /\ r.pc \in {"cancelRemote", "write"} /\ sub'[r.w] # sub[r.w] => q.stale
    /\ r.pc = "store" /\ sub' # sub => q.stale
    /\ r.pc \in {"derive", "store"} /\ user' # user => q.stale

LEMMA RestsFits ==
    ASSUME NEW r, NEW q, HandlerType(r), Fits(r, sub, user), Rests(r, q),
           \A w \in Workspaces : sub[w].customer => sub'[w].customer
    PROVE  HandlerType(q) /\ Fits(q, sub', user')
<1>1. /\ HandlerType(q) /\ q.pc = r.pc /\ q.op = r.op /\ q.w = r.w /\ q.patch = r.patch /\ q.at = r.at
      /\ r.stale => q.stale
  BY DEF Rests, Stays, HandlerType, Fields
<1>2. ASSUME q.pc \in {"cancelRemote", "write"} PROVE WriterFits(q, sub'[q.w])
  <2>1. WriterFits(r, sub[r.w]) /\ r.w \in Workspaces
    BY <1>1, <1>2 DEF Fits, WriterFits
  <2>2. ~q.stale => sub'[r.w] = sub[r.w] /\ ~r.stale
    BY <1>1, <1>2 DEF Rests
  <2>3. sub[r.w].customer => sub'[r.w].customer
    BY <2>1
  <2>4. MoveFits(r, sub[r.w]) => MoveFits(q, sub'[r.w])
    BY <1>1, <2>2 DEF MoveFits
  <2>5. PaymentFits(r, sub[r.w]) => PaymentFits(q, sub'[r.w])
    BY <1>1, <2>2 DEF PaymentFits
  <2>6. FailureFits(r, sub[r.w]) => FailureFits(q, sub'[r.w])
    BY <1>1, <2>2, <2>3 DEF FailureFits
  <2>7. OtherFits(r) => OtherFits(q)
    BY <1>1 DEF OtherFits
  <2> QED
    BY <1>1, <2>1, <2>4, <2>5, <2>6, <2>7 DEF WriterFits
<1>3. SyncFits(q, user', sub')
  <2>1. SyncFits(r, user, sub)
    BY DEF Fits
  <2>2. q.pc = "derive" /\ ~q.stale => user' = user /\ ~r.stale
    BY <1>1 DEF Rests
  <2>3. q.pc = "store" /\ ~q.stale => user' = user /\ sub' = sub /\ ~r.stale
    BY <1>1 DEF Rests
  <2> QED
    BY <1>1, <2>1, <2>2, <2>3 DEF SyncFits
<1> QED
  BY <1>1, <1>2, <1>3 DEF Fits

LEMMA HandlersMove ==
    ASSUME HandlersSound, NEW h \in Handlers, NEW q, HandlerType(q), Fits(q, sub', user'),
           handler' = [g \in Handlers |-> handler'[g]], handler'[h] = q,
           \A g \in Handlers \ {h} : Rests(handler[g], handler'[g]),
           \A w \in Workspaces : sub[w].customer => sub'[w].customer
    PROVE  HandlersSound'
<1>1. ASSUME NEW g \in Handlers PROVE HandlerType(handler'[g]) /\ Fits(handler'[g], sub', user')
  <2>1. CASE g = h
    BY <2>1
  <2>2. CASE g # h
    BY <2>2, RestsFits DEF HandlersSound
  <2> QED
    BY <2>1, <2>2
<1> QED
  BY <1>1 DEF HandlersSound

\* No handler moves.
LEMMA HandlersRest ==
    ASSUME HandlersSound, handler' = [g \in Handlers |-> handler'[g]],
           \A g \in Handlers : Rests(handler[g], handler'[g]),
           \A w \in Workspaces : sub[w].customer => sub'[w].customer
    PROVE  HandlersSound'
<1>1. \A g \in Handlers : HandlerType(handler'[g]) /\ Fits(handler'[g], sub', user')
  BY RestsFits DEF HandlersSound
<1> QED
  BY <1>1 DEF HandlersSound

\* One handler moves while rows and user stay.
LEMMA HandlerMoves ==
    ASSUME HandlersSound, NEW h \in Handlers, NEW q, HandlerType(q), Fits(q, sub, user),
           handler' = [handler EXCEPT ![h] = q], sub' = sub, user' = user
    PROVE  HandlersSound'
<1>1. handler' = [g \in Handlers |-> handler'[g]] /\ handler'[h] = q /\ \A g \in Handlers \ {h} : handler'[g] = handler[g]
  BY DEF HandlersSound
<1>2. \A g \in Handlers \ {h} : Rests(handler[g], handler'[g])
  BY <1>1 DEF Rests, Stays, HandlersSound, HandlerType
<1> QED
  BY <1>1, <1>2, HandlersMove

-----------------------------------------------------------------------------
(***************************************************************************)
(* Requests and jobs begin as they should.                                 *)
(***************************************************************************)
LEMMA StoredIs ==
    ASSUME NEW type \in EventTypes, NEW w, NEW p, type \in {"invoice paid", "charge.success"} => p \in Plans,
           NEW e \in Stored(type, w, p)
    PROVE  e \in events \/ EventType(e)
<1> DEFINE n == CHOOSE k \in 0..MaxInputs + 1 :
                    /\ Event(type, w, p, k) \notin events
                    /\ \A j \in 0..k - 1 : Event(type, w, p, j) \in events
<1>1. Stored(type, w, p) = events \cup {Event(type, w, p, n)}
  BY DEF Stored
<1> HIDE DEF n
<1>2. Event(type, w, p, n).type = type /\ Event(type, w, p, n).plan = p
  BY DEF Event
<1> QED
  BY <1>1, <1>2 DEF EventType

LEMMA MovePatchIs ==
    ASSUME NEW s, RowType(s), NEW p \in Plans, NEW starts \in BOOLEAN
    PROVE  LET m == MovePatch(s, p, starts) IN
           /\ PatchType(m) /\ {"status", "trialUsed"} \subseteq DOMAIN m /\ "since" \notin DOMAIN m
           /\ m.status = IF TrialEligible(s, p) THEN "TRIALING" ELSE "ACTIVE"
           /\ m.trialUsed <=> (s.trialUsed \/ TrialEligible(s, p))
           /\ "plan" \in DOMAIN m /\ m.plan = p
<1> DEFINE trial == TrialEligible(s, p)
           moved == [plan |-> p, status |-> IF trial THEN "TRIALING" ELSE "ACTIVE",
                     trialEnd |-> IF trial THEN now + TrialDays[p] ELSE 0,
                     trialUsed |-> s.trialUsed \/ trial, cancelAt |-> 0]
           period == IF starts THEN [end |-> now + Period] ELSE <<>>
           code == IF s.code # None /\ Price[p] < Price[s.plan] THEN [code |-> None] ELSE <<>>
<1>1. MovePatch(s, p, starts) = Merge(Merge(moved, period), code)
  BY DEF MovePatch
<1>2. DOMAIN period \subseteq {"end"} /\ DOMAIN code \subseteq {"code"}
  OBVIOUS
<1>3. /\ DOMAIN moved = {"plan", "status", "trialEnd", "trialUsed", "cancelAt"}
      /\ moved.plan = p /\ moved.trialUsed = (s.trialUsed \/ trial) /\ moved.trialUsed \in BOOLEAN
      /\ moved.status = IF trial THEN "TRIALING" ELSE "ACTIVE"
  BY DEF RowType, TrialEligible, IsUpgrade
<1> HIDE DEF moved, period, code, trial
<1>4. /\ DOMAIN Merge(moved, period) = DOMAIN moved \cup DOMAIN period
      /\ \A f \in DOMAIN moved : Merge(moved, period)[f] = moved[f]
  BY <1>2, <1>3 DEF Merge
<1>5. /\ DOMAIN Merge(Merge(moved, period), code) = DOMAIN moved \cup DOMAIN period \cup DOMAIN code
      /\ \A f \in DOMAIN moved : Merge(Merge(moved, period), code)[f] = moved[f]
  BY <1>2, <1>3, <1>4 DEF Merge
<1>6. /\ MovePatch(s, p, starts).plan = p /\ MovePatch(s, p, starts).trialUsed = moved.trialUsed
      /\ MovePatch(s, p, starts).status = moved.status
  BY <1>1, <1>3, <1>5
<1>7. /\ {"plan", "status", "trialUsed"} \subseteq DOMAIN MovePatch(s, p, starts)
      /\ "since" \notin DOMAIN MovePatch(s, p, starts) /\ "customer" \notin DOMAIN MovePatch(s, p, starts)
  BY <1>1, <1>2, <1>3, <1>5
<1> QED
  BY <1>3, <1>6, <1>7 DEF PatchType, trial

\* Rows, user and types of events stay; the handlers are as they should be.
Quiet == sub' = sub /\ user' = user /\ HandlersSound' /\ RowsTyped'

LEMMA RowsTypedKept ==
    ASSUME RowsTyped, sub' = sub, now' = now, \A e \in events' : e \in events \/ EventType(e)
    PROVE  RowsTyped'
BY DEF RowsTyped

LEMMA BeginQuiet ==
    ASSUME RowsTyped, HandlersSound, NEW h \in Handlers, NEW op, NEW w \in Workspaces, NEW patch, NEW code,
           Begin(h, op, w, patch, code), PatchType(patch),
           \/ /\ op = "move" /\ {"status", "trialUsed"} \subseteq DOMAIN patch /\ "since" \notin DOMAIN patch
              /\ patch.status \in {"TRIALING", "ACTIVE"}
              /\ patch.trialUsed <=> (sub[w].trialUsed \/ patch.status = "TRIALING")
              /\ patch.status = "TRIALING" => ~sub[w].trialUsed
           \/ op \in {"cancel", "reactivate", "extendTrial"} /\ {"status", "since", "trialUsed"} \cap DOMAIN patch = {}
    PROVE  Quiet /\ past' = past
<1> DEFINE q == [Idle EXCEPT !.pc = IF code = None THEN "write" ELSE "cancelRemote",
                             !.op = op, !.w = w, !.patch = patch, !.code = code]
<1>1. /\ handler' = [handler EXCEPT ![h] = q] /\ sub' = sub /\ user' = user /\ now' = now
      /\ events' = events /\ past' = past
  BY DEF Begin
<1>2. /\ HandlerType(q) /\ q.pc \in {"cancelRemote", "write"} /\ q.op = op /\ q.w = w /\ q.patch = patch
      /\ q.stale = FALSE
  BY DEF Idle, HandlerType, Fields, Labels
<1> HIDE DEF q
<1>3. WriterFits(q, sub[w])
  BY <1>2 DEF WriterFits, MoveFits, OtherFits
<1>4. Fits(q, sub, user)
  BY <1>2, <1>3 DEF Fits, SyncFits
<1>5. HandlersSound'
  BY <1>1, <1>2, <1>4, HandlerMoves
<1>6. RowsTyped'
  BY <1>1, RowsTypedKept
<1> QED
  BY <1>1, <1>5, <1>6 DEF Quiet

LEMMA RequestQuiet ==
    ASSUME RowsTyped, HandlersSound, NEW h \in Handlers, Request(h)
    PROVE  Quiet /\ past' = past
<1>1. ASSUME NEW w \in Workspaces, NEW p \in Plans, NEW starts \in BOOLEAN, Move(h, w, p, starts)
      PROVE  Quiet /\ past' = past
  <2> DEFINE m == MovePatch(sub[w], p, starts)
  <2>1. RowType(sub[w])
    BY DEF RowsTyped
  <2>2. /\ PatchType(m) /\ {"status", "trialUsed"} \subseteq DOMAIN m /\ "since" \notin DOMAIN m
        /\ m.status = IF TrialEligible(sub[w], p) THEN "TRIALING" ELSE "ACTIVE"
        /\ m.trialUsed <=> (sub[w].trialUsed \/ TrialEligible(sub[w], p))
    BY <2>1, MovePatchIs
  <2>3. TrialEligible(sub[w], p) => ~sub[w].trialUsed
    BY DEF TrialEligible
  <2>4. PICK c : Begin(h, "move", w, m, c)
    BY <1>1 DEF Move
  <2> HIDE DEF m
  <2> QED
    BY <2>2, <2>3, <2>4, BeginQuiet
<1>2. ASSUME NEW w \in Workspaces, Cancel(h, w) PROVE Quiet /\ past' = past
  <2>1. PICK t, c : Begin(h, "cancel", w, [cancelAt |-> t], c)
    BY <1>2 DEF Cancel
  <2>2. PatchType([cancelAt |-> t]) /\ {"status", "since", "trialUsed"} \cap DOMAIN [cancelAt |-> t] = {}
    BY DEF PatchType
  <2> QED
    BY <2>1, <2>2, BeginQuiet
<1>3. ASSUME NEW w \in Workspaces, Reactivate(h, w) PROVE Quiet /\ past' = past
  <2>1. Begin(h, "reactivate", w, [cancelAt |-> 0], None)
    BY <1>3 DEF Reactivate
  <2>2. PatchType([cancelAt |-> 0]) /\ {"status", "since", "trialUsed"} \cap DOMAIN [cancelAt |-> 0] = {}
    BY DEF PatchType
  <2> QED
    BY <2>1, <2>2, BeginQuiet
<1>4. ASSUME NEW w \in Workspaces, NEW t, ExtendTrial(h, w, t) PROVE Quiet /\ past' = past
  <2>1. Begin(h, "extendTrial", w, [trialEnd |-> t], None)
    BY <1>4 DEF ExtendTrial
  <2>2. PatchType([trialEnd |-> t]) /\ {"status", "since", "trialUsed"} \cap DOMAIN [trialEnd |-> t] = {}
    BY DEF PatchType
  <2> QED
    BY <2>1, <2>2, BeginQuiet
<1>5. CASE ClearManualRole(h)
  <2> DEFINE q == [Idle EXCEPT !.pc = "derive", !.op = "clear"]
  <2>1. /\ handler' = [handler EXCEPT ![h] = q] /\ sub' = sub /\ user' = user /\ now' = now
        /\ events' = events /\ past' = past
    BY <1>5 DEF ClearManualRole
  <2>2. HandlerType(q) /\ q.pc = "derive" /\ q.op = "clear"
    BY DEF Idle, HandlerType, Fields, Labels
  <2> HIDE DEF q
  <2>3. Fits(q, sub, user)
    BY <2>2 DEF Fits, SyncFits
  <2> QED
    BY <2>1, <2>2, <2>3, HandlerMoves, RowsTypedKept DEF Quiet
<1> QED
  BY <1>1, <1>2, <1>3, <1>4, <1>5 DEF Request

LEMMA EventPatchIs ==
    ASSUME NEW e, EventType(e), NEW s, RowType(s)
    PROVE  LET p == EventPatch(e, s) IN
           /\ PatchType(p)
           /\ e.type \in {"invoice paid", "charge.success"} =>
                /\ {"status", "since"} \subseteq DOMAIN p /\ p.status = "ACTIVE" /\ p.since = 0
                /\ "trialUsed" \in DOMAIN p => p.trialUsed = s.trialUsed
           /\ e.type = "invoice.payment_failed" =>
                /\ DOMAIN p = {"status", "since"} /\ p.status = "PAST_DUE"
                /\ p.since = IF s.since # 0 THEN s.since ELSE now
           /\ e.type \in {"subscription.create", "subscription.disable"} =>
                {"status", "since", "trialUsed"} \cap DOMAIN p = {}
<1>1. CASE e.type = "invoice paid"
  <2>1. EventPatch(e, s) =
           [plan |-> e.plan, status |-> "ACTIVE", customer |-> TRUE, end |-> now + Period,
            since |-> 0, cancelAt |-> 0, trialEnd |-> 0, trialUsed |-> s.trialUsed]
    BY <1>1 DEF EventPatch
  <2>2. e.plan \in Plans /\ s.trialUsed \in BOOLEAN
    BY <1>1 DEF EventType, RowType
  <2>3. /\ {"plan", "status", "customer", "since", "trialUsed"} \subseteq DOMAIN EventPatch(e, s)
        /\ EventPatch(e, s).plan = e.plan /\ EventPatch(e, s).status = "ACTIVE"
        /\ EventPatch(e, s).customer = TRUE /\ EventPatch(e, s).since = 0
        /\ EventPatch(e, s).trialUsed = s.trialUsed
    BY <2>1
  <2> QED
    BY <1>1, <2>2, <2>3 DEF PatchType
<1>2. CASE e.type = "charge.success"
  <2>1. EventPatch(e, s) =
           [plan |-> e.plan, status |-> "ACTIVE", customer |-> TRUE,
            since |-> 0, cancelAt |-> 0, trialEnd |-> 0]
    BY <1>2 DEF EventPatch
  <2>2. e.plan \in Plans
    BY <1>2 DEF EventType
  <2> QED
    BY <1>2, <2>1, <2>2 DEF PatchType
<1>3. CASE e.type = "subscription.create"
  <2>1. EventPatch(e, s) = [code |-> e.w, end |-> now + Period]
    BY <1>3 DEF EventPatch
  <2> QED
    BY <1>3, <2>1 DEF PatchType
<1>4. CASE e.type = "subscription.disable"
  <2>1. EventPatch(e, s) = [cancelAt |-> now]
    BY <1>4 DEF EventPatch
  <2> QED
    BY <1>4, <2>1 DEF PatchType
<1>5. CASE e.type = "invoice.payment_failed"
  <2>1. EventPatch(e, s) = [status |-> "PAST_DUE", since |-> IF s.since # 0 THEN s.since ELSE now]
    BY <1>5 DEF EventPatch
  <2> QED
    BY <1>5, <2>1 DEF PatchType
<1> QED
  BY <1>1, <1>2, <1>3, <1>4, <1>5 DEF EventType, EventTypes

LEMMA TakeQuiet ==
    ASSUME RowsTyped, HandlersSound, NEW h \in Handlers, NEW e \in events, NEW v \in Workspaces, Take(h, e, v)
    PROVE  Quiet /\ past' = past
<1> DEFINE p == EventPatch(e, sub[v])
           q == [Idle EXCEPT !.pc = "write", !.op = e.type, !.event = e, !.w = v, !.patch = p, !.at = now]
<1>1. /\ handler' = [handler EXCEPT ![h] = q] /\ sub' = sub /\ user' = user /\ now' = now
      /\ events' = events /\ past' = past /\ v \in Correlated(e)
  BY DEF Take
<1>2. /\ HandlerType(q) /\ q.pc = "write" /\ q.op = e.type /\ q.w = v /\ q.patch = p /\ q.at = now
      /\ q.stale = FALSE
  BY DEF Idle, HandlerType, Fields, Labels
<1>3. EventType(e) /\ RowType(sub[v]) /\ now # 0
  BY DEF RowsTyped
<1>4. /\ PatchType(p)
      /\ e.type \in {"invoice paid", "charge.success"} =>
           /\ {"status", "since"} \subseteq DOMAIN p /\ p.status = "ACTIVE" /\ p.since = 0
           /\ "trialUsed" \in DOMAIN p => p.trialUsed = sub[v].trialUsed
      /\ e.type = "invoice.payment_failed" =>
           /\ DOMAIN p = {"status", "since"} /\ p.status = "PAST_DUE"
           /\ p.since = IF sub[v].since # 0 THEN sub[v].since ELSE now
      /\ e.type \in {"subscription.create", "subscription.disable"} =>
           {"status", "since", "trialUsed"} \cap DOMAIN p = {}
  BY <1>3, EventPatchIs
<1>5. e.type = "invoice.payment_failed" => sub[v].customer
  BY <1>1 DEF Correlated, OfCustomer
<1> HIDE DEF q, p
<1>6. WriterFits(q, sub[v])
  <2>1. CASE e.type \in {"invoice paid", "charge.success"}
    <3>1. PaymentFits(q, sub[v])
      BY <1>2, <1>4, <2>1 DEF PaymentFits
    <3> QED
      BY <1>2, <1>4, <2>1, <3>1 DEF WriterFits
  <2>2. CASE e.type = "invoice.payment_failed"
    <3>1. FailureFits(q, sub[v])
      BY <1>2, <1>3, <1>4, <1>5, <2>2 DEF FailureFits
    <3> QED
      BY <1>2, <1>4, <2>2, <3>1 DEF WriterFits
  <2>3. CASE e.type \in {"subscription.create", "subscription.disable"}
    <3>1. OtherFits(q)
      BY <1>2, <1>4, <2>3 DEF OtherFits
    <3> QED
      BY <1>2, <1>4, <2>3, <3>1 DEF WriterFits
  <2> QED
    BY <1>3, <2>1, <2>2, <2>3 DEF EventType, EventTypes
<1>7. Fits(q, sub, user)
  BY <1>2, <1>6 DEF Fits, SyncFits
<1>8. HandlersSound'
  BY <1>1, <1>2, <1>7, HandlerMoves
<1>9. RowsTyped'
  BY <1>1, RowsTypedKept
<1> QED
  BY <1>1, <1>8, <1>9 DEF Quiet

-----------------------------------------------------------------------------
(***************************************************************************)
(* What happens around the handlers.                                       *)
(***************************************************************************)
\* The handlers with what they hold when the user's row becomes u.
LEMMA OutdatedRests ==
    ASSUME HandlersSound, NEW u, NEW g \in Handlers
    PROVE  LET r == handler[g]  q == Outdated(u)[g] IN
           Stays(r, q) /\ (r.pc \in {"derive", "store"} /\ u # user => q.stale)
<1>1. Outdated(u)[g] = [handler[g] EXCEPT
          !.stale = @ \/ (u # user /\ handler[g].pc \in {"derive", "store"})]
  BY DEF Outdated
<1>2. HandlerType(handler[g])
  BY DEF HandlersSound
<1> DEFINE b == handler[g].stale \/ (u # user /\ handler[g].pc \in {"derive", "store"})
<1>3. Outdated(u)[g] = [handler[g] EXCEPT !.stale = b]
  BY <1>1, <1>2 DEF HandlerType, Fields
<1>4. b \in {handler[g].stale, TRUE} /\ (handler[g].pc \in {"derive", "store"} /\ u # user => b)
  BY <1>2 DEF HandlerType
<1> HIDE DEF b
<1> QED
  BY <1>2, <1>3, <1>4 DEF Stays, HandlerType, Fields

LEMMA EnvironmentQuiet ==
    ASSUME RowsTyped, HandlersSound, Environment
    PROVE  /\ RowsTyped' /\ HandlersSound' /\ sub' = sub /\ past' = past
           /\ \A g \in Handlers : handler'[g].pc = handler[g].pc
           /\ user' = user \/ user'.source = "ADMIN_ASSIGNED"
<1> DEFINE Same == sub' = sub /\ user' = user /\ handler' = handler /\ past' = past
<1>1. ASSUME Same, RowsTyped'
      PROVE  /\ RowsTyped' /\ HandlersSound' /\ sub' = sub /\ past' = past
             /\ \A g \in Handlers : handler'[g].pc = handler[g].pc
             /\ user' = user \/ user'.source = "ADMIN_ASSIGNED"
  BY <1>1 DEF HandlersSound
<1>2. CASE Tick
  <2>1. Same /\ now' = now + 1 /\ events' = events
    BY <1>2 DEF Tick
  <2>2. RowsTyped'
    BY <2>1 DEF RowsTyped
  <2> QED
    BY <1>1, <2>1, <2>2
<1>3. ASSUME Same, now' = now, NEW type \in EventTypes, NEW w, NEW p,
             type \in {"invoice paid", "charge.success"} => p \in Plans, events' = Stored(type, w, p)
      PROVE  RowsTyped'
  BY <1>3, StoredIs, RowsTypedKept
<1>4. ASSUME NEW w \in Workspaces, NEW p \in Plans, PaidMove(w, p) PROVE Same /\ RowsTyped'
  <2>1. Same /\ now' = now /\ events' = Stored("invoice paid", w, p)
    BY <1>4 DEF PaidMove
  <2> QED
    BY <1>3, <2>1 DEF EventTypes
<1>5. ASSUME NEW w \in Workspaces, ReactivateByCheckout(w) PROVE Same /\ RowsTyped'
  <2>1. Same /\ now' = now /\ events' = Stored("charge.success", w, sub[w].plan)
    BY <1>5 DEF ReactivateByCheckout
  <2>2. sub[w].plan \in Plans
    BY DEF RowsTyped, RowType
  <2> QED
    BY <1>3, <2>1, <2>2 DEF EventTypes
<1>6. ASSUME NEW w \in Workspaces, ChargeFails(w) PROVE Same /\ RowsTyped'
  <2>1. Same /\ now' = now /\ events' = Stored("invoice.payment_failed", w, None)
    BY <1>6 DEF ChargeFails
  <2> QED
    BY <1>3, <2>1 DEF EventTypes
<1>7. ASSUME NEW w \in Workspaces, ProviderDisables(w) PROVE Same /\ RowsTyped'
  <2>1. Same /\ now' = now /\ events' = Stored("subscription.disable", w, None)
    BY <1>7 DEF ProviderDisables
  <2> QED
    BY <1>3, <2>1 DEF EventTypes
<1>8. ASSUME NEW e \in events, Ignore(e) PROVE Same /\ RowsTyped'
  <2>1. Same /\ now' = now /\ events' = events \ {e}
    BY <1>8 DEF Ignore
  <2> QED
    BY <2>1, RowsTypedKept
<1>9. ASSUME NEW p \in Granted, AssignManualRole(p)
      PROVE  /\ RowsTyped' /\ HandlersSound' /\ sub' = sub /\ past' = past
             /\ \A g \in Handlers : handler'[g].pc = handler[g].pc
             /\ user' = user \/ user'.source = "ADMIN_ASSIGNED"
  <2>1. /\ handler' = Outdated(user') /\ user'.source = "ADMIN_ASSIGNED"
        /\ sub' = sub /\ past' = past /\ now' = now /\ events' = events
    BY <1>9 DEF AssignManualRole
  <2>2. handler' = [g \in Handlers |-> handler'[g]]
    BY <2>1 DEF Outdated
  <2>3. \A g \in Handlers : Rests(handler[g], handler'[g])
    BY <2>1, OutdatedRests DEF Rests
  <2>4. HandlersSound'
    BY <2>1, <2>2, <2>3, HandlersRest
  <2>5. RowsTyped'
    BY <2>1, RowsTypedKept
  <2>6. \A g \in Handlers : handler'[g].pc = handler[g].pc
    BY <2>3 DEF Rests, Stays
  <2> QED
    BY <2>1, <2>4, <2>5, <2>6
<1> HIDE DEF Same
<1> QED
  BY <1>1, <1>2, <1>4, <1>5, <1>6, <1>7, <1>8, <1>9 DEF Environment

-----------------------------------------------------------------------------
(***************************************************************************)
(* The steps of a handler that do not write a row.                         *)
(***************************************************************************)
LEMMA CancelRemoteQuiet ==
    ASSUME RowsTyped, HandlersSound, NEW h \in Handlers, CancelRemote(h)
    PROVE  Quiet /\ past' = past
<1> DEFINE r == handler[h]
           q == [r EXCEPT !.pc = "write", !.code = None]
<1>1. HandlerType(r) /\ Fits(r, sub, user) /\ r.pc = "cancelRemote"
  BY DEF HandlersSound, CancelRemote
<1>2. /\ handler' = [handler EXCEPT ![h].pc = "write", ![h].code = None] /\ sub' = sub /\ user' = user
      /\ now' = now /\ events' = Stored("subscription.disable", handler[h].code, None) /\ past' = past
  BY DEF CancelRemote
<1>3. handler' = [handler EXCEPT ![h] = q]
  BY <1>2 DEF HandlersSound
<1>4. /\ HandlerType(q) /\ q.pc = "write" /\ q.op = r.op /\ q.w = r.w /\ q.patch = r.patch
      /\ q.at = r.at /\ q.stale = r.stale
  BY <1>1 DEF HandlerType, Fields, Labels
<1> HIDE DEF q
<1>5. WriterFits(q, sub[q.w])
  BY <1>1, <1>4 DEF Fits, WriterFits, MoveFits, PaymentFits, FailureFits, OtherFits
<1>6. Fits(q, sub, user)
  BY <1>4, <1>5 DEF Fits, SyncFits
<1>7. HandlersSound'
  BY <1>2, <1>3, <1>4, <1>6, HandlerMoves
<1>8. RowsTyped'
  BY <1>2, StoredIs, RowsTypedKept DEF EventTypes
<1> QED
  BY <1>2, <1>7, <1>8 DEF Quiet

LEMMA CurrentQuiet ==
    ASSUME RowsTyped, HandlersSound, NEW h \in Handlers, Current(h)
    PROVE  Quiet /\ past' = past /\ handler'[h].pc = "resolve"
<1> DEFINE q == [handler[h] EXCEPT !.pc = "resolve", !.user = user]
<1>1. /\ handler' = [handler EXCEPT ![h].pc = "resolve", ![h].user = user] /\ sub' = sub /\ user' = user
      /\ now' = now /\ events' = events /\ past' = past
  BY DEF Current
<1>2. handler' = [handler EXCEPT ![h] = q]
  BY <1>1 DEF HandlersSound
<1>3. HandlerType(q) /\ q.pc = "resolve"
  BY DEF HandlersSound, HandlerType, Fields, Labels
<1> HIDE DEF q
<1>4. Fits(q, sub, user)
  BY <1>3 DEF Fits, SyncFits
<1>5. HandlersSound' /\ RowsTyped'
  BY <1>1, <1>2, <1>3, <1>4, HandlerMoves, RowsTypedKept
<1>6. handler'[h].pc = "resolve"
  BY <1>2, <1>3 DEF HandlersSound
<1> QED
  BY <1>1, <1>5, <1>6 DEF Quiet

LEMMA EndQuiet ==
    ASSUME RowsTyped, HandlersSound, NEW h \in Handlers, End(h), sub' = sub, user' = user, now' = now
    PROVE  Quiet
<1>1. handler' = [handler EXCEPT ![h] = Idle] /\ events' \subseteq events
  BY DEF End
<1>2. HandlersSound'
  BY <1>1, IdleIs, HandlerMoves
<1>3. RowsTyped'
  BY <1>1, RowsTypedKept
<1> QED
  BY <1>2, <1>3 DEF Quiet

LEMMA ResolveQuiet ==
    ASSUME RowsTyped, HandlersSound, NEW h \in Handlers, Resolve(h)
    PROVE  /\ Quiet /\ past' = past
           /\ user.source = "ADMIN_ASSIGNED" \/ handler'[h].pc = "derive"
<1>1. /\ sub' = sub /\ user' = user /\ now' = now /\ past' = past
  BY DEF Resolve
<1>2. HandlerType(handler[h])
  BY DEF HandlersSound
<1>3. CASE user.source = "ADMIN_ASSIGNED" /\ handler[h].user = user
  BY <1>1, <1>3, EndQuiet DEF Resolve
<1>4. CASE user.source = "ADMIN_ASSIGNED" /\ handler[h].user # user
  <2> DEFINE q == [handler[h] EXCEPT !.pc = "store", !.user = None, !.patch = user]
  <2>1. /\ handler' = [handler EXCEPT ![h].pc = "store", ![h].user = None, ![h].patch = user]
        /\ events' = events
    BY <1>4 DEF Resolve
  <2>2. handler' = [handler EXCEPT ![h] = q]
    BY <2>1 DEF HandlersSound
  <2>3. HandlerType(q) /\ q.pc = "store" /\ q.patch = user
    BY <1>2 DEF HandlerType, Fields, Labels
  <2> HIDE DEF q
  <2>4. Fits(q, sub, user)
    BY <1>4, <2>3 DEF Fits, SyncFits
  <2>5. HandlersSound' /\ RowsTyped'
    BY <1>1, <2>1, <2>2, <2>3, <2>4, HandlerMoves, RowsTypedKept
  <2> QED
    BY <1>1, <1>4, <2>5 DEF Quiet
<1>5. CASE user.source # "ADMIN_ASSIGNED"
  <2> DEFINE q == [handler[h] EXCEPT !.pc = "derive"]
  <2>1. /\ handler' = [handler EXCEPT ![h].pc = "derive"]
        /\ events' = events
    BY <1>5 DEF Resolve
  <2>2. handler' = [handler EXCEPT ![h] = q]
    BY <2>1 DEF HandlersSound
  <2>3. HandlerType(q) /\ q.pc = "derive"
    BY <1>2 DEF HandlerType, Fields, Labels
  <2> HIDE DEF q
  <2>4. Fits(q, sub, user)
    BY <1>5, <2>3 DEF Fits, SyncFits
  <2>5. HandlersSound' /\ RowsTyped'
    BY <1>1, <2>1, <2>2, <2>3, <2>4, HandlerMoves, RowsTypedKept
  <2>6. handler'[h].pc = "derive"
    BY <2>2, <2>3 DEF HandlersSound
  <2> QED
    BY <1>1, <2>5, <2>6 DEF Quiet
<1> QED
  BY <1>3, <1>4, <1>5

LEMMA DeriveQuiet ==
    ASSUME RowsTyped, HandlersSound, NEW h \in Handlers, Derive(h)
    PROVE  /\ Quiet
           /\ \/ Derived(now, user = RoleOf(sub, now))
              \/ past' = past /\ handler'[h].pc = "store"
<1>1. /\ sub' = sub /\ user' = user /\ now' = now /\ handler[h].pc = "derive"
      /\ Resolved(now) = RoleOf(sub, now)
  BY RoleIsOf DEF Derive
<1>2. HandlerType(handler[h]) /\ SyncFits(handler[h], user, sub)
  BY DEF HandlersSound, Fits
<1>3. CASE handler[h].op # "clear" /\ Resolved(now) = handler[h].user
  <2>1. End(h) /\ Derived(now, user = Resolved(now))
    BY <1>3 DEF Derive
  <2> QED
    BY <1>1, <2>1, EndQuiet
<1>4. CASE ~(handler[h].op # "clear" /\ Resolved(now) = handler[h].user)
  <2> DEFINE q == [handler[h] EXCEPT !.pc = "store", !.user = None, !.patch = Resolved(now), !.at = now]
  <2>1. /\ handler' = [handler EXCEPT ![h].pc = "store", ![h].user = None,
                                      ![h].patch = Resolved(now), ![h].at = now]
        /\ events' = events /\ past' = past
    BY <1>4 DEF Derive
  <2>2. handler' = [handler EXCEPT ![h] = q]
    BY <2>1 DEF HandlersSound
  <2>3. /\ HandlerType(q) /\ q.pc = "store" /\ q.patch = Resolved(now) /\ q.at = now
        /\ q.stale = handler[h].stale /\ q.op = handler[h].op
    BY <1>2 DEF HandlerType, Fields, Labels
  <2> HIDE DEF q
  <2>4. Fits(q, sub, user)
    BY <1>1, <1>2, <2>3 DEF Fits, SyncFits
  <2>5. HandlersSound' /\ RowsTyped'
    BY <1>1, <2>1, <2>2, <2>3, <2>4, HandlerMoves, RowsTypedKept
  <2>6. handler'[h].pc = "store"
    BY <2>2, <2>3 DEF HandlersSound
  <2> QED
    BY <1>1, <2>1, <2>5, <2>6 DEF Quiet
<1> QED
  BY <1>3, <1>4

LEMMA StoreKeeps ==
    ASSUME RowsTyped, HandlersSound, NEW h \in Handlers, Store(h)
    PROVE  /\ RowsTyped' /\ HandlersSound' /\ sub' = sub
           /\ \/ past' = past /\ user'.source = "ADMIN_ASSIGNED"
              \/ Derived(handler[h].at, ~handler[h].stale) /\ (~handler[h].stale => user' = RoleOf(sub, handler[h].at))
<1> DEFINE r == handler[h]
<1>1. /\ r.pc = "store" /\ user' = r.patch /\ handler' = [Outdated(r.patch) EXCEPT ![h] = Idle]
      /\ events' \subseteq events /\ sub' = sub /\ now' = now
      /\ IF r.patch.source = "ADMIN_ASSIGNED" THEN past' = past ELSE Derived(r.at, ~r.stale)
  BY DEF Store
<1>2. SyncFits(r, user, sub)
  BY DEF HandlersSound, Fits
<1>3. handler' = [g \in Handlers |-> handler'[g]] /\ handler'[h] = Idle
  BY <1>1 DEF Outdated
<1>4. \A g \in Handlers \ {h} : handler'[g] = Outdated(user')[g]
  BY <1>1 DEF Outdated
<1>5. \A g \in Handlers \ {h} : Rests(handler[g], handler'[g])
  BY <1>1, <1>4, OutdatedRests DEF Rests
<1>6. HandlersSound'
  BY <1>1, <1>3, <1>5, IdleIs, HandlersMove
<1>7. RowsTyped'
  BY <1>1, RowsTypedKept
<1>8. r.patch.source # "ADMIN_ASSIGNED" /\ ~r.stale => user' = RoleOf(sub, r.at)
  BY <1>1, <1>2 DEF SyncFits
<1> QED
  BY <1>1, <1>6, <1>7, <1>8

LEMMA FailQuiet ==
    ASSUME RowsTyped, HandlersSound, NEW h \in Handlers, NEW again, Fail(h, again)
    PROVE  Quiet
<1>1. /\ handler' = [handler EXCEPT ![h] = Idle] /\ events' \subseteq events
      /\ sub' = sub /\ user' = user /\ now' = now
  BY DEF Fail
<1> QED
  BY <1>1, IdleIs, HandlerMoves, RowsTypedKept DEF Quiet

-----------------------------------------------------------------------------
(***************************************************************************)
(* A handler writes its row.                                               *)
(***************************************************************************)
New(h) == Patched(sub[handler[h].w], handler[h].patch)

LEMMA WriteIs ==
    ASSUME RowsTyped, HandlersSound, NEW h \in Handlers, Write(h)
    PROVE  LET w == handler[h].w IN
           /\ w \in Workspaces /\ WriterFits(handler[h], sub[w])
           /\ RowType(New(h)) /\ sub' = [sub EXCEPT ![w] = New(h)]
           /\ sub[w].customer => New(h).customer
           /\ past' = Written(handler[h], w, sub[w], New(h))
           /\ user' = user /\ now' = now /\ events' = events
<1>1. /\ handler[h].pc = "write" /\ sub' = [sub EXCEPT ![handler[h].w] = New(h)]
      /\ past' = Written(handler[h], handler[h].w, sub[handler[h].w], New(h))
      /\ user' = user /\ now' = now /\ events' = events
  BY DEF Write, New
<1>2. WriterFits(handler[h], sub[handler[h].w])
  BY <1>1 DEF HandlersSound, Fits
<1>3. handler[h].w \in Workspaces /\ PatchType(handler[h].patch)
  BY <1>2 DEF WriterFits
<1>4. RowType(sub[handler[h].w])
  BY <1>3 DEF RowsTyped
<1>5. RowType(New(h)) /\ (sub[handler[h].w].customer => New(h).customer)
  BY <1>3, <1>4, PatchedRow DEF New
<1> QED
  BY <1>1, <1>2, <1>3, <1>5

LEMMA WriteKeeps ==
    ASSUME RowsTyped, HandlersSound, NEW h \in Handlers, Write(h)
    PROVE  RowsTyped' /\ HandlersSound' /\ (Syncs(handler[h].op) => handler'[h].pc = "current")
<1> DEFINE w == handler[h].w
           q == IF Syncs(handler[h].op) THEN [Idle EXCEPT !.pc = "current", !.event = handler[h].event] ELSE Idle
<1>1. /\ w \in Workspaces /\ RowType(New(h)) /\ sub' = [sub EXCEPT ![w] = New(h)]
      /\ sub[w].customer => New(h).customer
      /\ user' = user /\ now' = now /\ events' = events
  BY WriteIs
<1>2. handler' = [Overtaken(h, w, sub[w], New(h)) EXCEPT ![h] = q]
  BY DEF Write, New
<1>3. HandlerType(q) /\ (Syncs(handler[h].op) => q.pc = "current") /\ q.pc \in {"idle", "current"}
  BY DEF Idle, HandlerType, Fields, Labels
<1> HIDE DEF q
<1>4. Fits(q, sub', user')
  BY <1>3 DEF Fits, SyncFits
<1>5. /\ handler' = [g \in Handlers |-> handler'[g]] /\ handler'[h] = q
      /\ \A g \in Handlers \ {h} : handler'[g] = Overtaken(h, w, sub[w], New(h))[g]
  BY <1>2 DEF Overtaken
<1>6. /\ \A v \in Workspaces : sub'[v] = IF v = w THEN New(h) ELSE sub[v]
      /\ sub' # sub => sub[w] # New(h)
      /\ sub' = [v \in Workspaces |-> sub'[v]]
  BY <1>1 DEF RowsTyped
<1>7. ASSUME NEW g \in Handlers \ {h} PROVE Rests(handler[g], handler'[g])
  <2>1. HandlerType(handler[g]) /\ (handler[g].pc \in {"cancelRemote", "write"} => handler[g].w \in Workspaces)
    BY DEF HandlersSound, Fits, WriterFits
  <2>2. handler'[g] = IF sub[w] # New(h) /\ (handler[g].pc = "store" \/ handler[g].w = w)
                      THEN [handler[g] EXCEPT !.stale = TRUE] ELSE handler[g]
    BY <1>5 DEF Overtaken
  <2>3. Stays(handler[g], handler'[g])
    BY <2>1, <2>2 DEF Stays, HandlerType, Fields
  <2>4. sub[w] # New(h) /\ (handler[g].pc = "store" \/ handler[g].w = w) => handler'[g].stale
    BY <2>1, <2>2 DEF HandlerType, Fields
  <2>5. handler[g].pc \in {"cancelRemote", "write"} /\ sub'[handler[g].w] # sub[handler[g].w] => handler'[g].stale
    BY <1>6, <2>1, <2>4
  <2>6. handler[g].pc = "store" /\ sub' # sub => handler'[g].stale
    BY <1>6, <2>4
  <2> QED
    BY <1>1, <2>3, <2>5, <2>6 DEF Rests
<1>8. \A v \in Workspaces : sub[v].customer => sub'[v].customer
  BY <1>1, <1>6
<1>9. HandlersSound'
  BY <1>3, <1>4, <1>5, <1>7, <1>8, HandlersMove
<1>10. RowsTyped'
  BY <1>1, <1>6 DEF RowsTyped
<1> QED
  BY <1>3, <1>5, <1>9, <1>10

-----------------------------------------------------------------------------
(***************************************************************************)
(* History and the rows.                                                   *)
(***************************************************************************)
PastShape ==
    /\ DOMAIN past = {"spell", "trials", "paid", "raced", "carried", "asOf", "drift"}
    /\ DOMAIN past.spell = Workspaces /\ DOMAIN past.trials = Workspaces /\ past.drift \in BOOLEAN

RowSound(w) ==
    /\ sub[w].status = "PAST_DUE" => sub[w].customer
    /\ w \notin past.raced \cup past.carried =>
         IF sub[w].status = "PAST_DUE" THEN sub[w].since = past.spell[w] /\ sub[w].since # 0
         ELSE sub[w].since = 0
    /\ w \notin past.raced => past.trials[w] = IF sub[w].trialUsed THEN 1 ELSE 0

PastSound == PastShape /\ \A w \in Workspaces : RowSound(w)

\* Only the fields about the role change.
LEMMA PastKept ==
    ASSUME PastSound, NEW t, NEW d \in BOOLEAN, past' \in {past, [past EXCEPT !.asOf = t, !.drift = d], [past EXCEPT !.drift = d]},
           sub' = sub
    PROVE  PastSound'
<1>1. PastShape' /\ past'.spell = past.spell /\ past'.trials = past.trials
  BY DEF PastSound, PastShape
<1>2. past'.raced = past.raced /\ past'.carried = past.carried
  BY DEF PastSound, PastShape
<1>3. \A w \in Workspaces : RowSound(w)'
  BY <1>1, <1>2 DEF PastSound, RowSound
<1> QED
  BY <1>1, <1>3 DEF PastSound

LEMMA WriteSound ==
    ASSUME RowsTyped, HandlersSound, PastSound, NEW h \in Handlers, Write(h)
    PROVE  PastSound' /\ past'.drift = (past.drift \/ handler[h].op = "extendTrial") /\ past'.asOf = past.asOf
<1>0. PICK w : w = handler[h].w
  OBVIOUS
<1> DEFINE r == handler[h]  s == sub[w]  n == New(h)
<1>1. /\ w \in Workspaces /\ WriterFits(r, s) /\ RowType(n) /\ sub' = [sub EXCEPT ![w] = n]
      /\ s.customer => n.customer
      /\ past' = Written(r, w, s, n)
  BY <1>0, WriteIs
<1>2. RowType(s) /\ PatchType(r.patch)
  BY <1>1 DEF RowsTyped, WriterFits
<1>3. /\ n.status = IF "status" \in DOMAIN r.patch THEN r.patch.status ELSE s.status
      /\ n.since = IF "since" \in DOMAIN r.patch THEN r.patch.since ELSE s.since
      /\ n.trialUsed = IF "trialUsed" \in DOMAIN r.patch THEN r.patch.trialUsed ELSE s.trialUsed
  BY <1>0, <1>2, PatchedRow DEF New
<1>4. HandlerType(r)
  BY DEF HandlersSound
<1>5. PastShape /\ RowSound(w)
  BY <1>1 DEF PastSound
<1>6. sub'[w] = n /\ \A v \in Workspaces \ {w} : sub'[v] = sub[v]
  BY <1>1 DEF RowsTyped
<1> HIDE DEF n, s, r
<1>7. /\ PastShape'
      /\ past'.spell = [past.spell EXCEPT ![w] = IF n.status # "PAST_DUE" THEN 0
                                                 ELSE IF s.status # "PAST_DUE" THEN r.at ELSE @]
      /\ past'.trials = [past.trials EXCEPT ![w] = IF r.op = "move" /\ n.status = "TRIALING" THEN @ + 1 ELSE @]
  BY <1>1, <1>5 DEF Written, PastShape
<1>8. /\ past'.raced = IF r.stale THEN past.raced \cup {w} ELSE past.raced
      /\ past'.carried = IF r.op = "move" /\ s.since # 0 THEN past.carried \cup {w} ELSE past.carried
      /\ past'.drift = (past.drift \/ r.op = "extendTrial")
      /\ past'.asOf = past.asOf
  BY <1>1, <1>5 DEF Written, PastShape
<1>9. /\ past'.spell[w] = IF n.status # "PAST_DUE" THEN 0
                          ELSE IF s.status # "PAST_DUE" THEN r.at ELSE past.spell[w]
      /\ past'.trials[w] = IF r.op = "move" /\ n.status = "TRIALING" THEN past.trials[w] + 1 ELSE past.trials[w]
      /\ \A v \in Workspaces \ {w} : past'.spell[v] = past.spell[v] /\ past'.trials[v] = past.trials[v]
  BY <1>1, <1>5, <1>7 DEF PastShape
<1>10. ASSUME NEW v \in Workspaces \ {w} PROVE RowSound(v)'
  <2>1. sub'[v] = sub[v] /\ past'.spell[v] = past.spell[v] /\ past'.trials[v] = past.trials[v]
    BY <1>6, <1>9
  <2>2. past.raced \subseteq past'.raced /\ past.carried \subseteq past'.carried
    BY <1>8
  <2>3. RowSound(v)
    BY DEF PastSound
  <2> QED
    BY <2>1, <2>2, <2>3 DEF RowSound
<1>11. RowSound(w)'
  <2>1. /\ s.status = "PAST_DUE" => s.customer
        /\ w \notin past.raced \cup past.carried =>
             IF s.status = "PAST_DUE" THEN s.since = past.spell[w] /\ s.since # 0 ELSE s.since = 0
        /\ w \notin past.raced => past.trials[w] = IF s.trialUsed THEN 1 ELSE 0
    BY <1>5 DEF RowSound, s
  <2>2. /\ w \notin past'.raced => w \notin past.raced /\ ~r.stale
        /\ w \notin past'.carried => w \notin past.carried /\ ~(r.op = "move" /\ s.since # 0)
    BY <1>8
  <2>3. s.trialUsed \in BOOLEAN
    BY <1>2 DEF RowType
  <2> SUFFICES /\ n.status = "PAST_DUE" => n.customer
               /\ w \notin past'.raced \cup past'.carried =>
                    IF n.status = "PAST_DUE" THEN n.since = past'.spell[w] /\ n.since # 0 ELSE n.since = 0
               /\ w \notin past'.raced => past'.trials[w] = IF n.trialUsed THEN 1 ELSE 0
    BY <1>6 DEF RowSound
  <2>4. CASE r.op = "move" /\ MoveFits(r, s)
    <3>1. n.status \in {"TRIALING", "ACTIVE"} /\ n.since = s.since /\ n.trialUsed = r.patch.trialUsed
      BY <1>3, <2>4 DEF MoveFits
    <3>2. ~r.stale => /\ n.trialUsed <=> (s.trialUsed \/ n.status = "TRIALING")
                      /\ n.status = "TRIALING" => ~s.trialUsed
      BY <1>3, <2>4, <3>1 DEF MoveFits
    <3> QED
      BY <1>9, <2>1, <2>2, <2>3, <2>4, <3>1, <3>2
  <2>5. CASE r.op \in {"invoice paid", "charge.success"} /\ PaymentFits(r, s)
    <3>1. n.status = "ACTIVE" /\ n.since = 0
      BY <1>3, <2>5 DEF PaymentFits
    <3>2. ~r.stale => n.trialUsed = s.trialUsed
      BY <1>3, <2>5 DEF PaymentFits
    <3> QED
      BY <1>9, <2>1, <2>2, <2>5, <3>1, <3>2
  <2>6. CASE r.op = "invoice.payment_failed" /\ FailureFits(r, s)
    <3>1. n.status = "PAST_DUE" /\ n.customer /\ r.at # 0 /\ n.trialUsed = s.trialUsed
      BY <1>1, <1>3, <2>6 DEF FailureFits
    <3>2. ~r.stale => n.since = IF s.since # 0 THEN s.since ELSE r.at
      BY <1>3, <2>6 DEF FailureFits
    <3> QED
      BY <1>9, <2>1, <2>2, <2>6, <3>1, <3>2
  <2>7. CASE /\ r.op \in {"cancel", "reactivate", "extendTrial", "subscription.create", "subscription.disable"}
             /\ OtherFits(r)
    <3>1. n.status = s.status /\ n.since = s.since /\ n.trialUsed = s.trialUsed
      BY <1>3, <2>7 DEF OtherFits
    <3> QED
      BY <1>1, <1>9, <2>1, <2>2, <2>7, <3>1
  <2> QED
    BY <1>1, <2>4, <2>5, <2>6, <2>7 DEF WriterFits
<1>12. \A v \in Workspaces : RowSound(v)'
  BY <1>10, <1>11
<1> QED
  BY <1>7, <1>8, <1>12 DEF PastSound, r

-----------------------------------------------------------------------------
(***************************************************************************)
(* The owner's role.                                                       *)
(***************************************************************************)
AtRole(r) == r.pc \in {"current", "resolve", "derive", "store"}
Matches(u, rows, t) ==
    /\ \A p \in HeldOf(rows, t) : Tier[u.id] >= Tier[p]
    /\ u.id \in HeldOf(rows, t) \cup {Free}

RoleSound ==
    \/ past.drift
    \/ user.source = "ADMIN_ASSIGNED"
    \/ \E h \in Handlers : AtRole(handler[h])
    \/ Matches(user, sub, past.asOf)

\* There is a highest plan among any: none has fewer above it.
LEMMA HighestPlan ==
    ASSUME NEW S \in SUBSET Plans, S # {}
    PROVE  \E p \in S : \A q \in S : Tier[p] >= Tier[q]
<1> DEFINE Above(p) == {q \in S : Tier[q] > Tier[p]}
           T == {Above(p) : p \in S}
<1>1. FiniteSubsetsOf(Plans) = SUBSET Plans
  BY FS_FiniteSubsetsOfFinite, LifecycleConstants
<1>2. T \subseteq FiniteSubsetsOf(Plans) /\ T # {}
  <2>1. \A p \in S : Above(p) \in SUBSET Plans
    OBVIOUS
  <2>2. T \subseteq SUBSET Plans
    BY <2>1
  <2>3. T # {}
    OBVIOUS
  <2> HIDE DEF T
  <2> QED
    BY <1>1, <2>2, <2>3
<1>3. IsWellFoundedOn(StrictSubsetOrdering(Plans), FiniteSubsetsOf(Plans))
  BY FS_StrictSubsetOrderingWellFounded
<1> HIDE DEF T
<1>4. \E x \in T : \A y \in T : ~ (<<y, x>> \in StrictSubsetOrdering(Plans))
  BY <1>2, <1>3, WFMin
<1> USE DEF T
<1>5. PICK p \in S : \A q \in S : ~ (<<Above(q), Above(p)>> \in StrictSubsetOrdering(Plans))
  BY <1>4
<1>6. ASSUME NEW q \in S, Tier[q] > Tier[p] PROVE FALSE
  <2>1. \A x \in S : Tier[x] \in Int
    BY LifecycleConstants
  <2>2. Above(q) \subseteq Above(p) /\ q \in Above(p) /\ q \notin Above(q)
    BY <1>6, <2>1
  <2>3. Above(q) \in SUBSET Plans /\ Above(p) \in SUBSET Plans
    OBVIOUS
  <2> HIDE DEF Above
  <2>4. <<Above(q), Above(p)>> \in StrictSubsetOrdering(Plans)
    BY <2>2, <2>3 DEF StrictSubsetOrdering
  <2> QED
    BY <1>5, <2>4
<1>7. \A q \in S : Tier[p] >= Tier[q]
  BY <1>6, LifecycleConstants
<1> QED
  BY <1>7

LEMMA RoleMatches ==
    ASSUME RowsTyped, NEW t
    PROVE  Matches(RoleOf(sub, t), sub, t)
<1>1. HeldOf(sub, t) \in SUBSET Plans
  BY DEF HeldOf, RowsTyped, RowType
<1>2. CASE HeldOf(sub, t) = {}
  <2>1. RoleOf(sub, t).id = Free
    BY <1>2 DEF RoleOf
  <2> QED
    BY <1>2, <2>1 DEF Matches
<1>3. CASE HeldOf(sub, t) # {}
  <2> DEFINE c == CHOOSE p \in HeldOf(sub, t) : \A q \in HeldOf(sub, t) : Tier[p] >= Tier[q]
  <2>1. RoleOf(sub, t).id = c
    BY <1>3 DEF RoleOf
  <2>2. c \in HeldOf(sub, t) /\ \A q \in HeldOf(sub, t) : Tier[c] >= Tier[q]
    BY <1>1, <1>3, HighestPlan
  <2> HIDE DEF c
  <2> QED
    BY <2>1, <2>2 DEF Matches
<1> QED
  BY <1>2, <1>3

LEMMA RoleKept ==
    ASSUME RoleSound, sub' = sub, past' = past, user' = user \/ user'.source = "ADMIN_ASSIGNED",
           \A g \in Handlers : AtRole(handler[g]) => AtRole(handler'[g])
    PROVE  RoleSound'
BY DEF RoleSound, AtRole, Matches, HeldOf

LEMMA DerivedSound ==
    ASSUME PastSound, RowsTyped, NEW t, NEW stands \in BOOLEAN, Derived(t, stands), sub' = sub,
           stands => user' = RoleOf(sub, t)
    PROVE  PastSound' /\ RoleSound'
<1>1. CASE stands
  <2>1. past' = [past EXCEPT !.asOf = t, !.drift = FALSE]
    BY <1>1 DEF Derived
  <2>2. past'.asOf = t
    BY <2>1 DEF PastSound, PastShape
  <2>3. Matches(user', sub', past'.asOf)
    BY <1>1, <2>2, RoleMatches
  <2> QED
    BY <2>1, <2>3, PastKept DEF RoleSound
<1>2. CASE ~stands
  <2>1. past' = [past EXCEPT !.drift = TRUE]
    BY <1>2 DEF Derived
  <2>2. past'.drift
    BY <2>1 DEF PastSound, PastShape
  <2> QED
    BY <2>1, <2>2, PastKept DEF RoleSound
<1> QED
  BY <1>1, <1>2

\* A request or a job begins at an idle handler and moves no other.
LEMMA BeginsIdle ==
    ASSUME HandlersSound, NEW h \in Handlers, Request(h) \/ Job(h)
    PROVE  \A g \in Handlers : AtRole(handler[g]) => AtRole(handler'[g])
<1>1. handler[h].pc = "idle" /\ \E q : handler' = [handler EXCEPT ![h] = q]
  BY DEF Request, Job, Move, Cancel, Reactivate, ExtendTrial, ClearManualRole, Begin, Take
<1> QED
  BY <1>1 DEF HandlersSound, AtRole

-----------------------------------------------------------------------------
(***************************************************************************)
(* The invariant.                                                          *)
(***************************************************************************)
Inv == RowsTyped /\ HandlersSound /\ PastSound /\ RoleSound

LEMMA StepKeepsInv ==
    ASSUME Inv, NEW h \in Handlers, Step(h)
    PROVE  Inv'
<1> USE DEF Inv
<1>1. CASE CancelRemote(h)
  <2>1. Quiet /\ past' = past
    BY <1>1, CancelRemoteQuiet
  <2>2. \A g \in Handlers : AtRole(handler[g]) => AtRole(handler'[g])
    BY <1>1 DEF CancelRemote, HandlersSound, AtRole
  <2> QED
    BY <2>1, <2>2, PastKept, RoleKept DEF Quiet
<1>2. CASE Write(h)
  <2>1. RowsTyped' /\ HandlersSound' /\ (Syncs(handler[h].op) => handler'[h].pc = "current")
    BY <1>2, WriteKeeps
  <2>2. PastSound' /\ past'.drift = (past.drift \/ handler[h].op = "extendTrial") /\ past'.asOf = past.asOf
    BY <1>2, WriteSound
  <2>3. RoleSound'
    BY <2>1, <2>2 DEF RoleSound, Syncs, AtRole, PastSound, PastShape
  <2> QED
    BY <2>1, <2>2, <2>3
<1>3. CASE Current(h)
  <2>1. Quiet /\ past' = past /\ handler'[h].pc = "resolve"
    BY <1>3, CurrentQuiet
  <2> QED
    BY <2>1, PastKept DEF Quiet, RoleSound, AtRole
<1>4. CASE Resolve(h)
  <2>1. Quiet /\ past' = past /\ (user.source = "ADMIN_ASSIGNED" \/ handler'[h].pc = "derive")
    BY <1>4, ResolveQuiet
  <2> QED
    BY <2>1, PastKept DEF Quiet, RoleSound, AtRole
<1>5. CASE Derive(h)
  <2>1. /\ Quiet
        /\ \/ Derived(now, user = RoleOf(sub, now))
           \/ past' = past /\ handler'[h].pc = "store"
    BY <1>5, DeriveQuiet
  <2>2. CASE Derived(now, user = RoleOf(sub, now))
    <3>1. PastSound' /\ RoleSound'
      BY <2>1, <2>2, DerivedSound DEF Quiet
    <3> QED
      BY <2>1, <3>1 DEF Quiet
  <2>3. CASE past' = past /\ handler'[h].pc = "store"
    BY <2>1, <2>3, PastKept DEF Quiet, RoleSound, AtRole
  <2> QED
    BY <2>1, <2>2, <2>3
<1>6. CASE Store(h)
  <2>1. RowsTyped' /\ HandlersSound' /\ sub' = sub
    BY <1>6, StoreKeeps
  <2>2. \/ past' = past /\ user'.source = "ADMIN_ASSIGNED"
        \/ Derived(handler[h].at, ~handler[h].stale) /\ (~handler[h].stale => user' = RoleOf(sub, handler[h].at))
    BY <1>6, StoreKeeps
  <2>3. PastSound' /\ RoleSound'
    <3>1. CASE past' = past /\ user'.source = "ADMIN_ASSIGNED"
      BY <2>1, <3>1, PastKept DEF RoleSound
    <3>2. CASE Derived(handler[h].at, ~handler[h].stale) /\ (~handler[h].stale => user' = RoleOf(sub, handler[h].at))
      BY <2>1, <3>2, DerivedSound
    <3> QED
      BY <2>2, <3>1, <3>2
  <2> QED
    BY <2>1, <2>3
<1>7. ASSUME NEW again \in BOOLEAN, Fail(h, again) PROVE Inv'
  <2>1. Quiet
    BY <1>7, FailQuiet
  <2> DEFINE d == past.drift \/ handler[h].pc \in {"current", "resolve", "derive", "store"}
  <2>2. past' = [past EXCEPT !.drift = d] /\ d \in BOOLEAN /\ handler' = [handler EXCEPT ![h] = Idle]
    BY <1>7 DEF Fail, PastSound, PastShape
  <2>3. past'.drift = d /\ past'.asOf = past.asOf
    BY <2>2 DEF PastSound, PastShape
  <2>4. PastSound'
    BY <2>1, <2>2, PastKept DEF Quiet
  <2>5. \A g \in Handlers \ {h} : handler'[g] = handler[g]
    BY <2>2 DEF HandlersSound
  <2>6. RoleSound'
    BY <2>1, <2>3, <2>5 DEF Quiet, RoleSound, AtRole, PastSound, PastShape
  <2> QED
    BY <2>1, <2>4, <2>6 DEF Quiet
<1> QED
  BY <1>1, <1>2, <1>3, <1>4, <1>5, <1>6, <1>7 DEF Step

LEMMA NextKeepsInv == Inv /\ [Next]_vars => Inv'
<1> SUFFICES ASSUME Inv, [Next]_vars PROVE Inv'
  OBVIOUS
<1> USE DEF Inv
<1>1. CASE Environment
  <2>1. /\ RowsTyped' /\ HandlersSound' /\ sub' = sub /\ past' = past
        /\ \A g \in Handlers : handler'[g].pc = handler[g].pc
        /\ user' = user \/ user'.source = "ADMIN_ASSIGNED"
    BY <1>1, EnvironmentQuiet
  <2>2. RoleSound'
    BY <2>1, RoleKept DEF AtRole
  <2> QED
    BY <2>1, <2>2, PastKept
<1>2. ASSUME NEW h \in Handlers, Request(h) \/ Job(h) PROVE Inv'
  <2>1. Quiet /\ past' = past
    BY <1>2, RequestQuiet, TakeQuiet DEF Job
  <2>2. RoleSound'
    BY <1>2, <2>1, BeginsIdle, RoleKept DEF Quiet
  <2> QED
    BY <2>1, <2>2, PastKept DEF Quiet
<1>3. ASSUME NEW h \in Handlers, Step(h) PROVE Inv'
  BY <1>3, StepKeepsInv
<1>4. CASE UNCHANGED vars
  <2>1. sub' = sub /\ past' = past /\ user' = user /\ handler' = handler /\ now' = now /\ events' = events
    BY <1>4 DEF vars
  <2>2. RowsTyped' /\ HandlersSound'
    BY <2>1, RowsTypedKept DEF HandlersSound
  <2> QED
    BY <2>1, <2>2, PastKept, RoleKept
<1> QED
  BY <1>1, <1>2, <1>3, <1>4 DEF Next

LEMMA InitInv == Init => Inv
<1> SUFFICES ASSUME Init PROVE Inv
  OBVIOUS
<1>1. PICK w \in Workspaces, p \in Recurs, kind \in {"new", "arrears"} :
        /\ sub = [v \in Workspaces |-> IF v = w THEN Recurring(w, p, kind) ELSE FreeRow]
        /\ events = IF kind = "new" THEN {Event("subscription.create", w, None, 0)} ELSE {}
        /\ user = [id |-> p, source |-> "SUBSCRIPTION"]
        /\ past = [spell |-> [v \in Workspaces |-> sub[v].since], trials |-> [v \in Workspaces |-> 0],
                   paid |-> [v \in Workspaces |-> IF v = w THEN Price[p] ELSE 0],
                   raced |-> {}, carried |-> {}, asOf |-> 1, drift |-> FALSE]
  BY DEF Init
<1>2. now = 1 /\ handler = [h \in Handlers |-> Idle]
  BY DEF Init
<1>3. p \in Plans /\ Free \in Plans
  BY LifecycleConstants
<1>4. /\ RowType(FreeRow) /\ FreeRow.plan = Free /\ FreeRow.status = "ACTIVE" /\ FreeRow.since = 0
      /\ FreeRow.trialUsed = FALSE /\ FreeRow.cancelAt = 0
  BY <1>3 DEF FreeRow, RowType, Columns
<1> DEFINE s == Recurring(w, p, kind)
<1>5. /\ RowType(s) /\ s.plan = p /\ s.customer = TRUE /\ s.trialUsed = FALSE /\ s.cancelAt = 0
      /\ s.status = IF kind = "arrears" THEN "PAST_DUE" ELSE "ACTIVE"
      /\ s.since = IF kind = "arrears" THEN 1 ELSE 0
  BY <1>3 DEF Recurring, FreeRow, RowType, Columns
<1> HIDE DEF s
<1>6. sub[w] = s /\ \A v \in Workspaces \ {w} : sub[v] = FreeRow
  BY <1>1 DEF s
<1>7. RowsTyped
  <2>1. \A e \in events : EventType(e)
    <3>1. \A e \in events : e = Event("subscription.create", w, None, 0)
      BY <1>1
    <3>2. Event("subscription.create", w, None, 0).type = "subscription.create"
      BY DEF Event
    <3> QED
      BY <3>1, <3>2 DEF EventType, EventTypes
  <2>2. sub = [v \in Workspaces |-> sub[v]] /\ \A v \in Workspaces : RowType(sub[v])
    BY <1>1, <1>4, <1>5, <1>6
  <2> QED
    BY <1>2, <2>1, <2>2 DEF RowsTyped
<1>8. HandlersSound
  BY <1>2, IdleIs DEF HandlersSound
<1>9. PastSound
  <2>1. PastShape
    BY <1>1 DEF PastShape
  <2>2. /\ \A v \in Workspaces : past.spell[v] = sub[v].since /\ past.trials[v] = 0
        /\ past.raced = {} /\ past.carried = {}
    BY <1>1
  <2>3. RowSound(w)
    BY <1>5, <1>6, <2>2 DEF RowSound
  <2>4. \A v \in Workspaces \ {w} : RowSound(v)
    BY <1>4, <1>6, <2>2 DEF RowSound
  <2> QED
    BY <2>1, <2>3, <2>4 DEF PastSound
<1>10. RoleSound
  <2>1. past.asOf = 1 /\ user.id = p
    BY <1>1
  <2>2. OnPlan(s, 1)
    BY <1>5, LifecycleConstants DEF OnPlan, EffectiveStatus
  <2>3. p \in HeldOf(sub, 1)
    BY <1>5, <1>6, <2>2 DEF HeldOf
  <2>4. \A q \in HeldOf(sub, 1) : q \in {p, Free}
    BY <1>4, <1>5, <1>6 DEF HeldOf
  <2>5. Tier[p] >= Tier[p] /\ Tier[p] >= Tier[Free]
    BY <1>3, LifecycleConstants
  <2>6. Matches(user, sub, 1)
    BY <2>1, <2>3, <2>4, <2>5 DEF Matches
  <2> QED
    BY <2>1, <2>6 DEF RoleSound
<1> QED
  BY <1>7, <1>8, <1>9, <1>10 DEF Inv

LEMMA AlwaysInv == Spec => []Inv
BY InitInv, NextKeepsInv, PTL DEF Spec

-----------------------------------------------------------------------------
(***************************************************************************)
(* The rules.                                                              *)
(***************************************************************************)
\* For any workspaces and handlers, the grace period counts from the failure that began the
\* spell of arrears (handleInvoicePaymentFailed), with the exceptions the property names.
THEOREM GraceCounts == Spec => []GraceFromFirstFailure
<1>1. Inv => GraceFromFirstFailure
  BY DEF Inv, PastSound, RowSound, GraceFromFirstFailure
<1> QED
  BY <1>1, AlwaysInv, PTL

\* For any workspaces, plans and number of requests, trialUsed remembers the one trial a
\* workspace is given, unless two writes of its row overlapped.
THEOREM TrialGivenOnce == Spec => []OneTrial
<1>1. Inv => OneTrial
  <2> SUFFICES ASSUME Inv, NEW w \in Workspaces \ past.raced
               PROVE  past.trials[w] <= 1 /\ (past.trials[w] = 1 <=> sub[w].trialUsed)
    BY DEF OneTrial
  <2>1. past.trials[w] = IF sub[w].trialUsed THEN 1 ELSE 0
    BY DEF Inv, PastSound, RowSound
  <2> QED
    BY <2>1
<1> QED
  BY <1>1, AlwaysInv, PTL

\* For any plans and tiers, the stored role is that of the highest plan in effect at the
\* last synchronisation (syncStoredRole), with the exceptions the property names.
THEOREM RoleIsOfPlans == Spec => []RoleFollowsPlans
<1>1. Inv => RoleFollowsPlans
  <2> SUFFICES ASSUME Inv, \A h \in Handlers : handler[h].pc = "idle", ~past.drift, user.source # "ADMIN_ASSIGNED"
               PROVE  /\ \A p \in Held(past.asOf) : Tier[user.id] >= Tier[p]
                      /\ user.id \in Held(past.asOf) \cup {Free}
    BY DEF RoleFollowsPlans
  <2>1. Matches(user, sub, past.asOf)
    BY DEF Inv, RoleSound, AtRole
  <2> QED
    BY <2>1, RoleIsOf DEF Matches
<1> QED
  BY <1>1, AlwaysInv, PTL

\* For any number of handlers, only a synchronisation that had read the user before the
\* assignment, or the administrator, takes an assigned role away (resolveEffectiveRole).
THEOREM AssignmentStands == Spec => AssignedRoleSticks
<1> DEFINE Sticks == \A h \in Handlers :
              /\ user.source = "ADMIN_ASSIGNED" /\ user'.source # "ADMIN_ASSIGNED"
              /\ handler[h].pc = "store" /\ handler'[h].pc = "idle"
              => handler[h].op = "clear" \/ handler[h].stale
<1>1. Inv /\ [Next]_vars => [Sticks]_vars
  <2> SUFFICES ASSUME Inv, Next, NEW h \in Handlers,
                      user.source = "ADMIN_ASSIGNED", user'.source # "ADMIN_ASSIGNED",
                      handler[h].pc = "store", handler'[h].pc = "idle"
               PROVE  handler[h].op = "clear" \/ handler[h].stale
    OBVIOUS
  <2> USE DEF Inv
  <2>1. user' # user
    OBVIOUS
  <2>2. ~Environment
    BY <2>1, EnvironmentQuiet
  <2>3. \A g \in Handlers : ~Request(g) /\ ~Job(g)
    BY <2>1, RequestQuiet, TakeQuiet DEF Job, Quiet
  <2>4. PICK g \in Handlers : Step(g)
    BY <2>2, <2>3 DEF Next
  <2>5. ~CancelRemote(g) /\ ~Current(g) /\ ~Resolve(g) /\ ~Derive(g)
    BY <2>1, CancelRemoteQuiet, CurrentQuiet, ResolveQuiet, DeriveQuiet DEF Quiet
  <2>6. ~Write(g) /\ \A again \in BOOLEAN : ~Fail(g, again)
    BY <2>1, WriteIs, FailQuiet DEF Quiet
  <2>7. Store(g)
    BY <2>4, <2>5, <2>6 DEF Step
  <2>8. user' = handler[g].patch /\ handler' = [Outdated(user') EXCEPT ![g] = Idle] /\ handler[g].pc = "store"
    BY <2>7 DEF Store
  <2>9. CASE h = g
    <3>1. SyncFits(handler[h], user, sub)
      BY DEF HandlersSound, Fits
    <3> QED
      BY <2>8, <2>9, <3>1 DEF SyncFits, HandlersSound, HandlerType
  <2>10. CASE h # g
    <3>1. handler'[h] = Outdated(user')[h]
      BY <2>8, <2>10 DEF Outdated
    <3>2. handler'[h].pc = handler[h].pc
      BY <3>1, OutdatedRests DEF Stays
    <3> QED
      BY <3>2
  <2> QED
    BY <2>9, <2>10
<1> QED
  BY <1>1, AlwaysInv, PTL DEF Spec, AssignedRoleSticks
-----------------------------------------------------------------------------
(***************************************************************************)
(* What was paid for.  ActiveWasPaid is false, because of trials; here is  *)
(* that nothing else breaks it, not even writes from rows read too early:  *)
(* what a workspace has paid and its trials only grow, so a plan that was  *)
(* covered when a move was decided is still covered when it is written.    *)
(***************************************************************************)
\* A plan about to be written is paid for by the write, is on trial, or is no dearer than
\* what has been paid, unless a trial came before.
Covered(r, p) ==
    r.pc \in {"cancelRemote", "write"} =>
        \/ r.op \in {"invoice paid", "charge.success"}
        \/ r.op # "move" /\ "plan" \notin DOMAIN r.patch
        \/ /\ r.op = "move" /\ "plan" \in DOMAIN r.patch
           /\ \/ r.patch.status = "TRIALING" /\ TrialDays[r.patch.plan] > 0
              \/ /\ r.patch.status # "TRIALING"
                 /\ p.trials[r.w] = 0 => p.paid[r.w] >= Price[r.patch.plan]

Untried(w) == past.trials[w] = 0 => past.paid[w] >= Price[sub[w].plan]

PaidSound ==
    /\ past.paid \in [Workspaces -> Nat] /\ past.trials \in [Workspaces -> Nat]
    /\ \A w \in Workspaces : past.trials[w] > 0 => \E p \in Plans : TrialDays[p] > 0
    /\ \A w \in Workspaces : Untried(w)
    /\ \A h \in Handlers : Covered(handler[h], past)

\* A handler that begins nothing new, while what was paid and the trials only grow.
LEMMA CoveredStays ==
    ASSUME NEW r, NEW q, NEW p, NEW n, Covered(r, p),
           q.pc \in {"cancelRemote", "write"} => r.pc \in {"cancelRemote", "write"},
           q.pc \in {"cancelRemote", "write"} => q.op = r.op /\ q.w = r.w /\ q.patch = r.patch,
           r.pc \in {"cancelRemote", "write"} => r.w \in Workspaces /\ PatchType(r.patch),
           \A w \in Workspaces : /\ p.trials[w] \in Nat /\ n.trials[w] \in Nat /\ p.trials[w] <= n.trials[w]
                                 /\ p.paid[w] \in Nat /\ n.paid[w] \in Nat /\ p.paid[w] <= n.paid[w]
    PROVE  Covered(q, n)
<1> SUFFICES ASSUME q.pc \in {"cancelRemote", "write"}, "plan" \in DOMAIN r.patch,
                    r.op = "move", r.patch.status # "TRIALING", p.trials[r.w] = 0 => p.paid[r.w] >= Price[r.patch.plan],
                    n.trials[r.w] = 0
             PROVE  n.paid[r.w] >= Price[r.patch.plan]
  BY DEF Covered
<1>1. r.w \in Workspaces /\ r.patch.plan \in Plans
  BY DEF PatchType
<1>2. Price[r.patch.plan] \in Nat
  BY <1>1, LifecycleConstants
<1> QED
  BY <1>1, <1>2

\* Rows and history stay.
LEMMA PaidKept ==
    ASSUME PaidSound, sub' = sub, past'.trials = past.trials, past'.paid = past.paid,
           \A h \in Handlers : Covered(handler'[h], past)
    PROVE  PaidSound'
<1>1. \A h \in Handlers : Covered(handler'[h], past')
  BY DEF Covered
<1> QED
  BY <1>1 DEF PaidSound, Untried

\* What a handler that is about to write holds.
LEMMA WriterHolds ==
    ASSUME HandlersSound, NEW g \in Handlers, handler[g].pc \in {"cancelRemote", "write"}
    PROVE  handler[g].w \in Workspaces /\ PatchType(handler[g].patch)
BY DEF HandlersSound, Fits, WriterFits

LEMMA CoveredRests ==
    ASSUME HandlersSound, PaidSound, NEW g \in Handlers, NEW q,
           q.pc \in {"cancelRemote", "write"} =>
             /\ handler[g].pc \in {"cancelRemote", "write"}
             /\ q.op = handler[g].op /\ q.w = handler[g].w /\ q.patch = handler[g].patch
    PROVE  Covered(q, past)
<1>1. \A w \in Workspaces : past.trials[w] \in Nat /\ past.paid[w] \in Nat
  BY DEF PaidSound
<1>2. Covered(handler[g], past)
  BY DEF PaidSound
<1> QED
  BY <1>1, <1>2, WriterHolds, CoveredStays

LEMMA MovePaid ==
    ASSUME RowsTyped, PaidSound, NEW w \in Workspaces, NEW p \in Plans, NEW starts \in BOOLEAN,
           IsUpgrade(sub[w], p) => TrialEligible(sub[w], p),
           NEW q, q.op = "move", q.w = w, q.patch = MovePatch(sub[w], p, starts)
    PROVE  Covered(q, past)
<1>1. RowType(sub[w])
  BY DEF RowsTyped
<1>2. /\ q.patch.plan = p /\ "plan" \in DOMAIN q.patch
      /\ q.patch.status = IF TrialEligible(sub[w], p) THEN "TRIALING" ELSE "ACTIVE"
  BY <1>1, MovePatchIs
<1>3. CASE TrialEligible(sub[w], p)
  BY <1>2, <1>3 DEF Covered, TrialEligible
<1>4. CASE ~TrialEligible(sub[w], p)
  <2>1. Price[p] \in Nat /\ Price[sub[w].plan] \in Nat /\ past.paid[w] \in Nat
    BY <1>1, LifecycleConstants DEF RowType, PaidSound
  <2>2. Price[p] <= Price[sub[w].plan]
    BY <1>4, <2>1 DEF IsUpgrade
  <2>3. past.trials[w] = 0 => past.paid[w] >= Price[p]
    BY <2>1, <2>2 DEF PaidSound, Untried
  <2> QED
    BY <1>2, <1>4, <2>3 DEF Covered
<1> QED
  BY <1>3, <1>4

LEMMA RequestPaid ==
    ASSUME RowsTyped, HandlersSound, PaidSound, NEW h \in Handlers, Request(h)
    PROVE  PaidSound'
<1>1. Quiet /\ past' = past
  BY RequestQuiet
<1>2. PICK q : handler' = [handler EXCEPT ![h] = q] /\ Covered(q, past)
  <2>1. ASSUME NEW op, NEW w, NEW patch, NEW code, Begin(h, op, w, patch, code),
               \A q : q.op = op /\ q.w = w /\ q.patch = patch => Covered(q, past)
        PROVE  \E q : handler' = [handler EXCEPT ![h] = q] /\ Covered(q, past)
    <3> DEFINE q == [Idle EXCEPT !.pc = IF code = None THEN "write" ELSE "cancelRemote",
                                 !.op = op, !.w = w, !.patch = patch, !.code = code]
    <3>1. handler' = [handler EXCEPT ![h] = q]
      BY <2>1 DEF Begin
    <3>2. q.op = op /\ q.w = w /\ q.patch = patch
      BY DEF Idle
    <3> HIDE DEF q
    <3> QED
      BY <2>1, <3>1, <3>2
  <2>2. ASSUME NEW w \in Workspaces, NEW p \in Plans, NEW starts \in BOOLEAN, Move(h, w, p, starts)
        PROVE  \E q : handler' = [handler EXCEPT ![h] = q] /\ Covered(q, past)
    <3> DEFINE m == MovePatch(sub[w], p, starts)
    <3>1. PICK c : Begin(h, "move", w, m, c)
      BY <2>2 DEF Move
    <3>2. IsUpgrade(sub[w], p) => TrialEligible(sub[w], p)
      BY <2>2 DEF Move
    <3>3. \A q : q.op = "move" /\ q.w = w /\ q.patch = m => Covered(q, past)
      BY <3>2, MovePaid
    <3> HIDE DEF m
    <3> QED
      BY <2>1, <3>1, <3>3
  <2>3. ASSUME NEW w \in Workspaces, Cancel(h, w) \/ Reactivate(h, w) \/ \E t \in {now, now + 1} : ExtendTrial(h, w, t)
        PROVE  \E q : handler' = [handler EXCEPT ![h] = q] /\ Covered(q, past)
    <3>1. PICK op, patch, c : Begin(h, op, w, patch, c) /\ op # "move" /\ "plan" \notin DOMAIN patch
      <4>1. CASE Cancel(h, w)
        <5>1. PICK t, c : Begin(h, "cancel", w, [cancelAt |-> t], c)
          BY <4>1 DEF Cancel
        <5> QED
          BY <5>1
      <4>2. CASE Reactivate(h, w)
        BY <4>2 DEF Reactivate
      <4>3. ASSUME NEW t, ExtendTrial(h, w, t)
            PROVE  \E op, patch, c : Begin(h, op, w, patch, c) /\ op # "move" /\ "plan" \notin DOMAIN patch
        BY <4>3 DEF ExtendTrial
      <4> QED
        BY <2>3, <4>1, <4>2, <4>3
    <3>2. \A q : q.op = op /\ q.patch = patch => Covered(q, past)
      BY <3>1 DEF Covered
    <3> QED
      BY <2>1, <3>1, <3>2
  <2>4. CASE ClearManualRole(h)
    <3> DEFINE q == [Idle EXCEPT !.pc = "derive", !.op = "clear"]
    <3>1. handler' = [handler EXCEPT ![h] = q] /\ q.pc = "derive"
      BY <2>4 DEF ClearManualRole, Idle
    <3> QED
      BY <3>1 DEF Covered
  <2> QED
    BY <2>2, <2>3, <2>4 DEF Request
<1>3. \A g \in Handlers : Covered(handler'[g], past)
  BY <1>2 DEF PaidSound, HandlersSound
<1> QED
  BY <1>1, <1>3, PaidKept DEF Quiet

LEMMA JobPaid ==
    ASSUME RowsTyped, HandlersSound, PaidSound, NEW h \in Handlers, Job(h)
    PROVE  PaidSound'
<1>1. PICK e \in events, v \in Workspaces : Take(h, e, v)
  BY DEF Job
<1>2. Quiet /\ past' = past
  BY <1>1, TakeQuiet
<1> DEFINE p == EventPatch(e, sub[v])
           q == [Idle EXCEPT !.pc = "write", !.op = e.type, !.event = e, !.w = v, !.patch = p, !.at = now]
<1>3. handler' = [handler EXCEPT ![h] = q] /\ q.op = e.type /\ q.patch = p
  BY <1>1 DEF Take, Idle
<1>4. \/ e.type \in {"invoice paid", "charge.success"}
      \/ e.type # "move" /\ "plan" \notin DOMAIN p
  <2>1. EventType(e)
    BY DEF RowsTyped
  <2> QED
    BY <2>1 DEF EventType, EventTypes, EventPatch
<1> HIDE DEF p, q
<1>5. Covered(q, past)
  BY <1>3, <1>4 DEF Covered
<1>6. \A g \in Handlers : Covered(handler'[g], past)
  BY <1>3, <1>5 DEF PaidSound, HandlersSound
<1> QED
  BY <1>2, <1>6, PaidKept DEF Quiet

LEMMA EnvironmentPaid ==
    ASSUME RowsTyped, HandlersSound, PaidSound, Environment
    PROVE  PaidSound'
<1>1. sub' = sub /\ past' = past
  BY EnvironmentQuiet
<1>2. handler' = handler \/ \E u : handler' = Outdated(u)
  BY DEF Environment, Tick, PaidMove, ReactivateByCheckout, ChargeFails, ProviderDisables,
         AssignManualRole, Ignore
<1>3. ASSUME NEW u, NEW g \in Handlers PROVE Covered(Outdated(u)[g], past)
  BY OutdatedRests, CoveredRests DEF Stays
<1>4. \A g \in Handlers : Covered(handler'[g], past)
  BY <1>2, <1>3 DEF PaidSound
<1> QED
  BY <1>1, <1>4, PaidKept

\* The row, what it has paid and its trials change together.
LEMMA WritePaid ==
    ASSUME RowsTyped, HandlersSound, PastSound, PaidSound, NEW h \in Handlers, Write(h)
    PROVE  PaidSound'
<1>0. PICK w : w = handler[h].w
  OBVIOUS
<1> DEFINE r == handler[h]  s == sub[w]  n == New(h)
<1>1. /\ w \in Workspaces /\ WriterFits(r, s) /\ RowType(n) /\ sub' = [sub EXCEPT ![w] = n]
      /\ past' = Written(r, w, s, n) /\ r.pc = "write"
  BY <1>0, WriteIs DEF Write
<1>2. RowType(s) /\ PatchType(r.patch)
  BY <1>1 DEF RowsTyped, WriterFits
<1>3. /\ n.plan = IF "plan" \in DOMAIN r.patch THEN r.patch.plan ELSE s.plan
      /\ n.status = IF "status" \in DOMAIN r.patch THEN r.patch.status ELSE s.status
  BY <1>0, <1>2 DEF New, Patched, RowType, Columns
<1>4. Covered(r, past)
  BY DEF PaidSound
<1>5. sub'[w] = n /\ \A v \in Workspaces \ {w} : sub'[v] = sub[v]
  BY <1>1 DEF RowsTyped
<1>6. Price[n.plan] \in Nat /\ Price[s.plan] \in Nat
  BY <1>1, <1>2, LifecycleConstants DEF RowType
<1>7. ASSUME NEW g \in Handlers
      PROVE  handler'[g].pc \in {"cancelRemote", "write"} =>
               /\ handler[g].pc \in {"cancelRemote", "write"}
               /\ handler'[g].op = handler[g].op /\ handler'[g].w = handler[g].w
               /\ handler'[g].patch = handler[g].patch
  <2> DEFINE q == IF Syncs(handler[h].op) THEN [Idle EXCEPT !.pc = "current", !.event = handler[h].event] ELSE Idle
  <2>1. q.pc \in {"current", "idle"}
    BY DEF Idle
  <2>2. handler' = [Overtaken(h, handler[h].w, sub[handler[h].w], New(h)) EXCEPT ![h] = q]
    BY DEF Write, New
  <2> HIDE DEF q
  <2>3. handler'[g] = IF g = h THEN q ELSE Overtaken(h, handler[h].w, sub[handler[h].w], New(h))[g]
    BY <2>2 DEF Overtaken
  <2>4. g # h => handler'[g] \in {handler[g], [handler[g] EXCEPT !.stale = TRUE]}
    BY <2>3 DEF Overtaken
  <2>5. HandlerType(handler[g])
    BY DEF HandlersSound
  <2> QED
    BY <2>1, <2>3, <2>4, <2>5 DEF HandlerType, Fields
<1>8. PastShape /\ past.paid \in [Workspaces -> Nat] /\ past.trials \in [Workspaces -> Nat]
  BY DEF PastSound, PaidSound
<1>9. r.op = "move" => MoveFits(r, s)
  BY <1>1 DEF WriterFits
<1> HIDE DEF n, s, r
<1>10. /\ past'.trials = [past.trials EXCEPT ![w] = IF r.op = "move" /\ n.status = "TRIALING" THEN @ + 1 ELSE @]
       /\ past'.paid = [past.paid EXCEPT ![w] = IF r.op \in {"invoice paid", "charge.success"} /\ Price[n.plan] > @
                                                THEN Price[n.plan] ELSE @]
  BY <1>1, <1>8 DEF Written, PastShape
<1> DEFINE given == IF r.op = "move" /\ n.status = "TRIALING" THEN past.trials[w] + 1 ELSE past.trials[w]
           spent == IF r.op \in {"invoice paid", "charge.success"} /\ Price[n.plan] > past.paid[w]
                   THEN Price[n.plan] ELSE past.paid[w]
<1>11. past.trials[w] \in Nat /\ past.paid[w] \in Nat
  BY <1>1, <1>8
<1>12. /\ given \in Nat /\ past.trials[w] <= given
       /\ r.op = "move" /\ n.status = "TRIALING" => given > 0
       /\ ~(r.op = "move" /\ n.status = "TRIALING") => given = past.trials[w]
  BY <1>11
<1>13. spent \in Nat /\ past.paid[w] <= spent
  <2>1. CASE spent = past.paid[w]
    <3> HIDE DEF spent
    <3> QED
      BY <1>11, <2>1
  <2>2. CASE spent = Price[n.plan] /\ Price[n.plan] > past.paid[w]
    <3> HIDE DEF spent
    <3> QED
      BY <1>6, <1>11, <2>2
  <2> QED
    BY <2>1, <2>2
<1>14. ASSUME r.op \in {"invoice paid", "charge.success"} PROVE Price[n.plan] <= spent
  <2>1. CASE Price[n.plan] > past.paid[w]
    <3>1. spent = Price[n.plan]
      BY <1>14, <2>1
    <3> HIDE DEF spent
    <3> QED
      BY <1>6, <3>1
  <2>2. CASE ~(Price[n.plan] > past.paid[w])
    <3>1. spent = past.paid[w]
      BY <2>2
    <3> HIDE DEF spent
    <3> QED
      BY <1>6, <1>11, <2>2, <3>1
  <2> QED
    BY <2>1, <2>2
<1>15. past'.trials = [past.trials EXCEPT ![w] = given] /\ past'.paid = [past.paid EXCEPT ![w] = spent]
  BY <1>1, <1>8, <1>10
<1> HIDE DEF given, spent
<1>16. /\ past'.trials \in [Workspaces -> Nat] /\ past'.paid \in [Workspaces -> Nat]
       /\ past'.trials[w] = given /\ past'.paid[w] = spent
       /\ \A v \in Workspaces \ {w} : past'.trials[v] = past.trials[v] /\ past'.paid[v] = past.paid[v]
  BY <1>1, <1>8, <1>12, <1>13, <1>15
<1>17. \A v \in Workspaces : /\ past.trials[v] \in Nat /\ past'.trials[v] \in Nat /\ past.trials[v] <= past'.trials[v]
                             /\ past.paid[v] \in Nat /\ past'.paid[v] \in Nat /\ past.paid[v] <= past'.paid[v]
  <2>1. ASSUME NEW v \in Workspaces PROVE past.trials[v] \in Nat /\ past.paid[v] \in Nat
    BY <1>8
  <2> QED
    BY <1>12, <1>16, <1>13, <2>1
<1>18. \A g \in Handlers : Covered(handler'[g], past')
  <2> SUFFICES ASSUME NEW g \in Handlers PROVE Covered(handler'[g], past')
    OBVIOUS
  <2>1. Covered(handler[g], past)
    BY DEF PaidSound
  <2> QED
    BY <1>7, <1>17, <2>1, WriterHolds, CoveredStays
<1>19. /\ given = 0 => spent >= Price[n.plan]
       /\ given > 0 => \E p \in Plans : TrialDays[p] > 0
  <2>1. /\ past.trials[w] = 0 => past.paid[w] >= Price[s.plan]
        /\ past.trials[w] > 0 => \E p \in Plans : TrialDays[p] > 0
    BY <1>1, <1>8 DEF PaidSound, Untried, s
  <2>2. CASE r.op \in {"invoice paid", "charge.success"}
    <3>1. given = past.trials[w]
      BY <1>12, <2>2
    <3>2. spent >= Price[n.plan]
      BY <1>6, <1>13, <1>14, <2>2
    <3> QED
      BY <2>1, <3>1, <3>2
  <2>3. CASE r.op = "move" /\ "plan" \in DOMAIN r.patch
    <3>1. n.plan = r.patch.plan /\ n.status = r.patch.status /\ n.plan \in Plans
      BY <1>1, <1>3, <1>9, <2>3 DEF MoveFits, RowType
    <3>2. r.w = w
      BY <1>0 DEF r
    <3>3. \/ n.status = "TRIALING" /\ TrialDays[n.plan] > 0
          \/ n.status # "TRIALING" /\ (past.trials[w] = 0 => past.paid[w] >= Price[n.plan])
      BY <1>1, <1>4, <2>3, <3>1, <3>2 DEF Covered
    <3>4. CASE n.status = "TRIALING" /\ TrialDays[n.plan] > 0
      BY <1>12, <2>3, <3>1, <3>4
    <3>5. CASE n.status # "TRIALING" /\ (past.trials[w] = 0 => past.paid[w] >= Price[n.plan])
      <4>1. given = past.trials[w]
        BY <1>12, <3>5
      <4>2. given = 0 => spent >= Price[n.plan]
        BY <1>6, <1>11, <1>13, <3>5, <4>1
      <4> QED
        BY <2>1, <4>1, <4>2
    <3> QED
      BY <3>3, <3>4, <3>5
  <2>4. CASE r.op # "move" /\ "plan" \notin DOMAIN r.patch
    <3>1. n.plan = s.plan /\ given = past.trials[w]
      BY <1>3, <1>12, <2>4
    <3>2. given = 0 => spent >= Price[n.plan]
      BY <1>6, <1>11, <1>13, <2>1, <3>1
    <3> QED
      BY <2>1, <3>1, <3>2
  <2>5. \/ r.op \in {"invoice paid", "charge.success"}
        \/ r.op # "move" /\ "plan" \notin DOMAIN r.patch
        \/ r.op = "move" /\ "plan" \in DOMAIN r.patch
    BY <1>1, <1>4 DEF Covered
  <2> QED
    BY <2>2, <2>3, <2>4, <2>5
<1>20. ASSUME NEW v \in Workspaces
       PROVE  Untried(v)' /\ (past'.trials[v] > 0 => \E p \in Plans : TrialDays[p] > 0)
  <2>1. CASE v = w
    BY <1>5, <1>16, <1>19, <2>1 DEF Untried
  <2>2. CASE v # w
    BY <1>5, <1>16, <2>2 DEF Untried, PaidSound
  <2> QED
    BY <2>1, <2>2
<1> QED
  BY <1>16, <1>18, <1>20 DEF PaidSound

LEMMA StepPaid ==
    ASSUME RowsTyped, HandlersSound, PastSound, PaidSound, NEW h \in Handlers, Step(h)
    PROVE  PaidSound'
<1>1. CASE Write(h)
  BY <1>1, WritePaid
<1>2. CASE ~Write(h)
  <2>1. sub' = sub
    BY <1>2 DEF Step, CancelRemote, Current, Resolve, Derive, Store, Fail
  <2>2. past'.trials = past.trials /\ past'.paid = past.paid
    BY <1>2 DEF Step, CancelRemote, Current, Resolve, Derive, Derived, Store, Fail, PastSound, PastShape
  <2>3. ASSUME NEW g \in Handlers PROVE Covered(handler'[g], past)
    <3>1. HandlerType(handler[g])
      BY DEF HandlersSound
    <3>2. CASE CancelRemote(h)
      <4>1. handler'[g] \in {handler[g], [handler[g] EXCEPT !.pc = "write", !.code = None]}
        BY <3>2 DEF CancelRemote, HandlersSound
      <4>2. handler'[g] # handler[g] => handler[g].pc = "cancelRemote"
        BY <3>2 DEF CancelRemote, HandlersSound
      <4> QED
        BY <3>1, <4>1, <4>2, CoveredRests DEF HandlerType, Fields
    <3>3. CASE Store(h)
      <4>1. handler'[g] = IF g = h THEN Idle ELSE Outdated(handler[h].patch)[g]
        BY <3>3 DEF Store, Outdated
      <4> QED
        <5>1. Covered(Idle, past)
          BY IdleIs DEF Covered
        <5>2. Covered(Outdated(handler[h].patch)[g], past)
          BY OutdatedRests, CoveredRests DEF Stays
        <5> QED
          BY <4>1, <5>1, <5>2
    <3>4. CASE Current(h) \/ Resolve(h) \/ Derive(h) \/ \E again \in BOOLEAN : Fail(h, again)
      <4>1. g # h => handler'[g] = handler[g]
        BY <3>4 DEF Current, Resolve, Derive, End, Fail, HandlersSound
      <4>2. handler'[h].pc \notin {"cancelRemote", "write"}
        BY <3>4, IdleIs DEF Current, Resolve, Derive, End, Fail, HandlersSound, HandlerType, Fields
      <4> QED
        BY <4>1, <4>2, CoveredRests
    <3> QED
      BY <1>2, <3>2, <3>3, <3>4 DEF Step
  <2> QED
    BY <2>1, <2>2, <2>3, PaidKept
<1> QED
  BY <1>1, <1>2

LEMMA NextPaid == Inv /\ PaidSound /\ [Next]_vars => PaidSound'
<1> SUFFICES ASSUME Inv, PaidSound, [Next]_vars PROVE PaidSound'
  OBVIOUS
<1>1. CASE UNCHANGED vars
  BY <1>1, PaidKept DEF vars, PaidSound
<1> QED
  BY <1>1, EnvironmentPaid, RequestPaid, JobPaid, StepPaid DEF Inv, Next

LEMMA InitPaid == Init => PaidSound
<1> SUFFICES ASSUME Init PROVE PaidSound
  OBVIOUS
<1>1. PICK w \in Workspaces, p \in Recurs, kind \in {"new", "arrears"} :
        /\ sub = [v \in Workspaces |-> IF v = w THEN Recurring(w, p, kind) ELSE FreeRow]
        /\ past.trials = [v \in Workspaces |-> 0]
        /\ past.paid = [v \in Workspaces |-> IF v = w THEN Price[p] ELSE 0]
  BY DEF Init
<1>2. p \in Plans /\ Free \in Plans /\ Price[p] \in Nat /\ Price[Free] = 0
  BY LifecycleConstants
<1>3. FreeRow.plan = Free /\ Recurring(w, p, kind).plan = p
  BY DEF FreeRow, Recurring
<1>4. \A v \in Workspaces : Untried(v)
  BY <1>1, <1>2, <1>3 DEF Untried
<1>5. \A h \in Handlers : Covered(handler[h], past)
  BY IdleIs DEF Init, Covered
<1> QED
  BY <1>1, <1>2, <1>4, <1>5 DEF PaidSound

LEMMA AlwaysPaid == Spec => []PaidSound
BY InitPaid, NextPaid, AlwaysInv, PTL DEF Spec

\* A workspace that was never given a trial is only on plans it has paid the price of
\* (determinePaymentRequirement), whatever requests, payments and late events overlap.
THEOREM UntriedIsPaid ==
    Spec => [](\A w \in Workspaces : past.trials[w] = 0 => past.paid[w] >= Price[sub[w].plan])
<1>1. PaidSound => \A w \in Workspaces : past.trials[w] = 0 => past.paid[w] >= Price[sub[w].plan]
  BY DEF PaidSound, Untried
<1> QED
  BY <1>1, AlwaysPaid, PTL

\* Where no plan has a trial, billing.md:220 holds: an ACTIVE subscription was paid for.
\* The trials are all there is to the disagreement.
THEOREM PaidWithoutTrials ==
    ASSUME \A p \in Plans : TrialDays[p] = 0
    PROVE  Spec => []ActiveWasPaid
<1>1. PaidSound => ActiveWasPaid
  <2> SUFFICES ASSUME PaidSound, NEW w \in Workspaces PROVE past.paid[w] >= Price[sub[w].plan]
    BY DEF ActiveWasPaid
  <2>1. past.trials[w] \in Nat /\ ~(past.trials[w] > 0)
    BY DEF PaidSound
  <2> QED
    BY <2>1 DEF PaidSound, Untried
<1> QED
  BY <1>1, AlwaysPaid, PTL
=============================================================================
