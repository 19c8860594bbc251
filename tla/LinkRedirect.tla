------------------------------ MODULE LinkRedirect ------------------------------
(***************************************************************************)
(* Resolving a short link: RedirectService.resolve and the two             *)
(* read-through caches in Redis it goes through, LinkCacheService (short   *)
(* code to link) and DomainCacheService (host to custom domain), against   *)
(* the operations of LinksService and DomainsService that change a row and *)
(* then delete its cache key.  Both caches follow one policy, so they are  *)
(* one function over Codes \cup Hosts.                                     *)
(*                                                                         *)
(* Time advances by Tick.  PositiveTTL and NegativeTTL are the EX of the   *)
(* two kinds of entry; Patience is an assumption on the environment, that  *)
(* a request is answered within so many ticks.  expiresAt is one deadline, *)
(* passed or not.  A domain is identified with its host name: renaming one *)
(* (DomainsService.update) is left out, as are UTM values and clicks.      *)
(***************************************************************************)
EXTENDS Integers, FiniteSets

CONSTANTS
    Codes, Hosts, Dests,
    None,          \* no row, no cache entry, no custom domain, the default host
    Missing,       \* the negative cache entry, and the view of a row that is not there
    Requests,      \* redirects in flight
    Editors,       \* API handlers in flight
    PositiveTTL, NegativeTTL, Patience,
    MaxWrites,     \* bound: API operations
    MaxFaults      \* bound: failed Redis calls and dead API handlers

Keys == Codes \cup Hosts

ASSUME RedirectNames ==
    /\ Codes \cap Hosts = {} /\ None \notin Hosts /\ None \notin Keys
    /\ None # Missing

ASSUME RedirectBounds ==
    /\ PositiveTTL \in Nat \ {0} /\ NegativeTTL \in Nat \ {0} /\ Patience \in Nat \ {0}
    /\ MaxWrites \in Nat /\ MaxFaults \in Nat

VARIABLES
    rows,      \* the links and custom domains in Postgres, by code and by host
    cache,     \* Redis
    request,   \* redirects: the next await and the values held across it
    editor,    \* API operations: the next await and the write it makes
    passed,    \* the clock is past the deadline
    writes, faults

vars == <<rows, cache, request, editor, passed, writes, faults>>

LinkStatus == {"ACTIVE", "PAUSED", "ARCHIVED"}
DomainStatus == {"PENDING", "VERIFYING", "VERIFIED", "ACTIVE", "FAILED", "DISABLED"}
Outcomes == Dests \cup {"not_found", "archived", "paused", "expired"}

LinkView == [dest : Dests, status : LinkStatus, active : BOOLEAN, expires : BOOLEAN,
             domain : Hosts \cup {None}]
DomainView == [status : DomainStatus]
ViewsOf(k) == IF k \in Codes THEN LinkView ELSE DomainView
RowType(k) == [deleted : BOOLEAN, view : ViewsOf(k)]

ASSUME NoneIsNoRow == \A k \in Keys : None \notin RowType(k)

\* What findUnique followed by the deletedAt test makes of a key.
Visible(k) == rows[k] # None /\ ~rows[k].deleted
View(k) == IF Visible(k) THEN rows[k].view ELSE Missing

Row(v) == [deleted |-> FALSE, view |-> v]
Serving == [status |-> "ACTIVE"]      \* the only domain status that redirects
NewLink(d, x, h) ==
    [dest |-> d, status |-> "ACTIVE", active |-> TRUE, expires |-> x, domain |-> h]

TTL(v) == IF v = Missing THEN NegativeTTL ELSE PositiveTTL

Idle == [pc |-> "idle", host |-> None, code |-> None, key |-> None, got |-> Missing,
         stale |-> 0, hostStale |-> 0, age |-> 0, outcome |-> "not_found"]
NoEdit == [pc |-> "idle", key |-> None, set |-> Missing]

\* Some links, to d on host h, and active domains.
ExistingRows(live, d, h) ==
    [k \in Keys |-> IF k \notin live THEN None
                    ELSE IF k \in Hosts THEN Row(Serving) ELSE Row(NewLink(d, FALSE, h))]

\* Some rows exist already, and nothing is cached.
Init ==
    /\ \E live \in SUBSET Keys, d \in Dests, h \in Hosts \cup {None} :
         h \in live \cup {None} /\ rows = ExistingRows(live, d, h)
    /\ cache = [k \in Keys |-> None]
    /\ request = [r \in Requests |-> Idle]
    /\ editor = [e \in Editors |-> NoEdit]
    /\ passed = FALSE
    /\ writes = 0
    /\ faults = 0

Fault == faults < MaxFaults /\ faults' = faults + 1

-----------------------------------------------------------------------------
(***************************************************************************)
(* The redirect.  "get": the Redis read of key; "read": the database read; *)
(* "fill": the Redis write of what was read; "answered".                   *)
(***************************************************************************)
InFlight(r) == request[r].pc \in {"get", "read", "fill"}

\* Mutant: a served host is remembered from one request to the next.
ArriveRemembering(r, h, c) ==
    LET q == request[r]
        known == q.pc = "answered" /\ q.host = h /\ h # None /\ q.outcome # "not_found" IN
    /\ q.pc = "idle" \/ known
    /\ request' = [request EXCEPT ![r] = [Idle EXCEPT !.pc = "get", !.host = h, !.code = c,
                                            !.key = IF h = None \/ known THEN c ELSE h,
                                            !.hostStale = IF known THEN q.hostStale ELSE 0]]
    /\ UNCHANGED <<rows, cache, editor, passed, writes, faults>>

Arrive(r, h, c) ==
    /\ request[r].pc = "idle"
    /\ request' = [request EXCEPT ![r] = [Idle EXCEPT !.pc = "get", !.host = h, !.code = c,
                                            !.key = IF h = None THEN c ELSE h]]
    /\ UNCHANGED <<rows, cache, editor, passed, writes, faults>>

\* evaluateState
EvaluateState(v) ==
    CASE v.status = "ARCHIVED" -> "archived"
      [] v.status = "PAUSED" -> "paused"
      [] v.status = "ACTIVE" /\ v.expires /\ passed -> "expired"
      [] v.status = "ACTIVE" /\ ~(v.expires /\ passed) /\ ~v.active -> "not_found"
      [] OTHER -> v.dest

\* Only a link of the custom domain the request came through is served there.
Outcome(q, v) ==
    IF q.key \in Hosts \/ v = Missing \/ (q.host # None /\ v.domain # q.host)
    THEN "not_found" ELSE EvaluateState(v)

\* What the request does with the value v of its key, out of date for s ticks.
Advance(q, v, s) ==
    IF q.key \in Hosts /\ v = Serving
    THEN [q EXCEPT !.pc = "get", !.key = q.code, !.got = Missing, !.stale = 0, !.hostStale = s]
    ELSE [q EXCEPT !.pc = "answered", !.key = None, !.code = None, !.age = 0,
                   !.got = v, !.stale = s, !.outcome = Outcome(q, v)]

\* Mutant: a hit restarts the entry's TTL.
GetHitSliding(r) ==
    LET q == request[r] IN
    /\ q.pc = "get" /\ cache[q.key] # None
    /\ request' = [request EXCEPT ![r] = Advance(q, cache[q.key].value, cache[q.key].stale)]
    /\ cache' = [cache EXCEPT ![q.key].left = TTL(cache[q.key].value)]
    /\ UNCHANGED <<rows, editor, passed, writes, faults>>

GetHit(r) ==
    LET q == request[r] IN
    /\ q.pc = "get" /\ cache[q.key] # None
    /\ request' = [request EXCEPT ![r] = Advance(q, cache[q.key].value, cache[q.key].stale)]
    /\ UNCHANGED <<rows, cache, editor, passed, writes, faults>>

\* A Redis error is a miss.
GetMiss(r) ==
    LET q == request[r] IN
    /\ q.pc = "get"
    /\ \/ cache[q.key] = None /\ UNCHANGED faults
       \/ Fault
    /\ request' = [request EXCEPT ![r].pc = "read"]
    /\ UNCHANGED <<rows, cache, editor, passed, writes>>

ReadRow(r) ==
    LET q == request[r] IN
    /\ q.pc = "read"
    /\ request' = [request EXCEPT ![r] = [q EXCEPT !.pc = "fill", !.got = View(q.key), !.stale = 0]]
    /\ UNCHANGED <<rows, cache, editor, passed, writes, faults>>

\* stale: ticks since the value was last the row's; excused: it was out of date
\* when it was stored, or the deletion that should have removed it did not come.
Entry(k, v, s) == [value |-> v, left |-> TTL(v), stale |-> s, excused |-> v # View(k)]

Fill(r) ==
    LET q == request[r] IN
    /\ q.pc = "fill"
    /\ \/ /\ cache' = [cache EXCEPT ![q.key] = Entry(q.key, q.got, q.stale)]
          /\ UNCHANGED faults
       \/ Fault /\ UNCHANGED cache
    /\ request' = [request EXCEPT ![r] = Advance(q, q.got, q.stale)]
    /\ UNCHANGED <<rows, editor, passed, writes>>

Close(r) ==
    /\ request[r].pc = "answered"
    /\ request' = [request EXCEPT ![r] = Idle]
    /\ UNCHANGED <<rows, cache, editor, passed, writes, faults>>

-----------------------------------------------------------------------------
(***************************************************************************)
(* LinksService and DomainsService: each operation reads and checks the    *)
(* row (Ask...), writes it in a later await, then deletes the cache key.   *)
(***************************************************************************)
Ask(e, label, k, set) ==
    /\ editor[e].pc = "idle"
    /\ writes < MaxWrites
    /\ writes' = writes + 1
    /\ editor' = [editor EXCEPT ![e] = [pc |-> label, key |-> k, set |-> set]]
    /\ UNCHANGED <<rows, cache, request, passed, faults>>

\* findSelectableOrThrow
Selectable(h) == h # None => Visible(h) /\ rows[h].view.status \in {"VERIFIED", "ACTIVE"}

AskCreateLink(e, c) ==
    \E d \in Dests, x \in BOOLEAN, h \in Hosts \cup {None} :
        /\ x => ~passed
        /\ Selectable(h)
        /\ Ask(e, "insert", c, NewLink(d, x, h))

AskCreateDomain(e, h) == Ask(e, "insert", h, [status |-> "PENDING"])

\* UpdateLinkDto: one field of those the redirect reads.
LinkEdits ==
    [{"dest"} -> Dests] \cup [{"expires"} -> BOOLEAN] \cup [{"domain"} -> Hosts \cup {None}]

AskUpdate(e, c) ==
    \E s \in LinkEdits :
        /\ Visible(c)
        /\ "domain" \in DOMAIN s => Selectable(s["domain"])
        /\ "expires" \in DOMAIN s => (s["expires"] => ~passed)
        /\ Ask(e, "edit", c, s)

\* Mutant: pausing and archiving write the status alone.
AskTransitionOfStatus(e, c) ==
    \E s \in LinkStatus :
        /\ Visible(c) /\ rows[c].view.status # s
        /\ Ask(e, "edit", c, [status |-> s])

AskTransition(e, c) ==
    \E s \in LinkStatus :
        /\ Visible(c) /\ rows[c].view.status # s
        /\ Ask(e, "edit", c, [status |-> s, active |-> s = "ACTIVE"])

AskActivate(e, h) ==
    /\ Visible(h) /\ rows[h].view.status \in {"VERIFIED", "DISABLED"}
    /\ Ask(e, "edit", h, [status |-> "ACTIVE"])

AskDisable(e, h) ==
    /\ Visible(h) /\ rows[h].view.status = "ACTIVE"
    /\ Ask(e, "edit", h, [status |-> "DISABLED"])

AskVerify(e, h) == Visible(h) /\ Ask(e, "verify", h, [status |-> "VERIFYING"])

AskDelete(e, k) == Visible(k) /\ Ask(e, "delete", k, Missing)

Merge(v, s) == [f \in DOMAIN v |-> IF f \in DOMAIN s THEN s[f] ELSE v[f]]

\* Prisma's update by id: it does not look at deletedAt again.
Patched(k, s) == [rows[k] EXCEPT !.view = Merge(@, s)]

\* Unlike the other operations, create leaves the cache alone.
Kept(k) == IF cache[k] = None THEN None ELSE [cache[k] EXCEPT !.excused = TRUE]

Insert(e) ==
    LET k == editor[e].key IN
    /\ editor[e].pc = "insert"
    /\ IF rows[k] = None
       THEN /\ rows' = [rows EXCEPT ![k] = Row(editor[e].set)]
            /\ cache' = [cache EXCEPT ![k] = Kept(k)]
       ELSE UNCHANGED <<rows, cache>>       \* P2002: the code or the host is taken
    /\ editor' = [editor EXCEPT ![e] = NoEdit]
    /\ UNCHANGED <<request, passed, writes, faults>>

Write(e, before, set, after) ==
    LET k == editor[e].key IN
    /\ editor[e].pc = before
    /\ rows' = [rows EXCEPT ![k] = Patched(k, set)]
    /\ editor' = [editor EXCEPT ![e].pc = after]
    /\ UNCHANGED <<cache, request, passed, writes, faults>>

\* Mutant: the cache key is not deleted.
UpdateOfRow(e) == Write(e, "edit", editor[e].set, "idle")

Update(e) == Write(e, "edit", editor[e].set, "invalidate")

\* VERIFYING is written first and the cache key deleted only after the DNS check.
StartVerification(e) == Write(e, "verify", editor[e].set, "check")

FinishVerification(e) ==
    \E s \in {"VERIFIED", "FAILED"} : Write(e, "check", [status |-> s], "invalidate")

\* A deleted link is not active; a deleted domain's links are detached, and
\* their cache entries stay.
Deleted(k) == [deleted |-> TRUE,
               view |-> IF k \in Codes THEN Merge(rows[k].view, [active |-> FALSE])
                        ELSE rows[k].view]
Detached(h, c) == rows[c] # None /\ h \in Hosts /\ rows[c].view.domain = h

SoftDelete(e) ==
    LET k == editor[e].key IN
    /\ editor[e].pc = "delete"
    /\ rows' = [j \in Keys |->
                  IF j = k THEN Deleted(k)
                  ELSE IF j \in Codes /\ Detached(k, j) THEN Patched(j, [domain |-> None])
                  ELSE rows[j]]
    /\ cache' = [j \in Keys |-> IF j \in Codes /\ Detached(k, j) THEN Kept(j) ELSE cache[j]]
    /\ editor' = [editor EXCEPT ![e].pc = "invalidate"]
    /\ UNCHANGED <<request, passed, writes, faults>>

Invalidate(e) ==
    LET k == editor[e].key IN
    /\ editor[e].pc = "invalidate"
    /\ \/ cache' = [cache EXCEPT ![k] = None] /\ UNCHANGED faults
       \/ Fault /\ cache' = [cache EXCEPT ![k] = Kept(k)]
    /\ editor' = [editor EXCEPT ![e] = NoEdit]
    /\ UNCHANGED <<rows, request, passed, writes>>

\* Written, and the key not yet deleted.
Owes(e, k) == editor[e].key = k /\ editor[e].pc \in {"check", "invalidate"}

\* The handler dies at an await: what it owes, nobody does.
Die(e) ==
    /\ editor[e].pc # "idle"
    /\ Fault
    /\ cache' = [k \in Keys |-> IF Owes(e, k) THEN Kept(k) ELSE cache[k]]
    /\ editor' = [editor EXCEPT ![e] = NoEdit]
    /\ UNCHANGED <<rows, request, passed, writes>>

-----------------------------------------------------------------------------
Older(k, v, s) == IF v = View(k) THEN 0 ELSE s + 1

AgedEntry(k) ==
    IF cache[k] = None \/ cache[k].left = 1 THEN None
    ELSE [cache[k] EXCEPT !.left = @ - 1, !.stale = Older(k, cache[k].value, @)]

AgedRequest(r) ==
    LET q == request[r] IN
    IF ~InFlight(r) THEN q
    ELSE [q EXCEPT !.age = @ + 1,
                   !.stale = IF q.pc = "fill" THEN Older(q.key, q.got, @) ELSE 0,
                   !.hostStale = IF q.host = None \/ q.key = q.host THEN 0
                                 ELSE Older(q.host, Serving, @)]

Tick ==
    /\ \A r \in Requests : InFlight(r) => request[r].age < Patience
    /\ cache' = [k \in Keys |-> AgedEntry(k)]
    /\ request' = [r \in Requests |-> AgedRequest(r)]
    /\ UNCHANGED <<rows, editor, passed, writes, faults>>

\* The clock passes the deadline, once a link has it.
DeadlinePasses ==
    /\ \E c \in Codes : rows[c] # None /\ rows[c].view.expires
    /\ ~passed /\ passed' = TRUE
    /\ UNCHANGED <<rows, cache, request, editor, writes, faults>>

Redirect(r) ==
    \/ \E h \in Hosts \cup {None}, c \in Codes : Arrive(r, h, c)
    \/ GetHit(r) \/ GetMiss(r) \/ ReadRow(r) \/ Fill(r) \/ Close(r)

Edit(e) ==
    \/ \E c \in Codes : AskCreateLink(e, c) \/ AskUpdate(e, c) \/ AskTransition(e, c)
    \/ \E h \in Hosts : AskCreateDomain(e, h) \/ AskActivate(e, h)
                        \/ AskDisable(e, h) \/ AskVerify(e, h)
    \/ \E k \in Keys : AskDelete(e, k)
    \/ Insert(e) \/ Update(e) \/ StartVerification(e) \/ FinishVerification(e)
    \/ SoftDelete(e) \/ Invalidate(e) \/ Die(e)

Next ==
    \/ \E r \in Requests : Redirect(r)
    \/ \E e \in Editors : Edit(e)
    \/ Tick \/ DeadlinePasses

Spec == Init /\ [][Next]_vars

-----------------------------------------------------------------------------
Readings(k) == ViewsOf(k) \cup {Missing}

EntryType(k) == [value : Readings(k), left : Nat \ {0}, stale : Nat, excused : BOOLEAN]

RequestType ==
    [pc : {"idle", "get", "read", "fill", "answered"}, host : Hosts \cup {None},
     code : Codes \cup {None}, key : Keys \cup {None},
     got : LinkView \cup DomainView \cup {Missing}, stale : Nat, hostStale : Nat,
     age : Nat, outcome : Outcomes]

RequestOK(q) ==
    /\ q \in RequestType
    /\ q.pc \in {"get", "read", "fill"} =>
         q.code \in Codes /\ q.key \in ({q.code, q.host} \cap Keys)
    /\ q.pc = "fill" => q.got \in Readings(q.key)

NewLinks == {NewLink(d, x, h) : d \in Dests, x \in BOOLEAN, h \in Hosts \cup {None}}
Edits(k) == IF k \in Codes
            THEN LinkEdits \cup {[status |-> s, active |-> s = "ACTIVE"] : s \in LinkStatus}
            ELSE DomainView
Inserts(k) == IF k \in Codes THEN NewLinks ELSE DomainView

EditorOK(d) ==
    \/ d = NoEdit
    \/ \E k \in Keys :
         \/ d \in [pc : {"insert"}, key : {k}, set : Inserts(k)]
         \/ /\ rows[k] \in RowType(k)
            /\ \/ d \in [pc : {"edit"}, key : {k}, set : Edits(k)]
               \/ d \in [pc : {"delete"}, key : {k}, set : {Missing}]
               \/ k \in Hosts /\ d \in [pc : {"verify", "check"}, key : {k}, set : DomainView]
         \/ d \in [pc : {"invalidate"}, key : {k}, set : Edits(k) \cup {Missing}]

RowsOK ==
    /\ DOMAIN rows = Keys
    /\ \A k \in Keys : rows[k] = None \/ rows[k] \in RowType(k)
FlagsAgree ==
    \A c \in Codes : Visible(c) => (rows[c].view.active <=> rows[c].view.status = "ACTIVE")
CacheOK ==
    /\ DOMAIN cache = Keys
    /\ \A k \in Keys : cache[k] = None \/ cache[k] \in EntryType(k)
RequestsOK == DOMAIN request = Requests /\ \A r \in Requests : RequestOK(request[r])
EditorsOK == DOMAIN editor = Editors /\ \A e \in Editors : EditorOK(editor[e])

\* Rows, cache entries and handlers hold what their code can put there: a key's
\* row and entry are of its own kind, an operation writes to a row that exists,
\* and a link that can be read has isActive exactly when it is ACTIVE ("isActive
\* should already be false whenever status isn't ACTIVE", redirect.service.ts).
TypeOK ==
    /\ RowsOK /\ FlagsAgree /\ CacheOK /\ RequestsOK /\ EditorsOK
    /\ passed \in BOOLEAN /\ writes \in Nat /\ faults \in Nat

\* An entry of Redis has been out of date for no longer than a request may take
\* plus the time since it was stored, and never outlives its EX: whatever
\* deletions were lost and whichever fills were late, the cache forgets
\* (LinkCacheService.set, setNotFound; "so there is exactly one place that knows
\* the cache key format and TTL policy").
CacheFresh ==
    \A k \in Keys : cache[k] # None =>
        /\ cache[k].left <= TTL(cache[k].value)
        /\ cache[k].stale <= Patience + TTL(cache[k].value) - cache[k].left

\* An answer rests on a copy of the link, or on a refusal of the host, that was
\* the row's at most a TTL (the short one for "not found") and a request ago, and
\* on a host that served at most one more request ago: neither a lost deletion
\* nor two caches read one after the other make an older answer.
AnswersAreRecent ==
    \A r \in Requests : request[r].pc = "answered" =>
        /\ request[r].stale < Patience + TTL(request[r].got)
        /\ request[r].hostStale < 2 * Patience + TTL(Serving)

\* An entry that was right when stored is out of date only while an operation
\* still owes its deletion.  The exceptions carry their mark: a fill that stored
\* what it read before a write, a deletion that failed, a create, a link detached
\* with its domain.
StaleOnlyIfExcused ==
    \A k \in Keys :
        cache[k] # None /\ cache[k].value # View(k) =>
            cache[k].excused \/ \E e \in Editors : Owes(e, k)
=============================================================================
