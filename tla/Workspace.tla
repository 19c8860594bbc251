------------------------------- MODULE Workspace -------------------------------
(***************************************************************************)
(* The rows a workspace owns and the API requests that change them: its    *)
(* members (WorkspacesService), custom domains (DomainsService), QR codes  *)
(* (QrCodesService) and campaigns (CampaignsService), under the limits of  *)
(* its plan (BillingUsageService).  Every request follows one pattern:     *)
(* WorkspaceRolesGuard and a read, checks on what was read, at most one    *)
(* more read (a count), then a write by id that looks at nothing again.    *)
(* Rules about several rows live in those checks, so two requests that     *)
(* overlap can break them.                                                 *)
(*                                                                         *)
(* dirty and excess are history: they record the writes a version check    *)
(* would have refused, those of a request whose rows somebody else has     *)
(* changed since it read them.  The invariants say that such a write is    *)
(* the only way to break a rule, and which rule it breaks.                 *)
(*                                                                         *)
(* A colour, date, name or user is one of a small set; size, margin, name  *)
(* and UTM fields, audit rows and events are left out.  Cache keys and the *)
(* links of a domain are in LinkRedirect.                                  *)
(***************************************************************************)
EXTENDS Integers, FiniteSets, Sequences

CONSTANTS
    Users, Founder, Partner,   \* those there from the start among the users
    Names, Home, Spare,        \* the same for host names
    Colours, Black, White,     \* QR_DEFAULTS among the colours
    None,          \* no row, no date, nothing read
    Dates,         \* a range of integers
    Limit,         \* PlanLimit.value by kind: a number, or None for unlimited
    Requests,      \* API requests in flight
    MaxOps         \* bound: requests

Kinds == {"member", "domain", "qr", "campaign"}

ASSUME WorkspaceConstants ==
    /\ Limit \in [Kinds -> Nat \cup {None}] /\ Dates \subseteq Nat
    /\ None \notin Dates \cup Nat /\ None # "overtaken"
    \* The plan admits the rows of Init.
    /\ \A k \in Kinds : Limit[k] # None => Limit[k] >= IF k \in {"member", "domain"} THEN 2 ELSE 1
    /\ MaxOps \in Nat /\ {Founder, Partner} \subseteq Users /\ Founder # Partner
    /\ {Home, Spare} \subseteq Names /\ Home # Spare
    /\ {Black, White} \subseteq Colours /\ Black # White

VARIABLES
    rows,      \* the four tables: by kind, the rows in order of creation
    handler,   \* requests: the next await and the values held across it
    dirty,     \* history: what a stale write has touched
    excess,    \* history: creations, by kind, that relied on a stale count
    ops

vars == <<rows, handler, dirty, excess, ops>>

WorkspaceRole == {"OWNER", "ADMIN", "MEMBER", "VIEWER"}
DomainStatus == {"PENDING", "VERIFYING", "VERIFIED", "ACTIVE", "FAILED", "DISABLED"}
CampaignStatus == {"DRAFT", "ACTIVE", "PAUSED", "ARCHIVED"}

Member == [user : Users, role : WorkspaceRole]
\* proven: the name the last successful DNS check was about.
Domain == [name : Names, status : DomainStatus, primary : BOOLEAN, deleted : BOOLEAN,
           proven : Names \cup {None}]
Qr == [fg : Colours, bg : Colours, deleted : BOOLEAN]
Campaign == [status : CampaignStatus, start : Dates \cup {None}, end : Dates \cup {None},
             deleted : BOOLEAN]
Table == [member |-> Member, domain |-> Domain, qr |-> Qr, campaign |-> Campaign]

\* In dirty, row 0 of a table stands for the rule about all its rows.
TheOwners == <<"member", 0>>
ThePrimary == <<"domain", 0>>

Idle == [pc |-> "idle", kind |-> None, id |-> 0, row |-> None, patch |-> None,
         look |-> "row", seen |-> None, targets |-> {}, held |-> {}]

-----------------------------------------------------------------------------
(***************************************************************************)
(* Reads.                                                                  *)
(***************************************************************************)
Ids(k) == DOMAIN rows[k]
Present(k) == {i \in Ids(k) : rows[k][i] # None}
\* findByIdOrThrow, or findUnique for a member, which is deleted for good.
Live(k) == {i \in Present(k) : k = "member" \/ ~rows[k][i].deleted}

\* usageFor
Usage(k) == Cardinality(Live(k))
Owners == {i \in Present("member") : rows["member"][i].role = "OWNER"}
\* updateMany's where: a soft delete clears isPrimary, so it need not look at deletedAt.
Primaries == {i \in Present("domain") : rows["domain"][i].primary}

Rank == [OWNER |-> 3, ADMIN |-> 2, MEMBER |-> 1, VIEWER |-> 0]
\* Somebody can get past the guard of a route for this role.
Authorized(role) == \E i \in Present("member") : Rank[rows["member"][i].role] >= Rank[role]

\* Mutant: the member about to leave counts as an owner who stays.
OtherOwnersAll(i) == Owners

OtherOwners(i) == Owners \ {i}

\* What a request that looks at more than its row would see now.
Sees(h) ==
    CASE h.look = "usage" -> Usage(h.kind)
      [] h.look = "owners" -> OtherOwners(h.id)
      [] OTHER -> None

\* Somebody has changed, since, what the request read.
Stale(h) == (h.id # 0 /\ rows[h.kind][h.id] # h.row) \/ Sees(h) # h.seen

\* validateDateRange
InOrder(s, e) == (s # None /\ e # None) => s <= e

-----------------------------------------------------------------------------
(***************************************************************************)
(* A workspace in use: two owners, a served primary domain and a verified *)
(* one, a QR code and a running campaign.                                  *)
(***************************************************************************)
Init ==
    /\ rows = [member |-> <<[user |-> Founder, role |-> "OWNER"], [user |-> Partner, role |-> "OWNER"]>>,
               domain |-> <<[name |-> Home, status |-> "ACTIVE", primary |-> TRUE,
                             deleted |-> FALSE, proven |-> Home],
                            [name |-> Spare, status |-> "VERIFIED", primary |-> FALSE,
                             deleted |-> FALSE, proven |-> Spare]>>,
               qr |-> <<[fg |-> Black, bg |-> White, deleted |-> FALSE]>>,
               campaign |-> <<[status |-> "ACTIVE", start |-> None, end |-> None,
                               deleted |-> FALSE]>>]
    /\ handler = [r \in Requests |-> Idle]
    /\ dirty = {}
    /\ excess = [k \in Kinds |-> 0]
    /\ ops = 0

\* A request may still arrive here.
Free == {r \in Requests : handler[r].pc = "idle" /\ ops < MaxOps}

\* A request arrives, is authorized, and does its first read.
Begin(r, role, h) ==
    /\ r \in Free
    /\ Authorized(role)
    /\ handler' = [handler EXCEPT ![r] = h]
    /\ ops' = ops + 1
    /\ UNCHANGED <<rows, dirty, excess>>

Creating(k, row) == [Idle EXCEPT !.pc = "count", !.kind = k, !.patch = row, !.look = "usage"]

\* A change of row i of kind k, which goes on at pc.
Changing(k, i, patch, pc) ==
    [Idle EXCEPT !.pc = pc, !.kind = k, !.id = i, !.row = rows[k][i], !.patch = patch]

Throw(r) == handler' = [handler EXCEPT ![r] = Idle]

Patched(row, patch) == [f \in DOMAIN row |-> IF f \in DOMAIN patch THEN patch[f] ELSE row[f]]

-----------------------------------------------------------------------------
(***************************************************************************)
(* Members.  DTO validation lets any role through, and an admin of the     *)
(* workspace may change any member.                                        *)
(***************************************************************************)
InviteMember(r, u, role) ==
    /\ \A i \in Present("member") : rows["member"][i].user # u
    /\ Begin(r, "ADMIN", Creating("member", [user |-> u, role |-> role]))

\* Taking the role of an owner away is checked against the other owners first.
ChangeMember(i, patch, keepsOwner) ==
    LET check == rows["member"][i].role = "OWNER" /\ ~keepsOwner IN
    [Changing("member", i, patch, IF check THEN "count" ELSE "write")
       EXCEPT !.look = IF check THEN "owners" ELSE "row"]

UpdateMemberRole(r, i, role) ==
    /\ i \in Present("member")
    /\ Begin(r, "ADMIN", ChangeMember(i, [role |-> role], role = "OWNER"))

\* The patch None deletes the row.
RemoveMember(r, i) ==
    /\ i \in Present("member")
    /\ Begin(r, "ADMIN", ChangeMember(i, None, FALSE))

-----------------------------------------------------------------------------
(***************************************************************************)
(* Custom domains.                                                         *)
(***************************************************************************)
CreateDomain(r, n) ==
    Begin(r, "MEMBER", Creating("domain", [name |-> n, status |-> "PENDING", primary |-> FALSE,
                                           deleted |-> FALSE, proven |-> None]))

ChangeDomain(r, i, statuses, patch, pc) ==
    /\ i \in Live("domain") /\ rows["domain"][i].status \in statuses
    /\ Begin(r, "MEMBER", Changing("domain", i, patch, pc))

\* Mutant: a domain that is served may be renamed.
UpdateDomainAlways(r, i, n) == ChangeDomain(r, i, DomainStatus, [name |-> n], "write")

UpdateDomain(r, i, n) ==
    ChangeDomain(r, i, {"PENDING", "FAILED"}, [name |-> n, status |-> "PENDING"], "write")

VerifyDomain(r, i) == ChangeDomain(r, i, DomainStatus, [status |-> "VERIFYING"], "start")
ActivateDomain(r, i) ==
    ChangeDomain(r, i, {"VERIFIED", "DISABLED"}, [status |-> "ACTIVE"], "write")

\* Mutant: a disabled domain stays the primary one.
DisableDomainOnly(r, i) == ChangeDomain(r, i, {"ACTIVE"}, [status |-> "DISABLED"], "write")

DisableDomain(r, i) ==
    ChangeDomain(r, i, {"ACTIVE"}, [status |-> "DISABLED", primary |-> FALSE], "write")
SetPrimary(r, i) == ChangeDomain(r, i, {"VERIFIED", "ACTIVE"}, [primary |-> TRUE], "begin")
DeleteDomain(r, i) ==
    ChangeDomain(r, i, DomainStatus, [deleted |-> TRUE, primary |-> FALSE], "write")

-----------------------------------------------------------------------------
(***************************************************************************)
(* QR codes and campaigns.  An update sends some of the fields; they are   *)
(* merged with the row that was read and validated, and only the fields    *)
(* that were sent are written.                                             *)
(***************************************************************************)
QrPatches ==
    [fg : Colours] \cup [bg : Colours] \cup [fg : Colours, bg : Colours]
DatePatches == [start : Dates] \cup [end : Dates] \cup [start : Dates, end : Dates]

CreateQr(r, fg, bg) ==
    /\ fg # bg
    /\ Begin(r, "MEMBER", Creating("qr", [fg |-> fg, bg |-> bg, deleted |-> FALSE]))

\* Mutant: only what was sent is validated.
UpdateQrUnmerged(r, i, patch) ==
    /\ i \in Live("qr")
    /\ DOMAIN patch = {"fg", "bg"} => patch.fg # patch.bg
    /\ Begin(r, "MEMBER", Changing("qr", i, patch, "write"))

UpdateQr(r, i, patch) ==
    /\ i \in Live("qr")
    /\ LET q == Patched(rows["qr"][i], patch) IN q.fg # q.bg
    /\ Begin(r, "MEMBER", Changing("qr", i, patch, "write"))

CreateCampaign(r, s, e) ==
    /\ InOrder(s, e)
    /\ Begin(r, "MEMBER", Creating("campaign", [status |-> "DRAFT", start |-> s, end |-> e,
                                                deleted |-> FALSE]))

UpdateCampaign(r, i, patch) ==
    /\ i \in Live("campaign")
    /\ LET c == Patched(rows["campaign"][i], patch) IN InOrder(c.start, c.end)
    /\ Begin(r, "MEMBER", Changing("campaign", i, patch, "write"))

\* Mutant: an archived campaign can be activated again.
VALID_TRANSITIONS_Loop ==
    {<<"DRAFT", "ACTIVE">>, <<"ACTIVE", "PAUSED">>, <<"PAUSED", "ACTIVE">>,
     <<"ARCHIVED", "ACTIVE">>} \cup ({"DRAFT", "ACTIVE", "PAUSED"} \X {"ARCHIVED"})

VALID_TRANSITIONS ==
    {<<"DRAFT", "ACTIVE">>, <<"ACTIVE", "PAUSED">>, <<"PAUSED", "ACTIVE">>}
        \cup ({"DRAFT", "ACTIVE", "PAUSED"} \X {"ARCHIVED"})

TransitionStatus(r, i, s) ==
    /\ i \in Live("campaign") /\ <<rows["campaign"][i].status, s>> \in VALID_TRANSITIONS
    /\ Begin(r, "MEMBER", Changing("campaign", i, [status |-> s], "write"))

SoftDelete(r, k, i) ==
    /\ i \in Live(k)
    /\ Begin(r, "MEMBER", Changing(k, i, [deleted |-> TRUE], "write"))

\* The data of every update.
Patch == [member |-> [role : WorkspaceRole],
          domain |-> [name : Names, status : {"PENDING"}] \cup [status : {"VERIFYING", "ACTIVE"}]
                       \cup [status : {"DISABLED"}, primary : {FALSE}] \cup [primary : {TRUE}]
                       \cup [deleted : {TRUE}, primary : {FALSE}],
          qr |-> QrPatches \cup [deleted : {TRUE}],
          campaign |-> DatePatches \cup [status : CampaignStatus] \cup [deleted : {TRUE}]]

ASSUME NoneIsNoRow == \A k \in Kinds : None \notin Table[k] \cup Patch[k]

-----------------------------------------------------------------------------
(***************************************************************************)
(* The second read: assertCanUse before a creation, assertNotLastOwner     *)
(* before an owner is demoted or removed.                                  *)
(***************************************************************************)
\* Mutant: one row more than the plan allows.
WithinLimitOffByOne(k) == Limit[k] = None \/ Usage(k) <= Limit[k]

WithinLimit(k) == Limit[k] = None \/ Usage(k) + 1 <= Limit[k]

Count(r) ==
    LET h == handler[r] IN
    /\ h.pc = "count"
    /\ IF (h.look = "usage" /\ WithinLimit(h.kind)) \/ (h.look = "owners" /\ OtherOwners(h.id) # {})
       THEN handler' = [handler EXCEPT ![r].pc = "write", ![r].seen = Sees(h)]
       ELSE Throw(r)
    /\ UNCHANGED <<rows, dirty, excess, ops>>

(***************************************************************************)
(* The writes.  A row lock is held by a setPrimary transaction only; the   *)
(* other writes are one statement.                                         *)
(***************************************************************************)
Locked(i, r) == \E q \in Requests \ {r} : i \in handler[q].held

\* @@unique([workspaceId, userId]), and normalizedDomain @unique over deleted rows too.
Unique(k, i, row) ==
    \A j \in Present(k) \ {i} : /\ k = "member" => rows[k][j].user # row.user
                                /\ k = "domain" => rows[k][j].name # row.name

\* What a write of row i of kind k by a stale request has touched.
Touches(h) ==
    {<<h.kind, h.id>>} \cup
    (IF h.kind = "member" /\ h.id \in Owners THEN {TheOwners} ELSE {})

Insert(r) ==
    LET h == handler[r] IN
    /\ h.pc = "write" /\ h.id = 0
    /\ IF Unique(h.kind, 0, h.patch)
       THEN /\ rows' = [rows EXCEPT ![h.kind] = Append(@, h.patch)]
            /\ excess' = [excess EXCEPT ![h.kind] = IF Stale(h) THEN @ + 1 ELSE @]
       ELSE UNCHANGED <<rows, excess>>
    /\ Throw(r)
    /\ UNCHANGED <<dirty, ops>>

\* The row after a write by id, None when it is deleted for good.
After(h) == IF h.patch = None THEN None ELSE Patched(rows[h.kind][h.id], h.patch)

Update(r) ==
    LET h == handler[r] IN
    /\ h.pc = "write" /\ h.id # 0
    /\ h.kind = "domain" => ~Locked(h.id, r)
    /\ IF h.id \in Present(h.kind) /\ (h.patch # None => Unique(h.kind, h.id, After(h)))
       THEN /\ rows' = [rows EXCEPT ![h.kind][h.id] = After(h)]
            /\ dirty' = IF Stale(h) THEN dirty \cup Touches(h) ELSE dirty
       ELSE UNCHANGED <<rows, dirty>>
    /\ Throw(r)
    /\ UNCHANGED <<excess, ops>>

\* verify: the row is VERIFYING while the name that was read is looked up.
StartVerification(r) ==
    LET h == handler[r] IN
    /\ h.pc = "start" /\ ~Locked(h.id, r)
    /\ rows' = [rows EXCEPT !["domain"][h.id] = After(h)]
    /\ dirty' = IF Stale(h) THEN dirty \cup Touches(h) ELSE dirty
    /\ handler' = [handler EXCEPT ![r].pc = "dns", ![r].row = [After(h) EXCEPT !.name = h.row.name]]
    /\ UNCHANGED <<excess, ops>>

\* Its outcome is written to the row whatever the row has become.
FinishVerification(r, verified) ==
    LET h == handler[r] IN
    /\ h.pc = "dns" /\ ~Locked(h.id, r)
    /\ rows' = [rows EXCEPT !["domain"][h.id].status = IF verified THEN "VERIFIED" ELSE "FAILED",
                            !["domain"][h.id].proven = IF verified THEN h.row.name ELSE @]
    /\ dirty' = IF Stale(h) THEN dirty \cup Touches(h) ELSE dirty
    /\ Throw(r)
    /\ UNCHANGED <<excess, ops>>

(***************************************************************************)
(* setPrimary's transaction, READ COMMITTED: updateMany picks its rows in  *)
(* the snapshot of the statement, waits for their locks and looks at each  *)
(* again; then the new primary is locked, written, and all is committed.   *)
(***************************************************************************)
\* Mutant: the previous primary is not unset.
BeginTransactionNoUnset(r) ==
    /\ handler[r].pc = "begin"
    /\ handler' = [handler EXCEPT ![r].pc = "unset"]
    /\ UNCHANGED <<rows, dirty, excess, ops>>

BeginTransaction(r) ==
    /\ handler[r].pc = "begin"
    /\ handler' = [handler EXCEPT ![r].pc = "unset", ![r].targets = Primaries \ {handler[r].id}]
    /\ UNCHANGED <<rows, dirty, excess, ops>>

\* Mutant: a row another transaction has written is written over.
UnsetUnlocked(r, i) ==
    /\ handler[r].pc = "unset" /\ i \in handler[r].targets
    /\ handler' = [handler EXCEPT ![r].targets = @ \ {i}, ![r].held = @ \cup {i}]
    /\ UNCHANGED <<rows, dirty, excess, ops>>

Unset(r, i) ==
    /\ handler[r].pc = "unset" /\ i \in handler[r].targets /\ ~Locked(i, r)
    /\ handler' = [handler EXCEPT ![r].targets = @ \ {i},
                                  ![r].held = IF i \in Primaries THEN @ \cup {i} ELSE @]
    /\ UNCHANGED <<rows, dirty, excess, ops>>

\* What another commit of a primary makes of an open transaction; the values it has
\* read can be true again by the time it commits.
Overtaken(h) == IF h.pc = "unset" THEN [h EXCEPT !.seen = "overtaken"] ELSE h

CommitPrimary(r) ==
    LET h == handler[r] IN
    /\ h.pc = "unset" /\ h.targets = {} /\ ~Locked(h.id, r)
    /\ rows' = [rows EXCEPT !["domain"] =
                  [i \in DOMAIN @ |-> IF i \in h.held THEN [@[i] EXCEPT !.primary = FALSE]
                                      ELSE IF i = h.id THEN After(h) ELSE @[i]]]
    /\ dirty' = dirty \cup (IF rows["domain"][h.id] # h.row THEN Touches(h) ELSE {})
                      \cup (IF h.seen # None THEN {ThePrimary} ELSE {})
    /\ handler' = [q \in Requests |-> IF q = r THEN Idle ELSE Overtaken(handler[q])]
    /\ UNCHANGED <<excess, ops>>

\* The process dies, a statement fails or Postgres breaks a deadlock: an open
\* transaction is rolled back, and a write already done stays.
Fail(r) ==
    /\ handler[r].pc # "idle"
    /\ Throw(r)
    /\ UNCHANGED <<rows, dirty, excess, ops>>

-----------------------------------------------------------------------------
MemberRequest(r) ==
    \/ \E u \in Users, role \in WorkspaceRole : InviteMember(r, u, role)
    \/ \E i \in Ids("member"), role \in WorkspaceRole : UpdateMemberRole(r, i, role)
    \/ \E i \in Ids("member") : RemoveMember(r, i)

DomainRequest(r) ==
    \/ \E n \in Names : CreateDomain(r, n)
    \/ \E i \in Ids("domain"), n \in Names : UpdateDomain(r, i, n)
    \/ \E i \in Ids("domain") :
         \/ VerifyDomain(r, i)
         \/ ActivateDomain(r, i)
         \/ DisableDomain(r, i)
         \/ SetPrimary(r, i)
         \/ DeleteDomain(r, i)

QrRequest(r) ==
    \/ \E fg, bg \in Colours : CreateQr(r, fg, bg)
    \/ \E i \in Ids("qr"), patch \in QrPatches : UpdateQr(r, i, patch)
    \/ \E i \in Ids("qr") : SoftDelete(r, "qr", i)

CampaignRequest(r) ==
    \/ \E s, e \in Dates \cup {None} : CreateCampaign(r, s, e)
    \/ \E i \in Ids("campaign"), patch \in DatePatches : UpdateCampaign(r, i, patch)
    \/ \E i \in Ids("campaign"), s \in CampaignStatus : TransitionStatus(r, i, s)
    \/ \E i \in Ids("campaign") : SoftDelete(r, "campaign", i)

Step(r) ==
    \/ Count(r)
    \/ Insert(r)
    \/ Update(r)
    \/ StartVerification(r)
    \/ \E verified \in BOOLEAN : FinishVerification(r, verified)
    \/ BeginTransaction(r)
    \/ \E i \in Ids("domain") : Unset(r, i)
    \/ CommitPrimary(r)
    \/ Fail(r)

Next ==
    \/ \E r \in Free : MemberRequest(r) \/ DomainRequest(r) \/ QrRequest(r) \/ CampaignRequest(r)
    \/ \E r \in Requests : Step(r)

Spec == Init /\ [][Next]_vars

-----------------------------------------------------------------------------
(***************************************************************************)
(* Properties.                                                             *)
(***************************************************************************)

\* Rows are of their kind, usernames and host names are taken once, a request
\* changes a row that was there, and no row is locked by two transactions.
TypeOK ==
    /\ \A k \in Kinds : \A i \in Ids(k) : rows[k][i] \in Table[k] \cup {None}
    /\ \A k \in Kinds : \A i \in Present(k) : Unique(k, i, rows[k][i])
    /\ \A r \in Requests : LET h == handler[r] IN
          h.pc # "idle" =>
            \/ h.id = 0 /\ h.patch \in Table[h.kind]
            \/ h.id \in Ids(h.kind) /\ h.patch \in Patch[h.kind] \cup {None}
    /\ \A r, q \in Requests : r # q => handler[r].held \cap handler[q].held = {}

\* assertNotLastOwner, workspaces.service.ts:309: a workspace always has an owner, unless
\* an owner was demoted or removed by a request whose reading of the owners was out of date.
OwnerRemains == TheOwners \notin dirty => Owners # {}

\* setPrimary's invariant, schema.prisma:516: at most one live domain is primary, unless a
\* setPrimary committed that another had overtaken since its snapshot; and a disabled domain is not
\* primary (domains.service.ts:440), unless it was disabled under a request's feet.
OnePrimary ==
    /\ ThePrimary \notin dirty => Cardinality(Primaries \cap Live("domain")) <= 1
    /\ \A i \in Live("domain") :
          /\ rows["domain"][i].status = "DISABLED" /\ <<"domain", i>> \notin dirty
          => ~rows["domain"][i].primary

\* A domain is only VERIFIED, ACTIVE or DISABLED under the name that a DNS check proved,
\* unless requests on that row overlapped: verify writes the outcome for the name it read.
ServedNameWasProven ==
    \A i \in Ids("domain") :
        LET d == rows["domain"][i] IN
        /\ d.status \in {"VERIFIED", "ACTIVE", "DISABLED"} /\ <<"domain", i>> \notin dirty
        => d.proven = d.name

\* validateQrConfig and validateDateRange: the colours of a QR code differ and a campaign
\* ends after it starts, unless two partial updates were each validated without the other.
MergedRowsValid ==
    /\ \A i \in Ids("qr") : <<"qr", i>> \notin dirty => rows["qr"][i].fg # rows["qr"][i].bg
    /\ \A i \in Ids("campaign") :
         <<"campaign", i>> \notin dirty => InOrder(rows["campaign"][i].start, rows["campaign"][i].end)

\* assertCanUse: what a plan allows is exceeded by at most the creations that relied on a
\* count that was no longer true.
LimitsHold == \A k \in Kinds : Limit[k] # None => Usage(k) <= Limit[k] + excess[k]

\* VALID_TRANSITIONS: an archived campaign stays archived, unless it was archived between
\* the check of another transition and its write.
ArchivedIsFinal ==
    [][\A i \in Ids("campaign") :
          rows["campaign"][i].status = "ARCHIVED" /\ <<"campaign", i>> \notin dirty'
          => rows'["campaign"][i].status = "ARCHIVED"]_vars
=============================================================================
