---------------------------- MODULE WorkspaceProofs ----------------------------
(***************************************************************************)
(* The rules of Workspace for any users, names, colours, dates and limits, *)
(* and any number of requests.  What a request holds across its awaits is  *)
(* consistent in itself (Fit), whatever its row has become; a rule then    *)
(* breaks only where the write is stale.                                   *)
(***************************************************************************)
EXTENDS Workspace, FiniteSetTheorems, SequenceTheorems, TLAPS

AnyRow == Member \cup Domain \cup Qr \cup Campaign \cup {None}
AnyPatch == Patch["member"] \cup Patch["domain"] \cup Patch["qr"] \cup Patch["campaign"]

Labels == {"idle", "count", "write", "start", "dns", "begin", "unset"}
Handlers == [pc : Labels, kind : Kinds \cup {None}, id : Nat, row : AnyRow,
             patch : AnyRow \cup AnyPatch, look : {"row", "usage", "owners"},
             seen : {None, "overtaken"} \cup Nat \cup SUBSET Nat,
             targets : SUBSET Nat, held : SUBSET Nat]

\* The rules a row obeys by itself.
RowOK(k, row) ==
    /\ k = "domain" => /\ row.status \in {"VERIFIED", "ACTIVE", "DISABLED"} => row.proven = row.name
                       /\ row.status = "DISABLED" => ~row.primary
    /\ k = "qr" => row.fg # row.bg
    /\ k = "campaign" => InOrder(row.start, row.end)

\* A creation, which may have counted.
Creator(h) ==
    /\ h.pc \in {"count", "write"} /\ h.kind \in Kinds /\ h.id = 0 /\ h.look = "usage"
    /\ h.patch \in Table[h.kind] /\ RowOK(h.kind, h.patch)
    /\ h.kind = "domain" => ~h.patch.primary
    /\ h.pc = "write" => Limit[h.kind] = None \/ (h.seen \in Nat /\ h.seen + 1 <= Limit[h.kind])

\* A change of a member, which leaves an owner or has seen another.
MemberChange(h) ==
    /\ h.kind = "member" /\ h.patch \in Patch["member"] \cup {None}
    /\ \/ h.pc = "count" /\ h.look = "owners"
       \/ h.pc = "write" /\ h.look = "owners" /\ h.seen # {}
       \/ h.pc = "write" /\ h.look = "row" /\ (h.row.role # "OWNER" \/ h.patch = [role |-> "OWNER"])

DomainChange(h) ==
    /\ h.kind = "domain" /\ h.patch \in Patch["domain"] /\ h.look = "row"
    /\ \/ h.pc = "write" /\ h.patch # [primary |-> TRUE]
       \/ h.pc \in {"start", "dns"} /\ h.patch = [status |-> "VERIFYING"]
       \/ h.pc \in {"begin", "unset"} /\ h.patch = [primary |-> TRUE]

OtherChange(h) ==
    h.kind \in {"qr", "campaign"} /\ h.patch \in Patch[h.kind] /\ h.look = "row" /\ h.pc = "write"

\* The change was checked against the row that was read.
Changer(h) ==
    /\ h.id # 0 /\ h.row \in Table[h.kind]
    /\ MemberChange(h) \/ DomainChange(h) \/ OtherChange(h)
    /\ (RowOK(h.kind, h.row) /\ h.patch # None) => RowOK(h.kind, Patched(h.row, h.patch))
    /\ (h.kind = "campaign" /\ h.row.status = "ARCHIVED") => Patched(h.row, h.patch).status = "ARCHIVED"

Fit(h) == h = Idle \/ Creator(h) \/ Changer(h)

\* Tables that keep their rows, and requests that are about them.
Sound ==
    /\ rows \in [Kinds -> Seq(AnyRow)]
    /\ \A k \in Kinds : \A i \in Ids(k) :
          rows[k][i] \in Table[k] \/ (k = "member" /\ rows[k][i] = None)
    /\ \A k \in Kinds : \A i \in Present(k) : Unique(k, i, rows[k][i])
    /\ handler \in [Requests -> Handlers]
    /\ \A r \in Requests : Fit(handler[r])
    /\ \A r \in Requests : handler[r] # Idle => handler[r].id \in Ids(handler[r].kind) \cup {0}
    /\ \A r, q \in Requests : r # q => handler[r].held \cap handler[q].held = {}
    /\ excess \in [Kinds -> Nat]

-----------------------------------------------------------------------------
LEMMA KindsAre ==
    /\ Table["member"] = Member /\ Table["domain"] = Domain
    /\ Table["qr"] = Qr /\ Table["campaign"] = Campaign
    /\ \A k \in Kinds : k = "member" \/ k = "domain" \/ k = "qr" \/ k = "campaign"
    /\ \A k \in Kinds : Table[k] \subseteq AnyRow /\ Patch[k] \subseteq AnyPatch
    /\ \A k \in Kinds : None \notin Table[k] /\ None \notin Patch[k]
<1>1. /\ Table["member"] = Member /\ Table["domain"] = Domain
      /\ Table["qr"] = Qr /\ Table["campaign"] = Campaign
      /\ \A k \in Kinds : k = "member" \/ k = "domain" \/ k = "qr" \/ k = "campaign"
  BY DEF Table, Kinds
<1> QED
  BY <1>1, NoneIsNoRow DEF AnyRow, AnyPatch

LEMMA PatchesAre ==
    /\ Patch["member"] = [role : WorkspaceRole]
    /\ Patch["domain"] = [name : Names, status : {"PENDING"}] \cup [status : {"VERIFYING", "ACTIVE"}]
                           \cup [status : {"DISABLED"}, primary : {FALSE}] \cup [primary : {TRUE}]
                           \cup [deleted : {TRUE}, primary : {FALSE}]
    /\ Patch["qr"] = QrPatches \cup [deleted : {TRUE}]
    /\ Patch["campaign"] = DatePatches \cup [status : CampaignStatus] \cup [deleted : {TRUE}]
BY DEF Patch

(***************************************************************************)
(* What a patch leaves of a row.                                           *)
(***************************************************************************)
LEMMA PatchedMember ==
    ASSUME NEW row \in Member, NEW patch \in Patch["member"]
    PROVE  /\ Patched(row, patch) \in Member
           /\ Patched(row, patch).user = row.user /\ Patched(row, patch).role = patch.role
BY PatchesAre DEF Patched, Member

LEMMA PatchedDomain ==
    ASSUME NEW row \in Domain, NEW patch \in Patch["domain"]
    PROVE  LET p == Patched(row, patch) IN
           /\ p \in Domain /\ p.proven = row.proven
           /\ p.name = IF "name" \in DOMAIN patch THEN patch.name ELSE row.name
           /\ p.status = IF "status" \in DOMAIN patch THEN patch.status ELSE row.status
           /\ p.primary = IF "primary" \in DOMAIN patch THEN patch.primary ELSE row.primary
           /\ row.deleted => p.deleted
           /\ patch # [primary |-> TRUE] => (p.primary => row.primary)
BY PatchesAre DEF Patched, Domain, DomainStatus

LEMMA PatchedQr ==
    ASSUME NEW row \in Qr, NEW patch \in Patch["qr"]
    PROVE  LET p == Patched(row, patch) IN
           /\ p \in Qr
           /\ row.deleted => p.deleted
           /\ "deleted" \in DOMAIN patch => p.fg = row.fg /\ p.bg = row.bg
BY PatchesAre DEF Patched, Qr, QrPatches

LEMMA PatchedCampaign ==
    ASSUME NEW row \in Campaign, NEW patch \in Patch["campaign"]
    PROVE  LET p == Patched(row, patch) IN
           /\ p \in Campaign
           /\ row.deleted => p.deleted
           /\ p.status = IF "status" \in DOMAIN patch THEN patch.status ELSE row.status
           /\ "deleted" \in DOMAIN patch \/ "status" \in DOMAIN patch => p.start = row.start /\ p.end = row.end
<1>1. CASE patch \in [start : Dates]
  BY <1>1 DEF Patched, Campaign
<1>2. CASE patch \in [end : Dates]
  BY <1>2 DEF Patched, Campaign
<1>3. CASE patch \in [start : Dates, end : Dates]
  BY <1>3 DEF Patched, Campaign
<1>4. CASE patch \in [status : CampaignStatus]
  BY <1>4 DEF Patched, Campaign
<1>5. CASE patch \in [deleted : {TRUE}]
  BY <1>5 DEF Patched, Campaign
<1> QED
  BY <1>1, <1>2, <1>3, <1>4, <1>5, PatchesAre DEF DatePatches

LEMMA PatchedRow ==
    ASSUME NEW k \in Kinds, NEW row \in Table[k], NEW patch \in Patch[k]
    PROVE  /\ Patched(row, patch) \in Table[k] /\ Patched(row, patch) \in AnyRow
           /\ k # "member" => (row.deleted => Patched(row, patch).deleted)
<1>1. CASE k = "member"
  BY <1>1, KindsAre, PatchedMember
<1>2. CASE k = "domain"
  BY <1>2, KindsAre, PatchedDomain
<1>3. CASE k = "qr"
  BY <1>3, KindsAre, PatchedQr
<1>4. CASE k = "campaign"
  BY <1>4, KindsAre, PatchedCampaign
<1> QED
  BY <1>1, <1>2, <1>3, <1>4, KindsAre

(***************************************************************************)
(* One row changes, one is added.                                          *)
(***************************************************************************)
Changes(k, i, row) ==
    /\ rows' \in [Kinds -> Seq(AnyRow)]
    /\ \A j \in Kinds : DOMAIN rows'[j] = Ids(j)
    /\ rows'[k][i] = row
    /\ \A j \in Kinds, x \in Nat : x \in Ids(j) /\ <<j, x>> # <<k, i>> => rows'[j][x] = rows[j][x]

LEMMA RowChanged ==
    ASSUME rows \in [Kinds -> Seq(AnyRow)], NEW k \in Kinds, NEW i \in Ids(k), NEW row \in AnyRow,
           rows' = [rows EXCEPT ![k][i] = row]
    PROVE  Changes(k, i, row)
BY DEF Changes, Ids

Adds(k, row) ==
    /\ rows' \in [Kinds -> Seq(AnyRow)]
    /\ \A j \in Kinds \ {k} : rows'[j] = rows[j]
    /\ DOMAIN rows'[k] = Ids(k) \cup {Len(rows[k]) + 1} /\ Len(rows[k]) + 1 \notin Ids(k)
    /\ rows'[k][Len(rows[k]) + 1] = row
    /\ \A x \in Ids(k) : rows'[k][x] = rows[k][x]

LEMMA RowAdded ==
    ASSUME rows \in [Kinds -> Seq(AnyRow)], NEW k \in Kinds, NEW row \in AnyRow,
           rows' = [rows EXCEPT ![k] = Append(@, row)]
    PROVE  Adds(k, row)
BY DEF Adds, Ids

LEMMA IdsAreNat ==
    ASSUME rows \in [Kinds -> Seq(AnyRow)], NEW k \in Kinds
    PROVE  Ids(k) \subseteq Nat \ {0} /\ Present(k) \subseteq Ids(k) /\ Live(k) \subseteq Present(k)
BY DEF Ids, Present, Live

-----------------------------------------------------------------------------
(***************************************************************************)
(* Every request arrives fit.                                              *)
(***************************************************************************)
Arrives(r, h) ==
    /\ h \in Handlers /\ Fit(h) /\ h # Idle /\ h.id \in Ids(h.kind) \cup {0} /\ h.held = {} /\ h.seen = None
    /\ h.pc # "unset"
    /\ h.pc # "write" \/ h.look = "row"
    /\ handler' = [handler EXCEPT ![r] = h]
    /\ UNCHANGED <<rows, dirty, excess>>

LEMMA CreationArrives ==
    ASSUME Sound, NEW r \in Requests, NEW role, NEW k \in Kinds, NEW row \in Table[k], RowOK(k, row),
           k = "domain" => ~row.primary, Begin(r, role, Creating(k, row))
    PROVE  \E h : Arrives(r, h)
<1> DEFINE h == Creating(k, row)
<1>1. row \in AnyRow /\ None \in AnyRow
  BY KindsAre DEF AnyRow
<1>2. h \in Handlers /\ h.pc = "count" /\ h.kind = k /\ h.id = 0 /\ h.patch = row /\ h.look = "usage"
      /\ h.held = {} /\ h.seen = None
  BY <1>1 DEF Creating, Idle, Handlers, Labels
<1>3. h # Idle
  BY <1>2 DEF Idle
<1>4. Creator(h)
  BY <1>2 DEF Creator
<1> QED
  BY <1>2, <1>3, <1>4 DEF Arrives, Begin, Fit

LEMMA ChangeArrives ==
    ASSUME Sound, NEW r \in Requests, NEW role, NEW k \in Kinds, NEW i \in Live(k), k # "member",
           NEW patch \in Patch[k], NEW pc, Begin(r, role, Changing(k, i, patch, pc)),
           \/ k = "domain" /\ pc = "write" /\ patch # [primary |-> TRUE]
           \/ k = "domain" /\ pc = "start" /\ patch = [status |-> "VERIFYING"]
           \/ k = "domain" /\ pc = "begin" /\ patch = [primary |-> TRUE]
           \/ k \in {"qr", "campaign"} /\ pc = "write",
           RowOK(k, rows[k][i]) => RowOK(k, Patched(rows[k][i], patch)),
           k = "campaign" /\ rows[k][i].status = "ARCHIVED" => Patched(rows[k][i], patch).status = "ARCHIVED"
    PROVE  \E h : Arrives(r, h)
<1> DEFINE h == Changing(k, i, patch, pc)
<1>1. i \in Ids(k) /\ i \in Nat \ {0} /\ rows[k][i] \in Table[k]
  BY IdsAreNat DEF Sound
<1>2. rows[k][i] \in AnyRow /\ patch \in AnyPatch
  BY <1>1, KindsAre
<1>3. h \in Handlers /\ h.pc = pc /\ h.kind = k /\ h.id = i /\ h.row = rows[k][i] /\ h.patch = patch
      /\ h.look = "row" /\ h.held = {} /\ h.seen = None
  BY <1>1, <1>2 DEF Changing, Idle, Handlers, Labels
<1> HIDE DEF h
<1>4. h # Idle
  BY <1>1, <1>3 DEF Idle
<1>5. Changer(h)
  <2>1. DomainChange(h) \/ OtherChange(h)
    BY <1>3 DEF DomainChange, OtherChange
  <2> QED
    BY <1>1, <1>3, <2>1 DEF Changer
<1>6. handler' = [handler EXCEPT ![r] = h] /\ UNCHANGED <<rows, dirty, excess>>
  BY DEF Begin, h
<1>7. pc # "unset"
  OBVIOUS
<1> QED
  BY <1>1, <1>3, <1>4, <1>5, <1>6, <1>7 DEF Arrives, Fit

LEMMA MemberRequestArrives ==
    ASSUME Sound, NEW r \in Requests, MemberRequest(r)
    PROVE  \E h : Arrives(r, h)
<1>1. ASSUME NEW u \in Users, NEW role \in WorkspaceRole, InviteMember(r, u, role) PROVE \E h : Arrives(r, h)
  <2>1. [user |-> u, role |-> role] \in Table["member"] /\ "member" \in Kinds
    BY KindsAre DEF Member, Kinds
  <2>2. RowOK("member", [user |-> u, role |-> role])
    BY DEF RowOK
  <2> QED
    BY <1>1, <2>1, <2>2, CreationArrives DEF InviteMember
<1>2. ASSUME NEW i \in Present("member"), NEW patch \in Patch["member"] \cup {None}, NEW keeps \in BOOLEAN,
             keeps => patch = [role |-> "OWNER"], Begin(r, "ADMIN", ChangeMember(i, patch, keeps))
      PROVE  \E h : Arrives(r, h)
  <2> DEFINE h == ChangeMember(i, patch, keeps)
  <2>1. i \in Ids("member") /\ i \in Nat \ {0} /\ rows["member"][i] \in Table["member"] /\ "member" \in Kinds
    BY IdsAreNat DEF Sound, Present, Kinds
  <2>2. rows["member"][i] \in AnyRow /\ patch \in AnyPatch \cup AnyRow
    BY <2>1, KindsAre DEF AnyRow
  <2>3. /\ h \in Handlers /\ h.kind = "member" /\ h.id = i /\ h.row = rows["member"][i] /\ h.patch = patch
        /\ h.held = {} /\ h.seen = None
        /\ \/ h.pc = "count" /\ h.look = "owners"
           \/ h.pc = "write" /\ h.look = "row" /\ (rows["member"][i].role # "OWNER" \/ keeps)
    BY <2>1, <2>2 DEF ChangeMember, Changing, Idle, Handlers, Labels
  <2> HIDE DEF h
  <2>4. h # Idle
    BY <2>1, <2>3 DEF Idle
  <2>5. Changer(h)
    <3>1. MemberChange(h)
      BY <1>2, <2>3 DEF MemberChange
    <3>2. \A row : RowOK(h.kind, row)
      BY <2>3 DEF RowOK
    <3> QED
      BY <2>1, <2>3, <3>1, <3>2 DEF Changer
  <2>6. handler' = [handler EXCEPT ![r] = h] /\ UNCHANGED <<rows, dirty, excess>>
    BY <1>2 DEF Begin, h
  <2> QED
    BY <2>1, <2>3, <2>4, <2>5, <2>6 DEF Arrives, Fit
<1>3. ASSUME NEW i \in Ids("member"), NEW role \in WorkspaceRole, UpdateMemberRole(r, i, role)
      PROVE  \E h : Arrives(r, h)
  <2>1. i \in Present("member") /\ [role |-> role] \in Patch["member"] /\ (role = "OWNER") \in BOOLEAN
    BY <1>3, PatchesAre DEF UpdateMemberRole
  <2>2. (role = "OWNER") => [role |-> role] = [role |-> "OWNER"]
    OBVIOUS
  <2> QED
    BY <1>2, <1>3, <2>1, <2>2 DEF UpdateMemberRole
<1>4. ASSUME NEW i \in Ids("member"), RemoveMember(r, i) PROVE \E h : Arrives(r, h)
  BY <1>2, <1>4 DEF RemoveMember
<1> QED
  BY <1>1, <1>3, <1>4 DEF MemberRequest

LEMMA DomainRequestArrives ==
    ASSUME Sound, NEW r \in Requests, DomainRequest(r)
    PROVE  \E h : Arrives(r, h)
<1>k. "domain" \in Kinds /\ "domain" # "member"
  BY DEF Kinds
<1>1. ASSUME NEW n \in Names, CreateDomain(r, n) PROVE \E h : Arrives(r, h)
  <2> DEFINE row == [name |-> n, status |-> "PENDING", primary |-> FALSE, deleted |-> FALSE, proven |-> None]
  <2>1. row \in Table["domain"] /\ RowOK("domain", row) /\ ~row.primary
    BY KindsAre DEF Domain, DomainStatus, RowOK
  <2> QED
    BY <1>1, <1>k, <2>1, CreationArrives DEF CreateDomain
<1>2. ASSUME NEW i \in Ids("domain"), NEW statuses, NEW patch \in Patch["domain"], NEW pc,
             ChangeDomain(r, i, statuses, patch, pc),
             \/ pc = "write" /\ patch # [primary |-> TRUE]
             \/ pc = "start" /\ patch = [status |-> "VERIFYING"]
             \/ pc = "begin" /\ patch = [primary |-> TRUE],
             ASSUME NEW row \in Domain, row.status \in statuses, RowOK("domain", row)
             PROVE  RowOK("domain", Patched(row, patch))
      PROVE  \E h : Arrives(r, h)
  <2>1. i \in Live("domain") /\ rows["domain"][i].status \in statuses
        /\ Begin(r, "MEMBER", Changing("domain", i, patch, pc))
    BY <1>2 DEF ChangeDomain
  <2>2. rows["domain"][i] \in Domain
    BY <1>k, KindsAre DEF Sound
  <2>3. RowOK("domain", rows["domain"][i]) => RowOK("domain", Patched(rows["domain"][i], patch))
    BY <1>2, <2>1, <2>2
  <2> QED
    BY <1>2, <1>k, <2>1, <2>3, ChangeArrives
<1>3. ASSUME NEW i \in Ids("domain"), NEW n \in Names, UpdateDomain(r, i, n) PROVE \E h : Arrives(r, h)
  <2> DEFINE patch == [name |-> n, status |-> "PENDING"]
  <2>1. patch \in Patch["domain"] /\ patch # [primary |-> TRUE] /\ patch.status = "PENDING" /\ "status" \in DOMAIN patch
    BY PatchesAre
  <2>2. ASSUME NEW row \in Domain PROVE RowOK("domain", Patched(row, patch))
    BY <2>1, PatchedDomain DEF RowOK
  <2> QED
    BY <1>2, <1>3, <2>1, <2>2 DEF UpdateDomain
<1>4. ASSUME NEW i \in Ids("domain"), VerifyDomain(r, i) PROVE \E h : Arrives(r, h)
  <2>1. [status |-> "VERIFYING"] \in Patch["domain"]
    BY PatchesAre
  <2>2. ASSUME NEW row \in Domain PROVE RowOK("domain", Patched(row, [status |-> "VERIFYING"]))
    BY <2>1, PatchedDomain DEF RowOK
  <2> QED
    BY <1>2, <1>4, <2>1, <2>2 DEF VerifyDomain
<1>5. ASSUME NEW i \in Ids("domain"), ActivateDomain(r, i) PROVE \E h : Arrives(r, h)
  <2>1. [status |-> "ACTIVE"] \in Patch["domain"] /\ [status |-> "ACTIVE"] # [primary |-> TRUE]
    BY PatchesAre
  <2>2. ASSUME NEW row \in Domain, row.status \in {"VERIFIED", "DISABLED"}, RowOK("domain", row)
        PROVE  RowOK("domain", Patched(row, [status |-> "ACTIVE"]))
    BY <2>1, <2>2, PatchedDomain DEF RowOK
  <2> QED
    BY <1>2, <1>5, <2>1, <2>2 DEF ActivateDomain
<1>6. ASSUME NEW i \in Ids("domain"), DisableDomain(r, i) PROVE \E h : Arrives(r, h)
  <2> DEFINE patch == [status |-> "DISABLED", primary |-> FALSE]
  <2>1. patch \in Patch["domain"] /\ patch # [primary |-> TRUE]
        /\ patch.primary = FALSE /\ "primary" \in DOMAIN patch /\ patch.status = "DISABLED" /\ "status" \in DOMAIN patch
    BY PatchesAre
  <2>2. ASSUME NEW row \in Domain, row.status \in {"ACTIVE"}, RowOK("domain", row)
        PROVE  RowOK("domain", Patched(row, patch))
    BY <2>1, <2>2, PatchedDomain DEF RowOK
  <2> QED
    BY <1>2, <1>6, <2>1, <2>2 DEF DisableDomain
<1>7. ASSUME NEW i \in Ids("domain"), SetPrimary(r, i) PROVE \E h : Arrives(r, h)
  <2>1. [primary |-> TRUE] \in Patch["domain"]
    BY PatchesAre
  <2>2. ASSUME NEW row \in Domain, row.status \in {"VERIFIED", "ACTIVE"}, RowOK("domain", row)
        PROVE  RowOK("domain", Patched(row, [primary |-> TRUE]))
    BY <2>1, <2>2, PatchedDomain DEF RowOK
  <2> QED
    BY <1>2, <1>7, <2>1, <2>2 DEF SetPrimary
<1>8. ASSUME NEW i \in Ids("domain"), DeleteDomain(r, i) PROVE \E h : Arrives(r, h)
  <2> DEFINE patch == [deleted |-> TRUE, primary |-> FALSE]
  <2>1. patch \in Patch["domain"] /\ patch # [primary |-> TRUE]
        /\ patch.primary = FALSE /\ "primary" \in DOMAIN patch
        /\ "status" \notin DOMAIN patch /\ "name" \notin DOMAIN patch
    BY PatchesAre
  <2>2. ASSUME NEW row \in Domain, RowOK("domain", row) PROVE RowOK("domain", Patched(row, patch))
    BY <2>1, <2>2, PatchedDomain DEF RowOK
  <2> QED
    BY <1>2, <1>8, <2>1, <2>2 DEF DeleteDomain
<1> QED
  BY <1>1, <1>3, <1>4, <1>5, <1>6, <1>7, <1>8 DEF DomainRequest

LEMMA OtherRequestArrives ==
    ASSUME Sound, NEW r \in Requests, QrRequest(r) \/ CampaignRequest(r)
    PROVE  \E h : Arrives(r, h)
<1>k. "qr" \in Kinds /\ "campaign" \in Kinds /\ "qr" # "member" /\ "campaign" # "member"
  BY DEF Kinds
<1>1. ASSUME NEW fg \in Colours, NEW bg \in Colours, CreateQr(r, fg, bg) PROVE \E h : Arrives(r, h)
  <2> DEFINE row == [fg |-> fg, bg |-> bg, deleted |-> FALSE]
  <2>1. row \in Table["qr"] /\ RowOK("qr", row)
    BY <1>1, KindsAre DEF Qr, RowOK, CreateQr
  <2> QED
    BY <1>1, <1>k, <2>1, CreationArrives DEF CreateQr
<1>2. ASSUME NEW s \in Dates \cup {None}, NEW e \in Dates \cup {None}, CreateCampaign(r, s, e)
      PROVE  \E h : Arrives(r, h)
  <2> DEFINE row == [status |-> "DRAFT", start |-> s, end |-> e, deleted |-> FALSE]
  <2>1. row \in Table["campaign"] /\ RowOK("campaign", row)
    BY <1>2, KindsAre DEF Campaign, CampaignStatus, RowOK, CreateCampaign
  <2> QED
    BY <1>2, <1>k, <2>1, CreationArrives DEF CreateCampaign
<1>3. ASSUME NEW i \in Ids("qr"), NEW patch \in QrPatches, UpdateQr(r, i, patch) PROVE \E h : Arrives(r, h)
  <2>1. patch \in Patch["qr"]
    BY PatchesAre
  <2>2. RowOK("qr", Patched(rows["qr"][i], patch))
    BY <1>3 DEF UpdateQr, RowOK
  <2> QED
    BY <1>3, <1>k, <2>1, <2>2, ChangeArrives DEF UpdateQr
<1>4. ASSUME NEW i \in Ids("campaign"), NEW patch \in DatePatches, UpdateCampaign(r, i, patch)
      PROVE  \E h : Arrives(r, h)
  <2>1. patch \in Patch["campaign"] /\ "status" \notin DOMAIN patch
    BY PatchesAre DEF DatePatches
  <2>2. RowOK("campaign", Patched(rows["campaign"][i], patch))
    BY <1>4 DEF UpdateCampaign, RowOK
  <2>3. i \in Live("campaign") /\ rows["campaign"][i] \in Campaign
    BY <1>4, <1>k, KindsAre DEF UpdateCampaign, Sound
  <2>4. Patched(rows["campaign"][i], patch).status = rows["campaign"][i].status
    BY <2>1, <2>3, PatchedCampaign
  <2> QED
    BY <1>4, <1>k, <2>1, <2>2, <2>3, <2>4, ChangeArrives DEF UpdateCampaign
<1>5. ASSUME NEW i \in Ids("campaign"), NEW s \in CampaignStatus, TransitionStatus(r, i, s)
      PROVE  \E h : Arrives(r, h)
  <2>1. [status |-> s] \in Patch["campaign"] /\ "status" \in DOMAIN [status |-> s]
    BY PatchesAre
  <2>2. i \in Live("campaign") /\ rows["campaign"][i] \in Campaign
    BY <1>5, <1>k, KindsAre DEF TransitionStatus, Sound
  <2>3. RowOK("campaign", rows["campaign"][i]) => RowOK("campaign", Patched(rows["campaign"][i], [status |-> s]))
    BY <2>1, <2>2, PatchedCampaign DEF RowOK
  <2>4. rows["campaign"][i].status # "ARCHIVED"
    BY <1>5 DEF TransitionStatus, VALID_TRANSITIONS
  <2> QED
    BY <1>5, <1>k, <2>1, <2>2, <2>3, <2>4, ChangeArrives DEF TransitionStatus
<1>6. ASSUME NEW i \in Ids("qr"), SoftDelete(r, "qr", i) PROVE \E h : Arrives(r, h)
  <2>1. [deleted |-> TRUE] \in Patch["qr"] /\ "deleted" \in DOMAIN [deleted |-> TRUE]
    BY PatchesAre
  <2>2. i \in Live("qr") /\ rows["qr"][i] \in Qr
    BY <1>6, <1>k, KindsAre DEF SoftDelete, Sound
  <2>3. RowOK("qr", rows["qr"][i]) => RowOK("qr", Patched(rows["qr"][i], [deleted |-> TRUE]))
    BY <2>1, <2>2, PatchedQr DEF RowOK
  <2> QED
    BY <1>6, <1>k, <2>1, <2>2, <2>3, ChangeArrives DEF SoftDelete
<1>7. ASSUME NEW i \in Ids("campaign"), SoftDelete(r, "campaign", i) PROVE \E h : Arrives(r, h)
  <2>1. [deleted |-> TRUE] \in Patch["campaign"] /\ "deleted" \in DOMAIN [deleted |-> TRUE]
        /\ "status" \notin DOMAIN [deleted |-> TRUE]
    BY PatchesAre
  <2>2. i \in Live("campaign") /\ rows["campaign"][i] \in Campaign
    BY <1>7, <1>k, KindsAre DEF SoftDelete, Sound
  <2>3. /\ RowOK("campaign", rows["campaign"][i]) => RowOK("campaign", Patched(rows["campaign"][i], [deleted |-> TRUE]))
        /\ Patched(rows["campaign"][i], [deleted |-> TRUE]).status = rows["campaign"][i].status
    BY <2>1, <2>2, PatchedCampaign DEF RowOK
  <2> QED
    BY <1>7, <1>k, <2>1, <2>2, <2>3, ChangeArrives DEF SoftDelete
<1> QED
  BY <1>1, <1>2, <1>3, <1>4, <1>5, <1>6, <1>7 DEF QrRequest, CampaignRequest

-----------------------------------------------------------------------------
(***************************************************************************)
(* Sound is kept.                                                          *)
(***************************************************************************)
LEMMA SoundInit == Init => Sound
<1> SUFFICES ASSUME Init PROVE Sound
  OBVIOUS
<1>1. /\ rows["member"] = <<[user |-> Founder, role |-> "OWNER"], [user |-> Partner, role |-> "OWNER"]>>
      /\ rows["domain"] = <<[name |-> Home, status |-> "ACTIVE", primary |-> TRUE,
                             deleted |-> FALSE, proven |-> Home],
                            [name |-> Spare, status |-> "VERIFIED", primary |-> FALSE,
                             deleted |-> FALSE, proven |-> Spare]>>
      /\ rows["qr"] = <<[fg |-> Black, bg |-> White, deleted |-> FALSE]>>
      /\ rows["campaign"] = <<[status |-> "ACTIVE", start |-> None, end |-> None, deleted |-> FALSE]>>
      /\ rows = [k \in Kinds |-> rows[k]]
  BY DEF Init, Kinds
<1>2. /\ rows["member"] \in Seq(Member) /\ rows["domain"] \in Seq(Domain)
      /\ rows["qr"] \in Seq(Qr) /\ rows["campaign"] \in Seq(Campaign)
  BY <1>1, WorkspaceConstants DEF Member, WorkspaceRole, Domain, DomainStatus, Qr, Campaign, CampaignStatus
<1>3. \A k \in Kinds : rows[k] \in Seq(Table[k])
  BY <1>2, KindsAre
<1>4. rows \in [Kinds -> Seq(AnyRow)]
  <2>1. \A k \in Kinds : rows[k] \in Seq(AnyRow)
    BY <1>3, KindsAre, SeqMonotonic
  <2> QED
    BY <1>1, <2>1
<1>5. \A k \in Kinds : \A i \in Ids(k) : rows[k][i] \in Table[k]
  BY <1>3, ElementOfSeq DEF Ids
<1>6. \A k \in Kinds : \A i \in Present(k) : Unique(k, i, rows[k][i])
  <2>1. \A i, j \in Present("member") : i # j => rows["member"][i].user # rows["member"][j].user
    BY <1>1, WorkspaceConstants DEF Present, Ids
  <2>2. \A i, j \in Present("domain") : i # j => rows["domain"][i].name # rows["domain"][j].name
    BY <1>1, WorkspaceConstants DEF Present, Ids
  <2> QED
    BY <2>1, <2>2 DEF Unique
<1>7. Idle \in Handlers
  BY DEF Idle, Handlers, Labels, AnyRow
<1> QED
  BY <1>4, <1>5, <1>6, <1>7 DEF Init, Sound, Fit, Idle

\* A handler goes on or ends while the rows stay.
LEMMA SoundHandler ==
    ASSUME Sound, NEW r \in Requests, NEW h \in Handlers, handler' = [handler EXCEPT ![r] = h],
           Fit(h), h # Idle => h.id \in Ids(h.kind) \cup {0},
           \A q \in Requests \ {r} : h.held \cap handler[q].held = {},
           rows' = rows, excess' = excess
    PROVE  Sound'
<1>1. /\ handler' \in [Requests -> Handlers] /\ handler'[r] = h
      /\ \A q \in Requests \ {r} : handler'[q] = handler[q]
  BY DEF Sound
<1>2. \A q \in Requests : Fit(handler'[q]) /\ (handler'[q] # Idle => handler'[q].id \in Ids(handler'[q].kind) \cup {0})
  BY <1>1 DEF Sound
<1>3. \A p, q \in Requests : p # q => handler'[p].held \cap handler'[q].held = {}
  BY <1>1 DEF Sound
<1>4. UNCHANGED rows /\ \A k \in Kinds : Ids(k)' = Ids(k) /\ Present(k)' = Present(k)
  BY DEF Ids, Present
<1>5. \A k \in Kinds : \A i \in Present(k) : Unique(k, i, rows[k][i])'
  BY <1>4 DEF Sound, Unique
<1> QED
  BY <1>1, <1>2, <1>3, <1>4, <1>5 DEF Sound, Ids

LEMMA IdleHandler == Idle \in Handlers /\ Fit(Idle) /\ Idle.held = {} /\ Idle.targets = {} /\ Idle.pc = "idle"
BY DEF Idle, Handlers, Labels, AnyRow, Fit

\* What a handler at work is.
LEMMA AtWork ==
    ASSUME Sound, NEW r \in Requests, handler[r].pc # "idle"
    PROVE  /\ handler[r] \in Handlers /\ handler[r] # Idle
           /\ Creator(handler[r]) \/ Changer(handler[r])
           /\ handler[r].kind \in Kinds
           /\ handler[r].id # 0 => Changer(handler[r]) /\ handler[r].id \in Ids(handler[r].kind)
           /\ handler[r].id = 0 => Creator(handler[r])
           /\ handler[r].pc \in {"start", "dns", "begin", "unset"} => handler[r].id # 0 /\ DomainChange(handler[r])
<1>1. handler[r] \in Handlers /\ handler[r] # Idle
  BY DEF Sound, Idle
<1>2. Creator(handler[r]) \/ Changer(handler[r])
  BY <1>1 DEF Sound, Fit
<1>3. handler[r].kind \in Kinds
  BY <1>2 DEF Creator, Changer, MemberChange, DomainChange, OtherChange, Kinds
<1>4. handler[r].id # 0 => Changer(handler[r]) /\ handler[r].id \in Ids(handler[r].kind)
  BY <1>1, <1>2 DEF Sound, Creator
<1>5. handler[r].id = 0 => Creator(handler[r])
  BY <1>2 DEF Changer
<1>6. handler[r].pc \in {"start", "dns", "begin", "unset"} => handler[r].id # 0 /\ DomainChange(handler[r])
  BY <1>2 DEF Creator, Changer, MemberChange, OtherChange
<1> QED
  BY <1>1, <1>2, <1>3, <1>4, <1>5, <1>6

\* The patch of an update belongs to its table; only a member is deleted for good.
LEMMA PatchIsOfKind ==
    ASSUME NEW h, Changer(h)
    PROVE  h.patch \in Patch[h.kind] \/ (h.kind = "member" /\ h.patch = None)
BY DEF Changer, MemberChange, DomainChange, OtherChange

LEMMA UsageIsNat ==
    ASSUME Sound, NEW k \in Kinds
    PROVE  IsFiniteSet(Live(k)) /\ Usage(k) \in Nat
<1>1. Ids(k) = 1 .. Len(rows[k]) /\ Len(rows[k]) \in Nat
  BY LenProperties DEF Sound, Ids
<1>2. IsFiniteSet(Ids(k))
  BY <1>1, FS_Interval
<1>3. IsFiniteSet(Live(k))
  BY <1>2, FS_Subset DEF Live, Present
<1> QED
  BY <1>3, FS_CardinalityType DEF Usage

LEMMA SoundCount ==
    ASSUME Sound, NEW r \in Requests, Count(r)
    PROVE  Sound'
<1>1. handler[r].pc = "count" /\ rows' = rows /\ excess' = excess
  BY DEF Count
<1>2. CASE handler' = [handler EXCEPT ![r] = Idle]
  BY <1>1, <1>2, IdleHandler, SoundHandler
<1>3. CASE /\ \/ handler[r].look = "usage" /\ WithinLimit(handler[r].kind)
              \/ handler[r].look = "owners" /\ OtherOwners(handler[r].id) # {}
           /\ handler' = [handler EXCEPT ![r].pc = "write", ![r].seen = Sees(handler[r])]
  <2> DEFINE h == [handler[r] EXCEPT !.pc = "write", !.seen = Sees(handler[r])]
  <2>1. handler[r] \in Handlers /\ (Creator(handler[r]) \/ Changer(handler[r]))
    BY <1>1, AtWork
  <2>2. Sees(handler[r]) \in {None} \cup Nat \cup SUBSET Nat
    <3>1. handler[r].kind \in Kinds
      BY <1>1, AtWork
    <3>3. Usage(handler[r].kind) \in Nat
      BY <3>1, UsageIsNat
    <3>4. OtherOwners(handler[r].id) \in SUBSET Nat
      <4>1. Present("member") \subseteq Nat
        BY IdsAreNat DEF Sound, Kinds
      <4> QED
        BY <4>1 DEF OtherOwners, Owners
    <3> QED
      BY <3>3, <3>4 DEF Sees
  <2>3. /\ h \in Handlers /\ h.pc = "write" /\ h.seen = Sees(handler[r])
        /\ h.kind = handler[r].kind /\ h.id = handler[r].id /\ h.row = handler[r].row /\ h.patch = handler[r].patch
        /\ h.look = handler[r].look /\ h.held = handler[r].held
    BY <2>1, <2>2 DEF Handlers, Labels
  <2>4. handler' = [handler EXCEPT ![r] = h]
    BY <1>3, <2>1 DEF Sound
  <2> HIDE DEF h
  <2>h. \A q \in Requests \ {r} : h.held \cap handler[q].held = {}
    BY <2>3 DEF Sound
  <2>5. CASE Creator(handler[r])
    <3>1. Sees(handler[r]) = Usage(h.kind) /\ WithinLimit(h.kind)
      BY <1>3, <2>3, <2>5 DEF Creator, Sees
    <3>2. Limit[h.kind] = None \/ (h.seen \in Nat /\ h.seen + 1 <= Limit[h.kind])
      <4>1. h.kind \in Kinds
        BY <2>3, <2>5 DEF Creator
      <4>2. Usage(h.kind) \in Nat
        BY <4>1, UsageIsNat
      <4> QED
        BY <2>3, <3>1, <4>2 DEF WithinLimit
    <3>3. Creator(h)
      BY <2>3, <2>5, <3>2 DEF Creator
    <3>4. Fit(h) /\ h.id \in Ids(h.kind) \cup {0}
      BY <3>3 DEF Fit, Creator
    <3> QED
      BY <1>1, <2>h, <2>3, <2>4, <3>4, SoundHandler
  <2>6. CASE Changer(handler[r])
    <3>1. MemberChange(handler[r]) /\ handler[r].look = "owners"
      BY <1>1, <2>6 DEF Changer, MemberChange, DomainChange, OtherChange
    <3>2. Sees(handler[r]) = OtherOwners(handler[r].id) /\ OtherOwners(handler[r].id) # {}
      BY <1>3, <3>1 DEF Sees
    <3>3. MemberChange(h)
      BY <2>3, <3>1, <3>2 DEF MemberChange
    <3>4. Changer(h)
      BY <2>3, <2>6, <3>3 DEF Changer
    <3>5. Fit(h) /\ h.id \in Ids(h.kind) \cup {0}
      BY <1>1, <2>3, <2>6, <3>4, AtWork DEF Fit, Changer
    <3> QED
      BY <1>1, <2>h, <2>3, <2>4, <3>5, SoundHandler
  <2> QED
    BY <2>1, <2>5, <2>6
<1> QED
  BY <1>2, <1>3 DEF Count, Throw

(***************************************************************************)
(* The handlers after a step that leaves or changes the rows.              *)
(***************************************************************************)
FitNext ==
    /\ handler' \in [Requests -> Handlers]
    /\ \A q \in Requests : /\ Fit(handler'[q])
                           /\ handler'[q] # Idle => handler'[q].id \in Ids(handler'[q].kind) \cup {0}
    /\ \A p, q \in Requests : p # q => handler'[p].held \cap handler'[q].held = {}

LEMMA HandlerGoesOn ==
    ASSUME Sound, NEW r \in Requests, NEW h \in Handlers, handler' = [handler EXCEPT ![r] = h],
           Fit(h), h # Idle => h.id \in Ids(h.kind) \cup {0},
           \A q \in Requests \ {r} : h.held \cap handler[q].held = {}
    PROVE  FitNext
BY DEF Sound, FitNext

LEMMA HandlerEnds ==
    ASSUME Sound, NEW r \in Requests, Throw(r)
    PROVE  FitNext
BY IdleHandler, HandlerGoesOn DEF Throw

\* A row is changed, or deleted for good.
LEMMA SoundChange ==
    ASSUME Sound, NEW k \in Kinds, NEW i \in Ids(k), NEW row, Changes(k, i, row), FitNext, excess' = excess,
           \/ row \in Table[k] /\ Unique(k, i, row)
           \/ k = "member" /\ row = None
    PROVE  Sound'
<1>1. \A j \in Kinds : Ids(j)' = Ids(j)
  BY DEF Changes, Ids
<1>2. ASSUME NEW j \in Kinds, NEW x \in Ids(j)
      PROVE  /\ rows'[j][x] \in Table[j] \/ (j = "member" /\ rows'[j][x] = None)
             /\ x \in Nat
             /\ <<j, x>> # <<k, i>> => rows'[j][x] = rows[j][x]
  <2>1. x \in Nat
    BY IdsAreNat DEF Sound
  <2>2. CASE <<j, x>> = <<k, i>>
    BY <2>1, <2>2 DEF Changes
  <2>3. CASE <<j, x>> # <<k, i>>
    BY <2>1, <2>3 DEF Changes, Sound
  <2> QED
    BY <2>1, <2>2, <2>3
<1>3. ASSUME NEW j \in Kinds, NEW x \in Present(j)', NEW y \in Present(j)', x # y
      PROVE  /\ j = "member" => rows'[j][y].user # rows'[j][x].user
             /\ j = "domain" => rows'[j][y].name # rows'[j][x].name
  <2>1. x \in Ids(j) /\ y \in Ids(j) /\ rows'[j][x] # None /\ rows'[j][y] # None
    BY <1>1 DEF Present
  <2>2. CASE <<j, x>> # <<k, i>> /\ <<j, y>> # <<k, i>>
    <3>1. x \in Present(j) /\ y \in Present(j) /\ rows'[j][x] = rows[j][x] /\ rows'[j][y] = rows[j][y]
      BY <1>2, <2>1, <2>2 DEF Present
    <3> QED
      BY <1>3, <3>1 DEF Sound, Unique
  <2>3. CASE <<j, x>> = <<k, i>> \/ <<j, y>> = <<k, i>>
    <3>1. \/ /\ x = i /\ y \in Present(k) \ {i} /\ rows'[k][y] = rows[k][y]
          \/ /\ y = i /\ x \in Present(k) \ {i} /\ rows'[k][x] = rows[k][x]
      BY <1>2, <1>3, <2>1, <2>3 DEF Present
    <3>2. j = k /\ rows'[k][i] = row /\ Unique(k, i, row)
      BY <2>1, <2>3, KindsAre DEF Changes
    <3> QED
      BY <3>1, <3>2 DEF Unique
  <2> QED
    BY <2>2, <2>3
<1>4. \A j \in Kinds : \A x \in Present(j)' : Unique(j, x, rows[j][x])'
  BY <1>3 DEF Unique
<1>5. \A j \in Kinds : \A x \in Ids(j)' : rows'[j][x] \in Table[j] \/ (j = "member" /\ rows'[j][x] = None)
  BY <1>1, <1>2
<1>6. \A q \in Requests : handler'[q] # Idle => handler'[q].id \in (Ids(handler'[q].kind) \cup {0})
                                              /\ handler'[q].kind \in Kinds
  BY DEF FitNext, Fit, Creator, Changer, MemberChange, DomainChange, OtherChange, Kinds
<1>7. \A q \in Requests : handler'[q] # Idle => handler'[q].id \in DOMAIN rows'[handler'[q].kind] \cup {0}
  BY <1>1, <1>6 DEF Ids
<1> QED
  BY <1>4, <1>5, <1>7 DEF Sound, FitNext, Changes, Ids

LEMMA SoundAdd ==
    ASSUME Sound, NEW k \in Kinds, NEW row \in Table[k], Adds(k, row), Unique(k, 0, row), FitNext,
           excess' \in [Kinds -> Nat]
    PROVE  Sound'
<1> DEFINE n == Len(rows[k]) + 1
<1>1. \A j \in Kinds : Ids(j) \subseteq Ids(j)' /\ Ids(j)' \subseteq Ids(j) \cup (IF j = k THEN {n} ELSE {})
  BY DEF Adds, Ids
<1>2. ASSUME NEW j \in Kinds, NEW x \in Ids(j) PROVE rows'[j][x] = rows[j][x] /\ <<j, x>> # <<k, n>>
  BY DEF Adds
<1>3. rows'[k][n] = row /\ row # None
  BY KindsAre DEF Adds
<1> HIDE DEF n
<1>4. ASSUME NEW j \in Kinds, NEW x \in Ids(j)'
      PROVE  rows'[j][x] \in Table[j] \/ (j = "member" /\ rows'[j][x] = None)
  <2>1. CASE x \in Ids(j)
    BY <1>2, <2>1 DEF Sound
  <2>2. CASE x \notin Ids(j)
    BY <1>1, <1>3, <1>4, <2>2
  <2> QED
    BY <2>1, <2>2
<1>5. ASSUME NEW j \in Kinds, NEW x \in Present(j)', NEW y \in Present(j)', x # y
      PROVE  /\ j = "member" => rows'[j][y].user # rows'[j][x].user
             /\ j = "domain" => rows'[j][y].name # rows'[j][x].name
  <2>1. ASSUME NEW z \in Present(j)', ~(j = k /\ z = n) PROVE z \in Present(j) /\ rows'[j][z] = rows[j][z]
    BY <1>1, <1>2, <2>1 DEF Present
  <2>2. CASE ~(j = k /\ x = n) /\ ~(j = k /\ y = n)
    <3>1. x \in Present(j) /\ y \in Present(j) \ {x} /\ rows'[j][x] = rows[j][x] /\ rows'[j][y] = rows[j][y]
      BY <1>5, <2>1, <2>2
    <3>2. Unique(j, x, rows[j][x])
      BY <3>1 DEF Sound
    <3> QED
      BY <3>1, <3>2 DEF Unique
  <2>3. CASE (j = k /\ x = n) \/ (j = k /\ y = n)
    <3>1. j = k /\ rows'[k][n] = row /\ \A z \in Present(k) \ {0} : /\ k = "member" => rows[k][z].user # row.user
                                                                    /\ k = "domain" => rows[k][z].name # row.name
      BY <1>3, <2>3 DEF Unique
    <3>2. \A z \in Present(k) : z # 0
      BY IdsAreNat DEF Sound
    <3>3. CASE x = n
      BY <1>3, <1>5, <2>1, <3>1, <3>2, <3>3
    <3>4. CASE y = n
      BY <1>3, <1>5, <2>1, <3>1, <3>2, <3>4
    <3> QED
      BY <2>3, <3>3, <3>4
  <2> QED
    BY <2>2, <2>3
<1>6. \A j \in Kinds : \A x \in Present(j)' : Unique(j, x, rows[j][x])'
  BY <1>5 DEF Unique
<1>7. \A q \in Requests : handler'[q] # Idle => handler'[q].id \in (Ids(handler'[q].kind) \cup {0})
                                              /\ handler'[q].kind \in Kinds
  BY DEF FitNext, Fit, Creator, Changer, MemberChange, DomainChange, OtherChange, Kinds
<1>8. \A q \in Requests : handler'[q] # Idle => handler'[q].id \in DOMAIN rows'[handler'[q].kind] \cup {0}
  BY <1>1, <1>7 DEF Ids
<1> QED
  BY <1>4, <1>6, <1>8 DEF Sound, FitNext, Adds, Ids

LEMMA InsertAdds ==
    ASSUME Sound, NEW r \in Requests, Insert(r)
    PROVE  LET h == handler[r] IN
           /\ Creator(h) /\ h.pc = "write" /\ Throw(r) /\ dirty' = dirty /\ h.kind \in Kinds
           /\ \/ rows' = rows /\ excess' = excess
              \/ /\ Adds(h.kind, h.patch) /\ Unique(h.kind, 0, h.patch)
                 /\ excess' = [excess EXCEPT ![h.kind] = IF Stale(h) THEN @ + 1 ELSE @]
<1>1. handler[r].pc = "write" /\ handler[r].id = 0 /\ Throw(r) /\ dirty' = dirty
  BY DEF Insert
<1>2. Creator(handler[r]) /\ handler[r].kind \in Kinds
  BY <1>1, AtWork
<1>3. handler[r].patch \in AnyRow
  BY <1>2, KindsAre DEF Creator
<1>4. CASE Unique(handler[r].kind, 0, handler[r].patch)
  <2>1. rows' = [rows EXCEPT ![handler[r].kind] = Append(@, handler[r].patch)]
        /\ excess' = [excess EXCEPT ![handler[r].kind] = IF Stale(handler[r]) THEN @ + 1 ELSE @]
    BY <1>4 DEF Insert
  <2>2. Adds(handler[r].kind, handler[r].patch)
    BY <1>2, <1>3, <2>1, RowAdded DEF Sound
  <2> QED
    BY <1>1, <1>2, <1>4, <2>1, <2>2
<1>5. CASE ~Unique(handler[r].kind, 0, handler[r].patch)
  BY <1>1, <1>2, <1>5 DEF Insert
<1> QED
  BY <1>4, <1>5

LEMMA SoundInsert ==
    ASSUME Sound, NEW r \in Requests, Insert(r)
    PROVE  Sound'
<1>1. /\ Creator(handler[r]) /\ Throw(r) /\ handler[r].kind \in Kinds
      /\ \/ rows' = rows /\ excess' = excess
         \/ /\ Adds(handler[r].kind, handler[r].patch) /\ Unique(handler[r].kind, 0, handler[r].patch)
            /\ excess' = [excess EXCEPT ![handler[r].kind] = IF Stale(handler[r]) THEN @ + 1 ELSE @]
  BY InsertAdds
<1>2. handler[r].patch \in Table[handler[r].kind]
  BY <1>1 DEF Creator
<1>3. CASE rows' = rows /\ excess' = excess
  BY <1>1, <1>3, IdleHandler, SoundHandler DEF Throw
<1>4. CASE /\ Adds(handler[r].kind, handler[r].patch) /\ Unique(handler[r].kind, 0, handler[r].patch)
           /\ excess' = [excess EXCEPT ![handler[r].kind] = IF Stale(handler[r]) THEN @ + 1 ELSE @]
  <2>1. excess' \in [Kinds -> Nat]
    <3>1. excess \in [Kinds -> Nat] /\ excess[handler[r].kind] \in Nat
      BY <1>1 DEF Sound
    <3>2. CASE Stale(handler[r])
      BY <1>1, <1>4, <3>1, <3>2
    <3>3. CASE ~Stale(handler[r])
      BY <1>1, <1>4, <3>1, <3>3
    <3> QED
      BY <3>2, <3>3
  <2> QED
    BY <1>1, <1>2, <1>4, <2>1, HandlerEnds, SoundAdd
<1> QED
  BY <1>1, <1>3, <1>4

\* The row an update leaves.
LEMMA UpdateChanges ==
    ASSUME Sound, NEW r \in Requests, Update(r)
    PROVE  LET h == handler[r] IN
           /\ Changer(h) /\ h.pc = "write" /\ Throw(r) /\ excess' = excess /\ h.kind \in Kinds /\ h.id \in Ids(h.kind)
           /\ \/ rows' = rows /\ dirty' = dirty
              \/ /\ h.id \in Present(h.kind) /\ rows[h.kind][h.id] \in Table[h.kind]
                 /\ Changes(h.kind, h.id, After(h))
                 /\ \/ /\ h.patch \in Patch[h.kind] /\ h.patch # None /\ Unique(h.kind, h.id, After(h))
                       /\ After(h) = Patched(rows[h.kind][h.id], h.patch) /\ After(h) \in Table[h.kind]
                    \/ h.kind = "member" /\ h.patch = None /\ After(h) = None
                 /\ dirty' = IF Stale(h) THEN dirty \cup Touches(h) ELSE dirty
<1>1. handler[r].pc = "write" /\ handler[r].id # 0 /\ Throw(r) /\ excess' = excess
  BY DEF Update
<1>2. Changer(handler[r]) /\ handler[r].kind \in Kinds /\ handler[r].id \in Ids(handler[r].kind)
  BY <1>1, AtWork
<1>3. CASE handler[r].id \in Present(handler[r].kind)
           /\ (handler[r].patch # None => Unique(handler[r].kind, handler[r].id, After(handler[r])))
  <2>1. /\ rows' = [rows EXCEPT ![handler[r].kind][handler[r].id] = After(handler[r])]
        /\ dirty' = IF Stale(handler[r]) THEN dirty \cup Touches(handler[r]) ELSE dirty
    BY <1>3 DEF Update
  <2>2. rows[handler[r].kind][handler[r].id] \in Table[handler[r].kind]
    BY <1>2, <1>3 DEF Sound, Present
  <2>3. \/ /\ handler[r].patch \in Patch[handler[r].kind] /\ handler[r].patch # None
           /\ Unique(handler[r].kind, handler[r].id, After(handler[r]))
           /\ After(handler[r]) = Patched(rows[handler[r].kind][handler[r].id], handler[r].patch)
           /\ After(handler[r]) \in Table[handler[r].kind]
        \/ handler[r].kind = "member" /\ handler[r].patch = None /\ After(handler[r]) = None
    <3>1. CASE handler[r].patch = None
      BY <1>2, <3>1, PatchIsOfKind, KindsAre DEF After
    <3>2. CASE handler[r].patch # None
      <4>1. handler[r].patch \in Patch[handler[r].kind]
        BY <1>2, <3>2, PatchIsOfKind
      <4>2. Patched(rows[handler[r].kind][handler[r].id], handler[r].patch) \in Table[handler[r].kind]
        BY <1>2, <2>2, <4>1, PatchedRow
      <4> QED
        BY <1>3, <3>2, <4>1, <4>2 DEF After
    <3> QED
      BY <3>1, <3>2
  <2>4. After(handler[r]) \in AnyRow
    BY <1>2, <2>3, KindsAre DEF AnyRow
  <2>5. Changes(handler[r].kind, handler[r].id, After(handler[r]))
    BY <1>2, <2>1, <2>4, RowChanged DEF Sound
  <2> QED
    BY <1>1, <1>2, <1>3, <2>1, <2>2, <2>3, <2>5
<1>4. CASE ~(handler[r].id \in Present(handler[r].kind)
             /\ (handler[r].patch # None => Unique(handler[r].kind, handler[r].id, After(handler[r]))))
  BY <1>1, <1>2, <1>4 DEF Update
<1> QED
  BY <1>3, <1>4

LEMMA SoundUpdate ==
    ASSUME Sound, NEW r \in Requests, Update(r)
    PROVE  Sound'
<1> DEFINE h == handler[r]
<1>1. /\ Throw(r) /\ excess' = excess /\ h.kind \in Kinds /\ h.id \in Ids(h.kind)
      /\ \/ rows' = rows
         \/ /\ Changes(h.kind, h.id, After(h))
            /\ \/ After(h) \in Table[h.kind] /\ Unique(h.kind, h.id, After(h))
               \/ h.kind = "member" /\ After(h) = None
  BY UpdateChanges
<1>2. CASE rows' = rows
  BY <1>1, <1>2, IdleHandler, SoundHandler DEF Throw
<1>3. CASE /\ Changes(h.kind, h.id, After(h))
           /\ \/ After(h) \in Table[h.kind] /\ Unique(h.kind, h.id, After(h))
              \/ h.kind = "member" /\ After(h) = None
  BY <1>1, <1>3, HandlerEnds, SoundChange
<1> QED
  BY <1>1, <1>2, <1>3

\* Domains change and keep their names.
KeepNames ==
    /\ rows' \in [Kinds -> Seq(AnyRow)]
    /\ \A j \in Kinds : DOMAIN rows'[j] = Ids(j)
    /\ \A j \in Kinds \ {"domain"} : rows'[j] = rows[j]
    /\ \A i \in Ids("domain") : /\ rows'["domain"][i] \in Domain
                                /\ rows'["domain"][i].name = rows["domain"][i].name

LEMMA DomainRow ==
    ASSUME Sound, NEW i \in Ids("domain")
    PROVE  rows["domain"][i] \in Domain /\ i \in Present("domain")
<1>1. "domain" \in Kinds
  BY DEF Kinds
<1>2. rows["domain"][i] \in Table["domain"]
  BY <1>1 DEF Sound
<1> QED
  BY <1>1, <1>2, KindsAre DEF Present

LEMMA SoundNames ==
    ASSUME Sound, KeepNames, FitNext, excess' = excess
    PROVE  Sound'
<1>1. \A j \in Kinds : Ids(j)' = Ids(j)
  BY DEF KeepNames, Ids
<1>2. \A j \in Kinds : \A x \in Ids(j)' : rows'[j][x] \in Table[j] \/ (j = "member" /\ rows'[j][x] = None)
  BY <1>1, KindsAre DEF KeepNames, Sound
<1>3. \A j \in Kinds : Present(j)' = Present(j)
  <2>1. Present("domain")' = Ids("domain") /\ Present("domain") = Ids("domain")
    BY <1>1, KindsAre, DomainRow DEF KeepNames, Present, Kinds
  <2>2. \A j \in Kinds \ {"domain"} : Present(j)' = Present(j)
    BY <1>1 DEF KeepNames, Present
  <2> QED
    BY <2>1, <2>2
<1>4. ASSUME NEW j \in Kinds, NEW x \in Present(j)'
      PROVE  Unique(j, x, rows[j][x])'
  <2>1. Unique(j, x, rows[j][x]) /\ x \in Present(j)
    BY <1>3 DEF Sound
  <2>2. CASE j = "domain"
    <3>1. \A y \in Present("domain") : rows'["domain"][y].name = rows["domain"][y].name
      BY DEF KeepNames, Present
    <3> QED
      BY <1>3, <2>1, <2>2, <3>1 DEF Unique
  <2>3. CASE j # "domain"
    BY <1>3, <2>1, <2>3 DEF Unique, KeepNames
  <2> QED
    BY <2>2, <2>3
<1>5. \A q \in Requests : handler'[q] # Idle => /\ handler'[q].id \in (Ids(handler'[q].kind) \cup {0})
                                               /\ handler'[q].kind \in Kinds
  BY DEF FitNext, Fit, Creator, Changer, MemberChange, DomainChange, OtherChange, Kinds
<1>6. \A q \in Requests : handler'[q] # Idle => handler'[q].id \in DOMAIN rows'[handler'[q].kind] \cup {0}
  BY <1>1, <1>5 DEF Ids
<1> QED
  BY <1>2, <1>4, <1>6 DEF Sound, FitNext, KeepNames, Ids

LEMMA ChangeKeepsNames ==
    ASSUME Sound, NEW i \in Ids("domain"), NEW row \in Domain, Changes("domain", i, row),
           row.name = rows["domain"][i].name
    PROVE  KeepNames
<1>1. \A j \in Kinds : Ids(j) \subseteq Nat
  BY IdsAreNat DEF Sound
<1>2. ASSUME NEW x \in Ids("domain")
      PROVE  rows'["domain"][x] \in Domain /\ rows'["domain"][x].name = rows["domain"][x].name
  <2>1. rows["domain"][x] \in Domain
    BY DomainRow
  <2>2. x \in Nat
    BY <1>1 DEF Kinds
  <2> QED
    BY <2>1, <2>2 DEF Changes, Kinds
<1>3. ASSUME NEW j \in Kinds \ {"domain"} PROVE rows'[j] = rows[j]
  <2>1. rows[j] \in Seq(AnyRow) /\ rows'[j] \in Seq(AnyRow) /\ DOMAIN rows'[j] = DOMAIN rows[j]
    BY DEF Sound, Changes, Ids
  <2>2. \A x \in DOMAIN rows[j] : rows'[j][x] = rows[j][x]
    BY <1>1 DEF Changes, Ids
  <2>3. Len(rows'[j]) = Len(rows[j]) /\ \A x \in 1 .. Len(rows[j]) : rows'[j][x] = rows[j][x]
    BY <2>1, <2>2, LenProperties
  <2> QED
    BY <2>1, <2>3, SeqEqual
<1> QED
  BY <1>2, <1>3 DEF Changes, KeepNames

LEMMA StartChanges ==
    ASSUME Sound, NEW r \in Requests, StartVerification(r)
    PROVE  LET h == handler[r] IN
           /\ Changer(h) /\ h.kind = "domain" /\ h.id \in Ids("domain") /\ excess' = excess
           /\ Changes("domain", h.id, After(h)) /\ After(h) \in Domain
           /\ After(h) = Patched(rows["domain"][h.id], [status |-> "VERIFYING"])
           /\ After(h) = [rows["domain"][h.id] EXCEPT !.status = "VERIFYING"]
           /\ dirty' = IF Stale(h) THEN dirty \cup Touches(h) ELSE dirty
<1>1. handler[r].pc = "start" /\ rows' = [rows EXCEPT !["domain"][handler[r].id] = After(handler[r])]
      /\ excess' = excess /\ dirty' = IF Stale(handler[r]) THEN dirty \cup Touches(handler[r]) ELSE dirty
  BY DEF StartVerification
<1>2. Changer(handler[r]) /\ DomainChange(handler[r]) /\ handler[r].id # 0
  BY <1>1, AtWork
<1>3. handler[r].kind = "domain" /\ handler[r].id \in Ids("domain") /\ handler[r].patch = [status |-> "VERIFYING"]
      /\ handler[r].patch \in Patch["domain"] /\ handler[r].patch # None
  BY <1>1, <1>2, AtWork, KindsAre DEF DomainChange, Kinds
<1>4. rows["domain"][handler[r].id] \in Domain
  BY <1>3, DomainRow
<1>5. After(handler[r]) = Patched(rows["domain"][handler[r].id], [status |-> "VERIFYING"])
  BY <1>3 DEF After
<1>6. After(handler[r]) = [rows["domain"][handler[r].id] EXCEPT !.status = "VERIFYING"]
  BY <1>4, <1>5 DEF Patched, Domain
<1>7. After(handler[r]) \in Domain
  BY <1>3, <1>4, <1>5, PatchedDomain
<1>8. Changes("domain", handler[r].id, After(handler[r]))
  BY <1>1, <1>3, <1>7, RowChanged DEF Sound, AnyRow, Kinds
<1> QED
  BY <1>1, <1>2, <1>3, <1>5, <1>6, <1>7, <1>8

LEMMA FinishChanges ==
    ASSUME Sound, NEW r \in Requests, NEW verified \in BOOLEAN, FinishVerification(r, verified)
    PROVE  LET h == handler[r]
               d == rows["domain"][h.id]
               e == [d EXCEPT !.status = IF verified THEN "VERIFIED" ELSE "FAILED",
                              !.proven = IF verified THEN h.row.name ELSE @] IN
           /\ Changer(h) /\ h.kind = "domain" /\ h.id \in Ids("domain") /\ excess' = excess /\ Throw(r)
           /\ Changes("domain", h.id, e) /\ e \in Domain /\ d \in Domain
           /\ dirty' = IF Stale(h) THEN dirty \cup Touches(h) ELSE dirty
<1> DEFINE d == rows["domain"][handler[r].id]
           e == [d EXCEPT !.status = IF verified THEN "VERIFIED" ELSE "FAILED",
                          !.proven = IF verified THEN handler[r].row.name ELSE @]
<1>1. handler[r].pc = "dns" /\ excess' = excess /\ Throw(r)
      /\ dirty' = IF Stale(handler[r]) THEN dirty \cup Touches(handler[r]) ELSE dirty
  BY DEF FinishVerification
<1>2. Changer(handler[r]) /\ handler[r].kind = "domain" /\ handler[r].id \in Ids("domain") /\ handler[r].row \in Domain
  BY <1>1, AtWork, KindsAre DEF DomainChange, Changer
<1>3. d \in Domain
  BY <1>2, DomainRow
<1>4. e \in Domain
  BY <1>2, <1>3 DEF Domain, DomainStatus
<1>5. rows' = [rows EXCEPT !["domain"][handler[r].id] = e]
  <2>1. rows \in [Kinds -> Seq(AnyRow)] /\ "domain" \in Kinds /\ handler[r].id \in DOMAIN rows["domain"]
    BY <1>2 DEF Sound, Kinds, Ids
  <2> QED
    BY <1>3, <2>1 DEF FinishVerification, Domain
<1>6. Changes("domain", handler[r].id, e)
  BY <1>2, <1>4, <1>5, RowChanged DEF Sound, AnyRow, Kinds
<1> QED
  BY <1>1, <1>2, <1>3, <1>4, <1>6

LEMMA SoundStart ==
    ASSUME Sound, NEW r \in Requests, StartVerification(r)
    PROVE  Sound'
<1>1. /\ Changer(handler[r]) /\ handler[r].kind = "domain" /\ handler[r].id \in Ids("domain") /\ excess' = excess
      /\ Changes("domain", handler[r].id, After(handler[r])) /\ After(handler[r]) \in Domain
      /\ After(handler[r]) = [rows["domain"][handler[r].id] EXCEPT !.status = "VERIFYING"]
  BY StartChanges
<1>2. rows["domain"][handler[r].id] \in Domain
  BY <1>1, DomainRow
<1>3. After(handler[r]).status = "VERIFYING" /\ After(handler[r]).name = rows["domain"][handler[r].id].name
  BY <1>1, <1>2 DEF Domain
<1>4. KeepNames
  BY <1>1, <1>3, ChangeKeepsNames
<1> DEFINE row == [After(handler[r]) EXCEPT !.name = handler[r].row.name]
           h == [handler[r] EXCEPT !.pc = "dns", !.row = row]
<1>5. handler[r].row \in Domain /\ row \in Domain /\ row.status = "VERIFYING"
  <2>1. handler[r].row \in Domain
    BY <1>1, KindsAre DEF Changer
  <2> QED
    BY <1>1, <1>3, <2>1 DEF Domain
<1>6. handler' = [handler EXCEPT ![r] = h]
  BY DEF StartVerification, Sound
<1>7. handler[r] \in Handlers /\ handler[r].pc = "start" /\ DomainChange(handler[r]) /\ handler[r].id # 0
  BY AtWork DEF StartVerification
<1> HIDE DEF row
<1>8. /\ h \in Handlers /\ h.pc = "dns" /\ h.row = row /\ h.kind = "domain" /\ h.id = handler[r].id
      /\ h.look = handler[r].look /\ h.patch = handler[r].patch /\ h.held = handler[r].held
  BY <1>1, <1>5, <1>7 DEF Handlers, Labels, AnyRow
<1> HIDE DEF h
<1>9. DomainChange(h) /\ h.patch = [status |-> "VERIFYING"] /\ h.patch \in Patch["domain"]
  BY <1>7, <1>8 DEF DomainChange
<1>10. Patched(row, h.patch).status = "VERIFYING"
  BY <1>5, <1>9, PatchedDomain
<1>11. RowOK("domain", row) /\ RowOK("domain", Patched(row, h.patch))
  BY <1>5, <1>10 DEF RowOK
<1>12. Changer(h)
  BY <1>5, <1>7, <1>8, <1>9, <1>11, KindsAre DEF Changer
<1>13. Fit(h) /\ h.id \in Ids(h.kind) \cup {0}
  BY <1>1, <1>8, <1>12 DEF Fit
<1>14. \A q \in Requests \ {r} : h.held \cap handler[q].held = {}
  BY <1>8 DEF Sound
<1>15. FitNext
  BY <1>6, <1>8, <1>13, <1>14, HandlerGoesOn
<1> QED
  BY <1>1, <1>4, <1>15, SoundNames

LEMMA SoundFinish ==
    ASSUME Sound, NEW r \in Requests, NEW verified \in BOOLEAN, FinishVerification(r, verified)
    PROVE  Sound'
<1> DEFINE d == rows["domain"][handler[r].id]
           e == [d EXCEPT !.status = IF verified THEN "VERIFIED" ELSE "FAILED",
                          !.proven = IF verified THEN handler[r].row.name ELSE @]
<1>1. /\ handler[r].id \in Ids("domain") /\ excess' = excess /\ Throw(r)
      /\ Changes("domain", handler[r].id, e) /\ e \in Domain /\ d \in Domain
  BY FinishChanges
<1>2. e.name = d.name
  BY <1>1 DEF Domain
<1>3. KeepNames
  BY <1>1, <1>2, ChangeKeepsNames
<1> QED
  BY <1>1, <1>3, HandlerEnds, SoundNames

LEMMA SoundBeginTransaction ==
    ASSUME Sound, NEW r \in Requests, BeginTransaction(r)
    PROVE  Sound'
<1> DEFINE h == [handler[r] EXCEPT !.pc = "unset", !.targets = Primaries \ {handler[r].id}]
<1>1. /\ handler[r] \in Handlers /\ handler[r].pc = "begin" /\ Changer(handler[r]) /\ DomainChange(handler[r])
      /\ handler[r].id \in Ids(handler[r].kind) /\ rows' = rows /\ excess' = excess
  BY AtWork DEF BeginTransaction
<1>2. handler' = [handler EXCEPT ![r] = h]
  BY DEF BeginTransaction, Sound
<1>3. Primaries \subseteq Nat
  BY IdsAreNat DEF Sound, Primaries, Kinds
<1>4. /\ h \in Handlers /\ h.pc = "unset" /\ h.row = handler[r].row /\ h.kind = handler[r].kind
      /\ h.id = handler[r].id /\ h.look = handler[r].look /\ h.patch = handler[r].patch /\ h.held = handler[r].held
  BY <1>1, <1>3 DEF Handlers, Labels
<1> HIDE DEF h
<1>5. DomainChange(h)
  BY <1>1, <1>4, PatchesAre DEF DomainChange
<1>6. Fit(h)
  BY <1>1, <1>4, <1>5 DEF Changer, Fit
<1>7. \A q \in Requests \ {r} : h.held \cap handler[q].held = {}
  BY <1>4 DEF Sound
<1> QED
  BY <1>1, <1>2, <1>4, <1>6, <1>7, SoundHandler

LEMMA SoundUnset ==
    ASSUME Sound, NEW r \in Requests, NEW i \in Ids("domain"), Unset(r, i)
    PROVE  Sound'
<1> DEFINE g == IF i \in Primaries THEN handler[r].held \cup {i} ELSE handler[r].held
           h == [handler[r] EXCEPT !.targets = @ \ {i}, !.held = g]
<1>1. /\ handler[r] \in Handlers /\ handler[r].pc = "unset" /\ Changer(handler[r]) /\ DomainChange(handler[r])
      /\ handler[r].id \in Ids(handler[r].kind) /\ rows' = rows /\ excess' = excess
  BY AtWork DEF Unset
<1>2. handler' = [handler EXCEPT ![r] = h]
  BY <1>1 DEF Unset, Sound
<1>3. i \in Nat
  BY IdsAreNat DEF Sound, Kinds
<1>4. g \in SUBSET Nat /\ \A q \in Requests \ {r} : g \cap handler[q].held = {}
  <2>1. \A q \in Requests \ {r} : handler[r].held \cap handler[q].held = {} /\ i \notin handler[q].held
    BY DEF Sound, Unset, Locked
  <2>2. handler[r].held \in SUBSET Nat
    BY <1>1 DEF Handlers
  <2> QED
    BY <1>3, <2>1, <2>2
<1>5. /\ h \in Handlers /\ h.pc = "unset" /\ h.row = handler[r].row /\ h.kind = handler[r].kind
      /\ h.id = handler[r].id /\ h.look = handler[r].look /\ h.patch = handler[r].patch /\ h.held = g
  <2> HIDE DEF g
  <2>1. handler[r].targets \ {i} \in SUBSET Nat
    BY <1>1 DEF Handlers
  <2> QED
    BY <1>1, <1>4, <2>1 DEF Handlers
<1> HIDE DEF h
<1>6. DomainChange(h)
  BY <1>1, <1>5 DEF DomainChange
<1>7. Fit(h)
  BY <1>1, <1>5, <1>6 DEF Changer, Fit
<1> QED
  BY <1>1, <1>2, <1>4, <1>5, <1>7, SoundHandler

\* The domains after setPrimary commits.
Committed(h, i) ==
    IF i \in h.held THEN [rows["domain"][i] EXCEPT !.primary = FALSE]
    ELSE IF i = h.id THEN After(h)
    ELSE rows["domain"][i]

LEMMA CommitChanges ==
    ASSUME Sound, NEW r \in Requests, CommitPrimary(r)
    PROVE  LET h == handler[r] IN
           /\ Changer(h) /\ h.kind = "domain" /\ h.id \in Ids("domain") /\ excess' = excess /\ h.pc = "unset"
           /\ h.patch = [primary |-> TRUE] /\ h.patch \in Patch["domain"] /\ h.targets = {}
           /\ KeepNames
           /\ \A i \in Ids("domain") : rows'["domain"][i] = Committed(h, i)
           /\ After(h) = Patched(rows["domain"][h.id], h.patch) /\ After(h) \in Domain
           /\ dirty' = dirty \cup (IF rows["domain"][h.id] # h.row THEN Touches(h) ELSE {})
                             \cup (IF h.seen # None THEN {ThePrimary} ELSE {})
           /\ handler' = [q \in Requests |-> IF q = r THEN Idle ELSE Overtaken(handler[q])]
<1>1. /\ handler[r].pc = "unset" /\ excess' = excess /\ handler[r].targets = {}
      /\ dirty' = dirty \cup (IF rows["domain"][handler[r].id] # handler[r].row THEN Touches(handler[r]) ELSE {})
                        \cup (IF handler[r].seen # None THEN {ThePrimary} ELSE {})
      /\ handler' = [q \in Requests |-> IF q = r THEN Idle ELSE Overtaken(handler[q])]
      /\ rows' = [rows EXCEPT !["domain"] =
                    [i \in DOMAIN @ |-> IF i \in handler[r].held THEN [@[i] EXCEPT !.primary = FALSE]
                                        ELSE IF i = handler[r].id THEN After(handler[r]) ELSE @[i]]]
  BY DEF CommitPrimary
<1>2. Changer(handler[r]) /\ DomainChange(handler[r]) /\ handler[r].id \in Ids(handler[r].kind)
  BY <1>1, AtWork
<1>3. /\ handler[r].kind = "domain" /\ handler[r].id \in Ids("domain") /\ handler[r].patch = [primary |-> TRUE]
      /\ handler[r].patch \in Patch["domain"] /\ handler[r].patch # None
  BY <1>1, <1>2, KindsAre DEF DomainChange, Kinds
<1>4. rows["domain"][handler[r].id] \in Domain
  BY <1>3, DomainRow
<1>5. After(handler[r]) = Patched(rows["domain"][handler[r].id], handler[r].patch)
  BY <1>3 DEF After
<1>6. After(handler[r]) \in Domain /\ After(handler[r]).name = rows["domain"][handler[r].id].name
  BY <1>3, <1>4, <1>5, PatchedDomain
<1>7. rows'["domain"] = [i \in Ids("domain") |-> Committed(handler[r], i)] /\ \A j \in Kinds \ {"domain"} : rows'[j] = rows[j]
      /\ DOMAIN rows' = Kinds
  BY <1>1 DEF Sound, Ids, Committed, Kinds
<1>8. \A i \in Ids("domain") : /\ Committed(handler[r], i) \in Domain
                               /\ Committed(handler[r], i).name = rows["domain"][i].name
  BY <1>6, DomainRow DEF Committed, Domain
<1>9. rows'["domain"] \in Seq(AnyRow)
  <2>1. Ids("domain") = 1 .. Len(rows["domain"]) /\ Len(rows["domain"]) \in Nat
    BY LenProperties DEF Sound, Ids, Kinds
  <2>2. \A i \in 1 .. Len(rows["domain"]) : Committed(handler[r], i) \in AnyRow
    BY <1>8, <2>1 DEF AnyRow
  <2>3. rows'["domain"] \in [1 .. Len(rows["domain"]) -> AnyRow]
    BY <1>7, <2>1, <2>2
  <2> QED
    BY <2>1, <2>3, SeqDef
<1>10. rows' \in [Kinds -> Seq(AnyRow)]
  <2>1. \A j \in Kinds : rows'[j] \in Seq(AnyRow)
    BY <1>7, <1>9 DEF Sound
  <2>2. rows' = [j \in Kinds |-> rows'[j]]
    BY <1>1 DEF Sound
  <2> QED
    BY <2>1, <2>2
<1>11. KeepNames
  BY <1>7, <1>8, <1>10 DEF KeepNames, Ids
<1> QED
  BY <1>1, <1>2, <1>3, <1>5, <1>6, <1>7, <1>11

LEMMA OvertakenFits ==
    ASSUME NEW h \in Handlers, Fit(h)
    PROVE  /\ Overtaken(h) \in Handlers /\ Fit(Overtaken(h))
           /\ Overtaken(h).held = h.held /\ Overtaken(h).id = h.id /\ Overtaken(h).kind = h.kind
           /\ Overtaken(h).pc = h.pc /\ Overtaken(h).targets = h.targets
           /\ Overtaken(h) # Idle => h # Idle
<1> DEFINE g == [h EXCEPT !.seen = "overtaken"]
<1>1. CASE h.pc # "unset"
  BY <1>1 DEF Overtaken
<1>2. CASE h.pc = "unset"
  <2>1. Overtaken(h) = g
    BY <1>2 DEF Overtaken
  <2>2. /\ g \in Handlers /\ g.pc = "unset" /\ g.row = h.row /\ g.kind = h.kind /\ g.id = h.id
        /\ g.look = h.look /\ g.patch = h.patch /\ g.held = h.held /\ g.targets = h.targets
    BY <1>2 DEF Handlers
  <2> HIDE DEF g
  <2>3. Changer(h) /\ DomainChange(h) /\ h # Idle
    BY <1>2 DEF Fit, Idle, Creator, Changer, MemberChange, OtherChange
  <2>4. DomainChange(g)
    BY <1>2, <2>2, <2>3 DEF DomainChange
  <2>5. Fit(g)
    BY <2>2, <2>3, <2>4 DEF Changer, Fit
  <2> QED
    BY <1>2, <2>1, <2>2, <2>3, <2>5
<1> QED
  BY <1>1, <1>2

LEMMA SoundCommit ==
    ASSUME Sound, NEW r \in Requests, CommitPrimary(r)
    PROVE  Sound'
<1>1. KeepNames /\ excess' = excess
      /\ handler' = [q \in Requests |-> IF q = r THEN Idle ELSE Overtaken(handler[q])]
  BY CommitChanges
<1>2. ASSUME NEW q \in Requests
      PROVE  /\ handler'[q] \in Handlers /\ Fit(handler'[q])
             /\ handler'[q] # Idle => handler'[q].id \in Ids(handler'[q].kind) \cup {0}
             /\ handler'[q].held = {} \/ (handler'[q].held = handler[q].held)
  <2>1. CASE q = r
    BY <1>1, <2>1, IdleHandler
  <2>2. CASE q # r
    <3>1. handler[q] \in Handlers /\ Fit(handler[q]) /\ (handler[q] # Idle => handler[q].id \in Ids(handler[q].kind) \cup {0})
      BY DEF Sound
    <3>2. handler'[q] = Overtaken(handler[q])
      BY <1>1, <2>2
    <3> QED
      BY <3>1, <3>2, OvertakenFits
  <2> QED
    BY <2>1, <2>2
<1>3. handler' \in [Requests -> Handlers]
  BY <1>1, <1>2
<1>4. \A p, q \in Requests : p # q => handler'[p].held \cap handler'[q].held = {}
  BY <1>2 DEF Sound
<1>5. FitNext
  BY <1>2, <1>3, <1>4 DEF FitNext
<1> QED
  BY <1>1, <1>5, SoundNames

LEMMA SoundFail ==
    ASSUME Sound, NEW r \in Requests, Fail(r)
    PROVE  Sound'
BY IdleHandler, SoundHandler DEF Fail, Throw

LEMMA SoundNext ==
    ASSUME Sound, [Next]_vars
    PROVE  Sound'
<1>1. CASE UNCHANGED vars
  <2>1. \A k \in Kinds : Ids(k)' = Ids(k) /\ Present(k)' = Present(k)
    BY <1>1 DEF vars, Ids, Present
  <2>2. \A k \in Kinds : \A i \in Present(k) : Unique(k, i, rows[k][i])'
    BY <1>1, <2>1 DEF Sound, Unique, vars
  <2> QED
    BY <1>1, <2>1, <2>2 DEF Sound, vars, Ids
<1>2. ASSUME NEW r \in Requests, MemberRequest(r) \/ DomainRequest(r) \/ QrRequest(r) \/ CampaignRequest(r)
      PROVE  Sound'
  <2>1. PICK h : Arrives(r, h)
    BY <1>2, MemberRequestArrives, DomainRequestArrives, OtherRequestArrives
  <2>2. h.held = {}
    BY <2>1 DEF Arrives
  <2> QED
    BY <2>1, <2>2, SoundHandler DEF Arrives
<1>3. ASSUME NEW r \in Requests, Step(r)
      PROVE  Sound'
  BY <1>3, SoundCount, SoundInsert, SoundUpdate, SoundStart, SoundFinish, SoundBeginTransaction, SoundUnset,
     SoundCommit, SoundFail DEF Step
<1> QED
  BY <1>1, <1>2, <1>3 DEF Next, Free

LEMMA AlwaysSound == Spec => []Sound
<1>1. Sound /\ [Next]_vars => Sound'
  BY SoundNext
<1> QED
  BY <1>1, SoundInit, PTL DEF Spec

\* Rows are of their kind, usernames and host names are taken once, a request changes a
\* row that was there and no row is locked by two transactions (TypeOK).
THEOREM TypeCorrect == Spec => []TypeOK
<1>1. Sound => TypeOK
  <2> SUFFICES ASSUME Sound PROVE TypeOK
    OBVIOUS
  <2>1. \A k \in Kinds : \A i \in Ids(k) : rows[k][i] \in Table[k] \cup {None}
    BY DEF Sound
  <2>2. ASSUME NEW r \in Requests, handler[r].pc # "idle"
        PROVE  \/ handler[r].id = 0 /\ handler[r].patch \in Table[handler[r].kind]
               \/ handler[r].id \in Ids(handler[r].kind) /\ handler[r].patch \in Patch[handler[r].kind] \cup {None}
    <3>1. CASE handler[r].id = 0
      BY <2>2, <3>1, AtWork DEF Creator
    <3>2. CASE handler[r].id # 0
      BY <2>2, <3>2, AtWork, PatchIsOfKind
    <3> QED
      BY <3>1, <3>2
  <2> QED
    BY <2>1, <2>2 DEF TypeOK, Sound
<1> QED
  BY <1>1, AlwaysSound, PTL

-----------------------------------------------------------------------------
(***************************************************************************)
(* The rules about one row.                                                *)
(***************************************************************************)
\* The steps that write rows.
LEMMA RowSteps ==
    ASSUME Sound, [Next]_vars
    PROVE  \/ UNCHANGED <<rows, dirty, excess>>
           \/ \E r \in Requests : \/ Insert(r) \/ Update(r) \/ StartVerification(r) \/ CommitPrimary(r)
                                  \/ \E verified \in BOOLEAN : FinishVerification(r, verified)
<1>1. ASSUME NEW r \in Requests, MemberRequest(r) \/ DomainRequest(r) \/ QrRequest(r) \/ CampaignRequest(r)
      PROVE  UNCHANGED <<rows, dirty, excess>>
  <2>1. PICK h : Arrives(r, h)
    BY <1>1, MemberRequestArrives, DomainRequestArrives, OtherRequestArrives
  <2> QED
    BY <2>1 DEF Arrives
<1>2. ASSUME NEW r \in Requests, Count(r) \/ BeginTransaction(r) \/ (\E i \in Ids("domain") : Unset(r, i)) \/ Fail(r)
      PROVE  UNCHANGED <<rows, dirty, excess>>
  BY <1>2 DEF Count, BeginTransaction, Unset, Fail
<1> QED
  BY <1>1, <1>2 DEF Next, Step, Free, vars

RowsSound == \A k \in Kinds : \A i \in Present(k) : <<k, i>> \notin dirty => RowOK(k, rows[k][i])

\* A row is written under RowOK or it is dirty from then on; dirty only grows.
LEMMA RowsSoundChange ==
    ASSUME Sound, RowsSound, NEW k \in Kinds, NEW i \in Ids(k), NEW row, Changes(k, i, row), dirty \subseteq dirty',
           row # None /\ <<k, i>> \notin dirty' => RowOK(k, row)
    PROVE  RowsSound'
<1>1. ASSUME NEW j \in Kinds, NEW x \in Present(j)', <<j, x>> \notin dirty'
      PROVE  RowOK(j, rows'[j][x])
  <2>1. x \in Ids(j) /\ rows'[j][x] # None /\ x \in Nat
    BY <1>1, IdsAreNat DEF Changes, Present, Ids, Sound
  <2>2. CASE <<j, x>> = <<k, i>>
    BY <1>1, <2>1, <2>2 DEF Changes
  <2>3. CASE <<j, x>> # <<k, i>>
    <3>1. rows'[j][x] = rows[j][x]
      BY <2>1, <2>3 DEF Changes
    <3> QED
      BY <1>1, <2>1, <3>1 DEF RowsSound, Present
  <2> QED
    BY <2>2, <2>3
<1> QED
  BY <1>1 DEF RowsSound, RowOK, InOrder

\* A change that is not stale was checked against the row it changes.
LEMMA FreshRow ==
    ASSUME NEW h, h.id # 0, ~Stale(h)
    PROVE  rows[h.kind][h.id] = h.row
BY DEF Stale

LEMMA TouchesRow ==
    ASSUME NEW h
    PROVE  <<h.kind, h.id>> \in Touches(h)
BY DEF Touches

LEMMA RowsSoundUpdate ==
    ASSUME Sound, RowsSound, NEW r \in Requests, Update(r)
    PROVE  RowsSound'
<1> DEFINE h == handler[r]
<1>1. /\ Changer(h) /\ h.kind \in Kinds /\ h.id \in Ids(h.kind)
      /\ \/ rows' = rows /\ dirty' = dirty
         \/ /\ h.id \in Present(h.kind)
            /\ Changes(h.kind, h.id, After(h))
            /\ \/ h.patch # None /\ After(h) = Patched(rows[h.kind][h.id], h.patch)
               \/ After(h) = None
            /\ dirty' = IF Stale(h) THEN dirty \cup Touches(h) ELSE dirty
  BY UpdateChanges
<1>2. CASE rows' = rows /\ dirty' = dirty
  BY <1>2 DEF RowsSound, RowOK, InOrder, Present, Ids
<1>3. CASE /\ h.id \in Present(h.kind)
           /\ Changes(h.kind, h.id, After(h))
           /\ \/ h.patch # None /\ After(h) = Patched(rows[h.kind][h.id], h.patch)
              \/ After(h) = None
           /\ dirty' = IF Stale(h) THEN dirty \cup Touches(h) ELSE dirty
  <2>1. After(h) # None /\ <<h.kind, h.id>> \notin dirty' => RowOK(h.kind, After(h))
    <3> SUFFICES ASSUME After(h) # None, <<h.kind, h.id>> \notin dirty' PROVE RowOK(h.kind, After(h))
      OBVIOUS
    <3>1. ~Stale(h)
      BY <1>3, TouchesRow
    <3>2. After(h) = Patched(h.row, h.patch) /\ h.patch # None
      BY <1>1, <1>3, <3>1, FreshRow DEF Changer
    <3>3. RowOK(h.kind, h.row)
      <4>1. <<h.kind, h.id>> \notin dirty /\ h.id \in Present(h.kind)
        BY <1>3
      <4> QED
        BY <1>1, <3>1, <4>1, FreshRow DEF RowsSound, Changer
    <3> QED
      BY <1>1, <3>2, <3>3 DEF Changer
  <2>2. dirty \subseteq dirty'
    BY <1>3
  <2> QED
    BY <1>1, <1>3, <2>1, <2>2, RowsSoundChange
<1> QED
  BY <1>1, <1>2, <1>3

LEMMA RowsSoundInsert ==
    ASSUME Sound, RowsSound, NEW r \in Requests, Insert(r)
    PROVE  RowsSound'
<1> DEFINE h == handler[r]
<1>1. /\ Creator(h) /\ dirty' = dirty /\ h.kind \in Kinds
      /\ rows' = rows \/ Adds(h.kind, h.patch)
  BY InsertAdds
<1>2. CASE rows' = rows
  BY <1>1, <1>2 DEF RowsSound, RowOK, InOrder, Present, Ids
<1>3. CASE Adds(h.kind, h.patch)
  <2> DEFINE n == Len(rows[h.kind]) + 1
  <2>1. ASSUME NEW j \in Kinds, NEW x \in Present(j)', <<j, x>> \notin dirty'
        PROVE  RowOK(j, rows'[j][x])
    <3>1. x \in DOMAIN rows'[j] /\ rows'[j][x] # None
      BY <2>1 DEF Present, Ids
    <3>2. CASE x \in Ids(j)
      <4>1. rows'[j][x] = rows[j][x]
        BY <1>3, <3>2 DEF Adds
      <4> QED
        BY <1>1, <2>1, <3>1, <3>2, <4>1 DEF RowsSound, Present
    <3>3. CASE x \notin Ids(j)
      <4>1. j = h.kind /\ x = n
        BY <1>3, <3>1, <3>3 DEF Adds, Ids
      <4> QED
        BY <1>1, <1>3, <4>1 DEF Adds, Creator
    <3> QED
      BY <3>2, <3>3
  <2> QED
    BY <2>1 DEF RowsSound, RowOK, InOrder
<1> QED
  BY <1>1, <1>2, <1>3

LEMMA RowsSoundStart ==
    ASSUME Sound, RowsSound, NEW r \in Requests, StartVerification(r)
    PROVE  RowsSound'
<1> DEFINE h == handler[r]
<1>1. /\ h.id \in Ids("domain") /\ Changes("domain", h.id, After(h)) /\ After(h) \in Domain
      /\ After(h) = [rows["domain"][h.id] EXCEPT !.status = "VERIFYING"]
      /\ dirty \subseteq dirty'
  BY StartChanges
<1>2. rows["domain"][h.id] \in Domain
  BY <1>1, DomainRow
<1>3. After(h).status = "VERIFYING"
  BY <1>1, <1>2 DEF Domain
<1>4. RowOK("domain", After(h))
  BY <1>3 DEF RowOK
<1> QED
  BY <1>1, <1>4, RowsSoundChange DEF Kinds

LEMMA RowsSoundFinish ==
    ASSUME Sound, RowsSound, NEW r \in Requests, NEW verified \in BOOLEAN, FinishVerification(r, verified)
    PROVE  RowsSound'
<1> DEFINE h == handler[r]
           d == rows["domain"][h.id]
           e == [d EXCEPT !.status = IF verified THEN "VERIFIED" ELSE "FAILED",
                          !.proven = IF verified THEN h.row.name ELSE @]
<1>1. /\ h.kind = "domain" /\ Changer(h) /\ h.id \in Ids("domain") /\ Changes("domain", h.id, e) /\ e \in Domain /\ d \in Domain
      /\ dirty' = IF Stale(h) THEN dirty \cup Touches(h) ELSE dirty
  BY FinishChanges
<1>2. <<"domain", h.id>> \notin dirty' => RowOK("domain", e)
  <2> SUFFICES ASSUME <<"domain", h.id>> \notin dirty' PROVE RowOK("domain", e)
    OBVIOUS
  <2>1. ~Stale(h)
    BY <1>1, TouchesRow
  <2>2. d = h.row
    BY <1>1, <2>1, FreshRow DEF Changer
  <2>3. CASE verified
    BY <1>1, <2>2, <2>3 DEF RowOK, Domain
  <2>4. CASE ~verified
    BY <1>1, <2>4 DEF RowOK, Domain
  <2> QED
    BY <2>3, <2>4
<1>3. dirty \subseteq dirty'
  BY <1>1
<1> QED
  BY <1>1, <1>2, <1>3, RowsSoundChange DEF Kinds

LEMMA RowsSoundCommit ==
    ASSUME Sound, RowsSound, NEW r \in Requests, CommitPrimary(r)
    PROVE  RowsSound'
<1> DEFINE h == handler[r]
<1>1. /\ Changer(h) /\ h.kind = "domain" /\ h.id \in Ids("domain") /\ h.patch # None
      /\ KeepNames
      /\ \A i \in Ids("domain") : rows'["domain"][i] = Committed(h, i)
      /\ After(h) = Patched(rows["domain"][h.id], h.patch)
      /\ dirty \subseteq dirty' /\ (rows["domain"][h.id] # h.row => Touches(h) \subseteq dirty')
  BY CommitChanges, KindsAre DEF Kinds
<1>2. ASSUME NEW i \in Ids("domain"), <<"domain", i>> \notin dirty'
      PROVE  RowOK("domain", rows'["domain"][i])
  <2>1. RowOK("domain", rows["domain"][i]) /\ rows["domain"][i] \in Domain
    BY <1>1, <1>2, DomainRow DEF RowsSound, Kinds
  <2>2. CASE i \in h.held
    <3>1. rows'["domain"][i] = [rows["domain"][i] EXCEPT !.primary = FALSE]
      BY <1>1, <2>2 DEF Committed
    <3> QED
      BY <2>1, <3>1 DEF RowOK, Domain
  <2>3. CASE i \notin h.held /\ i = h.id
    <3>1. rows["domain"][i] = h.row
      BY <1>1, <1>2, <2>3, TouchesRow
    <3>2. rows'["domain"][i] = Patched(h.row, h.patch)
      BY <1>1, <2>3, <3>1 DEF Committed
    <3> QED
      BY <1>1, <2>1, <3>1, <3>2 DEF Changer
  <2>4. CASE i \notin h.held /\ i # h.id
    BY <1>1, <2>1, <2>4 DEF Committed
  <2> QED
    BY <2>2, <2>3, <2>4
<1>3. ASSUME NEW j \in Kinds, NEW x \in Present(j)', <<j, x>> \notin dirty'
      PROVE  RowOK(j, rows'[j][x])
  <2>1. x \in Ids(j) /\ rows'[j][x] # None
    BY <1>1, <1>3 DEF Present, Ids, KeepNames
  <2>2. CASE j = "domain"
    BY <1>2, <1>3, <2>1, <2>2
  <2>3. CASE j # "domain"
    <3>1. rows'[j] = rows[j]
      BY <1>1, <2>3 DEF KeepNames
    <3> QED
      BY <1>1, <1>3, <2>1, <3>1 DEF RowsSound, Present
  <2> QED
    BY <2>2, <2>3
<1> QED
  BY <1>3 DEF RowsSound, RowOK, InOrder

LEMMA RowsSoundInit == Init => RowsSound
BY WorkspaceConstants DEF Init, RowsSound, RowOK, InOrder, Present, Ids, Kinds

LEMMA AlwaysRowsSound == Spec => []RowsSound
<1>1. Sound /\ RowsSound /\ [Next]_vars => RowsSound'
  <2> SUFFICES ASSUME Sound, RowsSound, [Next]_vars PROVE RowsSound'
    OBVIOUS
  <2>1. CASE UNCHANGED <<rows, dirty, excess>>
    BY <2>1 DEF RowsSound, RowOK, InOrder, Present, Ids
  <2> QED
    BY <2>1, RowSteps, RowsSoundInsert, RowsSoundUpdate, RowsSoundStart, RowsSoundFinish, RowsSoundCommit
<1> QED
  BY <1>1, AlwaysSound, RowsSoundInit, PTL DEF Spec

\* A domain is only VERIFIED, ACTIVE or DISABLED under the name that a DNS check proved,
\* unless requests on that row overlapped (ServedNameWasProven).
THEOREM ServedNamesAreProven == Spec => []ServedNameWasProven
<1>1. Sound /\ RowsSound => ServedNameWasProven
  BY DomainRow DEF RowsSound, RowOK, ServedNameWasProven, Kinds
<1> QED
  BY <1>1, AlwaysSound, AlwaysRowsSound, PTL

\* Partial updates are merged with the row they change and validated: colours differ and a
\* campaign ends after it starts, unless two updates were validated without each other
\* (MergedRowsValid).
THEOREM MergedRowsAreValid == Spec => []MergedRowsValid
<1>1. Sound /\ RowsSound => MergedRowsValid
  <2> SUFFICES ASSUME Sound, RowsSound PROVE MergedRowsValid
    OBVIOUS
  <2>1. ASSUME NEW k \in {"qr", "campaign"}, NEW i \in Ids(k), <<k, i>> \notin dirty
        PROVE  RowOK(k, rows[k][i])
    <3>1. k \in Kinds /\ rows[k][i] # None
      BY KindsAre DEF Sound, Kinds
    <3> QED
      BY <2>1, <3>1 DEF RowsSound, Present
  <2> QED
    BY <2>1 DEF MergedRowsValid, RowOK
<1> QED
  BY <1>1, AlwaysSound, AlwaysRowsSound, PTL

-----------------------------------------------------------------------------
(***************************************************************************)
(* Archived campaigns and owners: tables that only updates change.         *)
(***************************************************************************)
\* A step changes one member or campaign by an update, or keeps or adds rows.
LEMMA TableSteps ==
    ASSUME Sound, [Next]_vars, NEW k \in {"member", "campaign"}
    PROVE  /\ dirty \subseteq dirty'
           /\ Ids(k) \subseteq Ids(k)'
           /\ \/ \A i \in Ids(k) : rows'[k][i] = rows[k][i]
              \/ \E r \in Requests :
                   LET h == handler[r] IN
                   /\ Changer(h) /\ h.kind = k /\ h.pc = "write" /\ h.id \in Present(k)
                   /\ \/ h.patch \in Patch[k] /\ After(h) = Patched(rows[k][h.id], h.patch)
                      \/ k = "member" /\ h.patch = None
                   /\ rows'[k][h.id] = After(h)
                   /\ \A i \in Ids(k) \ {h.id} : rows'[k][i] = rows[k][i]
                   /\ Stale(h) => Touches(h) \subseteq dirty'
<1>k. k \in Kinds /\ k # "domain" /\ Ids(k) \subseteq Nat
  BY IdsAreNat DEF Kinds, Sound
<1>1. CASE UNCHANGED <<rows, dirty, excess>>
  BY <1>1 DEF Ids
<1>2. ASSUME NEW r \in Requests, Insert(r)
      PROVE  dirty' = dirty /\ Ids(k) \subseteq DOMAIN rows'[k] /\ \A i \in Ids(k) : rows'[k][i] = rows[k][i]
  <2>1. dirty' = dirty /\ (rows' = rows \/ Adds(handler[r].kind, handler[r].patch))
    BY <1>2, InsertAdds
  <2>2. CASE rows' = rows
    BY <2>1, <2>2 DEF Ids
  <2>3. CASE Adds(handler[r].kind, handler[r].patch)
    BY <1>k, <2>1, <2>3 DEF Adds, Ids
  <2> QED
    BY <2>1, <2>2, <2>3
<1>3. ASSUME NEW r \in Requests, StartVerification(r) \/ CommitPrimary(r)
                                 \/ \E verified \in BOOLEAN : FinishVerification(r, verified)
      PROVE  dirty \subseteq dirty' /\ Ids(k) \subseteq DOMAIN rows'[k] /\ \A i \in Ids(k) : rows'[k][i] = rows[k][i]
  <2>1. CASE CommitPrimary(r)
    <3>1. KeepNames /\ dirty \subseteq dirty'
      BY <2>1, CommitChanges
    <3> QED
      BY <1>k, <3>1 DEF KeepNames, Ids
  <2>2. CASE StartVerification(r) \/ \E verified \in BOOLEAN : FinishVerification(r, verified)
    <3>1. dirty \subseteq dirty' /\ \E row : Changes("domain", handler[r].id, row)
      <4>1. ASSUME StartVerification(r) PROVE dirty \subseteq dirty' /\ \E row : Changes("domain", handler[r].id, row)
        <5>1. Changes("domain", handler[r].id, After(handler[r])) /\ dirty \subseteq dirty'
          BY <4>1, StartChanges
        <5> QED
          BY <5>1
      <4>2. ASSUME NEW v \in BOOLEAN, FinishVerification(r, v)
            PROVE  dirty \subseteq dirty' /\ \E row : Changes("domain", handler[r].id, row)
        <5> DEFINE d == rows["domain"][handler[r].id]
                   e == [d EXCEPT !.status = IF v THEN "VERIFIED" ELSE "FAILED",
                                  !.proven = IF v THEN handler[r].row.name ELSE @]
        <5>1. Changes("domain", handler[r].id, e) /\ dirty \subseteq dirty'
          BY <4>2, FinishChanges
        <5> HIDE DEF e
        <5> QED
          BY <5>1
      <4> QED
        BY <2>2, <4>1, <4>2
    <3>2. \A i \in Ids(k) : i \in Nat /\ <<k, i>> # <<"domain", handler[r].id>>
      BY <1>k
    <3> QED
      BY <1>k, <3>1, <3>2 DEF Changes, Ids
  <2> QED
    BY <1>3, <2>1, <2>2
<1>4. ASSUME NEW r \in Requests, Update(r)
      PROVE  LET h == handler[r] IN
             /\ dirty \subseteq dirty' /\ Ids(k) \subseteq DOMAIN rows'[k]
             /\ \/ \A i \in Ids(k) : rows'[k][i] = rows[k][i]
                \/ /\ Changer(h) /\ h.kind = k /\ h.pc = "write" /\ h.id \in Present(k)
                   /\ \/ h.patch \in Patch[k] /\ After(h) = Patched(rows[k][h.id], h.patch)
                      \/ k = "member" /\ h.patch = None
                   /\ rows'[k][h.id] = After(h)
                   /\ \A i \in Ids(k) \ {h.id} : rows'[k][i] = rows[k][i]
                   /\ Stale(h) => Touches(h) \subseteq dirty'
  <2> DEFINE h == handler[r]
  <2>1. /\ Changer(h) /\ h.pc = "write"
        /\ \/ rows' = rows /\ dirty' = dirty
           \/ /\ h.id \in Present(h.kind) /\ Changes(h.kind, h.id, After(h))
              /\ \/ h.patch \in Patch[h.kind] /\ After(h) = Patched(rows[h.kind][h.id], h.patch)
                 \/ h.kind = "member" /\ h.patch = None
              /\ dirty' = IF Stale(h) THEN dirty \cup Touches(h) ELSE dirty
    BY <1>4, UpdateChanges
  <2>2. CASE rows' = rows /\ dirty' = dirty
    BY <2>2 DEF Ids
  <2>3. CASE /\ h.id \in Present(h.kind) /\ Changes(h.kind, h.id, After(h))
             /\ \/ h.patch \in Patch[h.kind] /\ After(h) = Patched(rows[h.kind][h.id], h.patch)
                \/ h.kind = "member" /\ h.patch = None
             /\ dirty' = IF Stale(h) THEN dirty \cup Touches(h) ELSE dirty
    <3>1. dirty \subseteq dirty' /\ (Stale(h) => Touches(h) \subseteq dirty')
      BY <2>3
    <3>2. DOMAIN rows'[k] = Ids(k) /\ \A i \in Ids(k) : <<k, i>> # <<h.kind, h.id>> => rows'[k][i] = rows[k][i]
      BY <1>k, <2>3 DEF Changes
    <3>3. CASE h.kind = k
      <4>1. rows'[k][h.id] = After(h)
        BY <2>3, <3>3 DEF Changes
      <4> QED
        BY <2>1, <2>3, <3>1, <3>2, <3>3, <4>1
    <3>4. CASE h.kind # k
      BY <3>1, <3>2, <3>4
    <3> QED
      BY <3>3, <3>4
  <2> QED
    BY <2>1, <2>2, <2>3
<1>5. Ids(k)' = DOMAIN rows'[k]
  BY DEF Ids
<1> QED
  BY <1>1, <1>2, <1>3, <1>4, <1>5, RowSteps

\* An archived campaign stays archived, unless it was archived between the check of another
\* transition and its write (ArchivedIsFinal).
THEOREM ArchivedStays == Spec => ArchivedIsFinal
<1> DEFINE A == \A i \in Ids("campaign") :
                   rows["campaign"][i].status = "ARCHIVED" /\ <<"campaign", i>> \notin dirty'
                   => rows'["campaign"][i].status = "ARCHIVED"
<1>1. Sound /\ [Next]_vars => [A]_vars
  <2> SUFFICES ASSUME Sound, [Next]_vars, NEW i \in Ids("campaign"),
                      rows["campaign"][i].status = "ARCHIVED", <<"campaign", i>> \notin dirty'
               PROVE  rows'["campaign"][i].status = "ARCHIVED"
    OBVIOUS
  <2>1. CASE rows'["campaign"][i] = rows["campaign"][i]
    BY <2>1
  <2>2. CASE rows'["campaign"][i] # rows["campaign"][i]
    <3>1. PICK r \in Requests :
             LET h == handler[r] IN
             /\ Changer(h) /\ h.kind = "campaign" /\ h.id = i
             /\ h.patch \in Patch["campaign"] /\ After(h) = Patched(rows["campaign"][i], h.patch)
             /\ rows'["campaign"][i] = After(h)
             /\ Stale(h) => Touches(h) \subseteq dirty'
      BY <2>2, TableSteps
    <3>2. ~Stale(handler[r])
      BY <3>1, TouchesRow
    <3>3. rows["campaign"][i] = handler[r].row
      BY <3>1, <3>2, FreshRow DEF Changer
    <3> QED
      BY <3>1, <3>3 DEF Changer
  <2> QED
    BY <2>1, <2>2
<1>2. [][A]_vars => ArchivedIsFinal
  <2>1. A => (\A i \in Ids("campaign") :
                 rows["campaign"][i].status = "ARCHIVED" /\ <<"campaign", i>> \notin dirty'
                 => rows'["campaign"][i].status = "ARCHIVED")
    OBVIOUS
  <2> QED
    BY <2>1, PTL DEF ArchivedIsFinal
<1> QED
  BY <1>1, <1>2, AlwaysSound, PTL DEF Spec

\* A workspace always has an owner, unless an owner was demoted or removed by a request whose
\* reading of the owners was out of date (OwnerRemains).
THEOREM AnOwnerRemains == Spec => []OwnerRemains
<1>1. Init => OwnerRemains
  <2> SUFFICES ASSUME Init PROVE 1 \in Owners
    BY DEF OwnerRemains
  <2>1. rows["member"] = <<[user |-> Founder, role |-> "OWNER"], [user |-> Partner, role |-> "OWNER"]>>
    BY DEF Init
  <2>2. [user |-> Founder, role |-> "OWNER"] # None
    BY WorkspaceConstants, NoneIsNoRow, KindsAre DEF Member, WorkspaceRole, Kinds
  <2> QED
    BY <2>1, <2>2 DEF Owners, Present, Ids
<1>2. Sound /\ OwnerRemains /\ [Next]_vars => OwnerRemains'
  <2> SUFFICES ASSUME Sound, OwnerRemains, [Next]_vars, TheOwners \notin dirty' PROVE \E i : i \in Owners'
    BY DEF OwnerRemains
  <2>1. dirty \subseteq dirty' /\ Ids("member") \subseteq Ids("member")'
    BY TableSteps
  <2>2. Owners # {}
    BY <2>1 DEF OwnerRemains
  <2>3. ASSUME NEW i \in Owners, rows'["member"][i] = rows["member"][i] PROVE i \in Owners'
    BY <2>1, <2>3 DEF Owners, Present
  <2>4. CASE \A i \in Ids("member") : rows'["member"][i] = rows["member"][i]
    <3>1. PICK i : i \in Owners
      BY <2>2
    <3>2. rows'["member"][i] = rows["member"][i]
      BY <2>4, <3>1 DEF Owners, Present
    <3> QED
      BY <2>3, <3>1, <3>2
  <2>5. ASSUME NEW r \in Requests,
               LET h == handler[r] IN
               /\ Changer(h) /\ h.kind = "member" /\ h.pc = "write" /\ h.id \in Present("member")
               /\ \/ h.patch \in Patch["member"] /\ After(h) = Patched(rows["member"][h.id], h.patch)
                  \/ h.patch = None
               /\ rows'["member"][h.id] = After(h)
               /\ \A i \in Ids("member") \ {h.id} : rows'["member"][i] = rows["member"][i]
               /\ Stale(h) => Touches(h) \subseteq dirty'
        PROVE  \E i : i \in Owners'
    <3> DEFINE h == handler[r]
    <3>1. \A i \in Owners \ {h.id} : i \in Owners'
      BY <2>3, <2>5 DEF Owners, Present
    <3>2. CASE h.id \notin Owners
      BY <2>2, <3>1, <3>2
    <3>3. CASE h.id \in Owners
      <4>1. ~Stale(h)
        BY <2>5, <3>3 DEF Touches
      <4>2. rows["member"][h.id] = h.row /\ h.row.role = "OWNER"
        BY <2>5, <3>3, <4>1, FreshRow DEF Owners, Changer
      <4>3. MemberChange(h)
        BY <2>5 DEF Changer, DomainChange, OtherChange
      <4>4. CASE h.look = "owners"
        <5>1. h.seen # {} /\ Sees(h) = h.seen
          BY <2>5, <4>1, <4>3, <4>4 DEF MemberChange, Stale
        <5>2. Sees(h) = OtherOwners(h.id)
          BY <4>4 DEF Sees
        <5> QED
          BY <3>1, <5>1, <5>2 DEF OtherOwners
      <4>5. CASE h.look = "row" /\ h.patch = [role |-> "OWNER"]
        <5>1. rows["member"][h.id] \in Member
          BY <2>5, KindsAre DEF Sound, Present, Kinds
        <5>2. [role |-> "OWNER"] \in Patch["member"]
          BY PatchesAre DEF WorkspaceRole
        <5>3. After(h) = Patched(rows["member"][h.id], h.patch)
          BY <2>5, <4>5, <5>2, KindsAre DEF Kinds
        <5>4. After(h) \in Member /\ After(h).role = "OWNER"
          BY <4>5, <5>1, <5>2, <5>3, PatchedMember
        <5>5. After(h) # None
          BY <5>4, KindsAre DEF Kinds
        <5> QED
          BY <2>1, <2>5, <5>4, <5>5 DEF Owners, Present
      <4> QED
        BY <2>5, <4>2, <4>3, <4>4, <4>5 DEF MemberChange
    <3> QED
      BY <3>2, <3>3
  <2> QED
    BY <2>4, <2>5, TableSteps
<1> QED
  BY <1>1, <1>2, AlwaysSound, PTL DEF Spec

-----------------------------------------------------------------------------
(***************************************************************************)
(* The limits of a plan.                                                   *)
(***************************************************************************)
\* A table that gains at most one live row.
LEMMA UsageGrows ==
    ASSUME Sound, NEW k \in Kinds, NEW n, Live(k)' \subseteq Live(k) \cup {n}
    PROVE  /\ Usage(k)' \in Nat /\ Usage(k)' <= Usage(k) + 1
           /\ Live(k)' \subseteq Live(k) => Usage(k)' <= Usage(k)
<1>1. IsFiniteSet(Live(k)) /\ Usage(k) \in Nat /\ Usage(k) = Cardinality(Live(k))
  BY UsageIsNat DEF Usage
<1>2. PICK S : S = Live(k)'
  OBVIOUS
<1>3. Usage(k)' = Cardinality(S)
  BY <1>2 DEF Usage
<1>4. IsFiniteSet(Live(k) \cup {n}) /\ Cardinality(Live(k) \cup {n}) <= Usage(k) + 1
      /\ Cardinality(Live(k) \cup {n}) \in Nat
  <2>1. CASE n \in Live(k)
    <3>1. Live(k) \cup {n} = Live(k)
      BY <2>1
    <3> QED
      BY <1>1, <3>1
  <2>2. CASE n \notin Live(k)
    BY <1>1, <2>2, FS_AddElement
  <2> QED
    BY <2>1, <2>2
<1>5. Cardinality(S) <= Cardinality(Live(k) \cup {n}) /\ Cardinality(S) \in Nat
  BY <1>2, <1>4, FS_Subset, FS_CardinalityType
<1>6. Live(k)' \subseteq Live(k) => Cardinality(S) <= Cardinality(Live(k))
  BY <1>1, <1>2, FS_Subset
<1> QED
  BY <1>1, <1>3, <1>4, <1>5, <1>6

\* A change of a live row leaves it live or deletes it; a deleted row stays deleted.
LEMMA LiveChange ==
    ASSUME Sound, NEW k \in Kinds, NEW i \in Ids(k), NEW row, Changes(k, i, row),
           row = None \/ (k # "member" => (rows[k][i].deleted => row.deleted)), i \in Present(k)
    PROVE  \A j \in Kinds : Live(j)' \subseteq Live(j)
<1> SUFFICES ASSUME NEW j \in Kinds, NEW x \in Live(j)' PROVE x \in Live(j)
  OBVIOUS
<1>1. x \in Ids(j) /\ x \in Nat /\ rows'[j][x] # None /\ (j = "member" \/ ~rows'[j][x].deleted)
  BY IdsAreNat DEF Sound, Changes, Live, Present, Ids
<1>2. CASE <<j, x>> = <<k, i>>
  BY <1>1, <1>2 DEF Changes, Live
<1>3. CASE <<j, x>> # <<k, i>>
  <2>1. rows'[j][x] = rows[j][x]
    BY <1>1, <1>3 DEF Changes
  <2> QED
    BY <1>1, <2>1 DEF Live, Present
<1> QED
  BY <1>2, <1>3

LEMMA LiveUpdate ==
    ASSUME Sound, NEW r \in Requests, Update(r)
    PROVE  excess' = excess /\ \A j \in Kinds : Live(j)' \subseteq Live(j)
<1> DEFINE h == handler[r]
<1>1. /\ excess' = excess /\ h.kind \in Kinds /\ h.id \in Ids(h.kind)
      /\ \/ rows' = rows
         \/ /\ h.id \in Present(h.kind) /\ rows[h.kind][h.id] \in Table[h.kind]
            /\ Changes(h.kind, h.id, After(h))
            /\ \/ h.patch \in Patch[h.kind] /\ After(h) = Patched(rows[h.kind][h.id], h.patch)
               \/ After(h) = None
  BY UpdateChanges
<1>2. CASE rows' = rows
  BY <1>1, <1>2 DEF Live, Present, Ids
<1>3. CASE /\ h.id \in Present(h.kind) /\ rows[h.kind][h.id] \in Table[h.kind]
           /\ Changes(h.kind, h.id, After(h))
           /\ \/ h.patch \in Patch[h.kind] /\ After(h) = Patched(rows[h.kind][h.id], h.patch)
              \/ After(h) = None
  <2>1. After(h) = None \/ (h.kind # "member" => (rows[h.kind][h.id].deleted => After(h).deleted))
    BY <1>1, <1>3, PatchedRow
  <2> QED
    BY <1>1, <1>3, <2>1, LiveChange
<1> QED
  BY <1>1, <1>2, <1>3

LEMMA LiveStart ==
    ASSUME Sound, NEW r \in Requests, StartVerification(r)
    PROVE  excess' = excess /\ \A j \in Kinds : Live(j)' \subseteq Live(j)
<1> DEFINE h == handler[r]
<1>1. /\ h.id \in Ids("domain") /\ Changes("domain", h.id, After(h)) /\ excess' = excess
      /\ After(h) = [rows["domain"][h.id] EXCEPT !.status = "VERIFYING"]
  BY StartChanges
<1>2. rows["domain"][h.id] \in Domain /\ h.id \in Present("domain")
  BY <1>1, DomainRow
<1>3. rows["domain"][h.id].deleted => After(h).deleted
  BY <1>1, <1>2 DEF Domain
<1> QED
  BY <1>1, <1>2, <1>3, LiveChange DEF Kinds

LEMMA LiveFinish ==
    ASSUME Sound, NEW r \in Requests, NEW verified \in BOOLEAN, FinishVerification(r, verified)
    PROVE  excess' = excess /\ \A j \in Kinds : Live(j)' \subseteq Live(j)
<1> DEFINE h == handler[r]
           d == rows["domain"][h.id]
           e == [d EXCEPT !.status = IF verified THEN "VERIFIED" ELSE "FAILED",
                          !.proven = IF verified THEN h.row.name ELSE @]
<1>1. h.id \in Ids("domain") /\ Changes("domain", h.id, e) /\ excess' = excess /\ d \in Domain
  BY FinishChanges
<1>2. h.id \in Present("domain")
  BY <1>1, DomainRow
<1>3. d.deleted => e.deleted
  BY <1>1 DEF Domain
<1> QED
  BY <1>1, <1>2, <1>3, LiveChange DEF Kinds

LEMMA LiveCommit ==
    ASSUME Sound, NEW r \in Requests, CommitPrimary(r)
    PROVE  excess' = excess /\ \A j \in Kinds : Live(j)' \subseteq Live(j)
<1> DEFINE h == handler[r]
<1>1. /\ excess' = excess /\ h.id \in Ids("domain") /\ h.patch \in Patch["domain"] /\ KeepNames
      /\ \A i \in Ids("domain") : rows'["domain"][i] = Committed(h, i)
      /\ After(h) = Patched(rows["domain"][h.id], h.patch)
  BY CommitChanges
<1>2. ASSUME NEW i \in Ids("domain") PROVE rows["domain"][i].deleted => rows'["domain"][i].deleted
  <2>1. rows["domain"][i] \in Domain
    BY DomainRow
  <2>2. CASE i = h.id /\ i \notin h.held
    <3>1. rows'["domain"][i] = Patched(rows["domain"][i], h.patch)
      BY <1>1, <2>2 DEF Committed
    <3> QED
      BY <1>1, <2>1, <3>1, PatchedDomain
  <2>3. CASE ~(i = h.id /\ i \notin h.held)
    BY <1>1, <2>1, <2>3 DEF Committed, Domain
  <2> QED
    BY <2>2, <2>3
<1>3. ASSUME NEW j \in Kinds, NEW x \in Live(j)' PROVE x \in Live(j)
  <2>1. x \in Ids(j) /\ rows'[j][x] # None /\ (j = "member" \/ ~rows'[j][x].deleted)
    BY <1>1 DEF KeepNames, Live, Present, Ids
  <2>2. CASE j = "domain"
    BY <1>2, <2>1, <2>2, DomainRow DEF Live
  <2>3. CASE j # "domain"
    BY <1>1, <2>1, <2>3 DEF KeepNames, Live, Present
  <2> QED
    BY <2>2, <2>3
<1> QED
  BY <1>1, <1>3

\* What a plan allows is exceeded by at most the creations that relied on a count that was
\* no longer true (LimitsHold).
THEOREM LimitsAlwaysHold == Spec => []LimitsHold
<1>1. Init => LimitsHold
  <2> SUFFICES ASSUME Init, NEW k \in Kinds, Limit[k] # None PROVE Usage(k) <= Limit[k] + excess[k]
    BY DEF LimitsHold
  <2>1. Sound
    BY SoundInit
  <2>2. excess[k] = 0 /\ Limit[k] \in Nat /\ Limit[k] >= IF k \in {"member", "domain"} THEN 2 ELSE 1
    BY WorkspaceConstants DEF Init
  <2>3. CASE k \in {"member", "domain"}
    <3>1. Ids(k) = 1 .. 2
      BY <2>3 DEF Init, Ids
    <3>2. Live(k) \subseteq 1 .. 2
      BY <3>1 DEF Live, Present
    <3>3. Cardinality(Live(k)) <= 2
      <4>1. 1 .. 2 = {1, 2} /\ 1 # 2
        OBVIOUS
      <4>2. IsFiniteSet({1}) /\ Cardinality({1}) = 1
        BY FS_Singleton
      <4>3. IsFiniteSet({1} \cup {2}) /\ Cardinality({1} \cup {2}) = 2
        BY <4>1, <4>2, FS_AddElement
      <4>4. Live(k) \in SUBSET ({1} \cup {2})
        BY <3>2, <4>1
      <4> QED
        BY <4>3, <4>4, FS_Subset
    <3> QED
      BY <2>1, <2>2, <2>3, <3>3, UsageIsNat DEF Usage
  <2>4. CASE k \notin {"member", "domain"}
    <3>1. Ids(k) = {1}
      BY <2>4, KindsAre DEF Init, Ids
    <3>2. Live(k) \subseteq {1} /\ Cardinality({1}) = 1 /\ IsFiniteSet({1})
      BY <3>1, FS_Singleton DEF Live, Present
    <3>3. Cardinality(Live(k)) <= 1
      BY <3>2, FS_Subset
    <3> QED
      BY <2>1, <2>2, <2>4, <3>3, UsageIsNat DEF Usage
  <2> QED
    BY <2>3, <2>4
<1>2. Sound /\ LimitsHold /\ [Next]_vars => LimitsHold'
  <2> SUFFICES ASSUME Sound, LimitsHold, [Next]_vars, NEW k \in Kinds, Limit[k] # None
               PROVE  Usage(k)' <= Limit[k] + excess'[k]
    BY DEF LimitsHold
  <2>1. /\ Usage(k) \in Nat /\ Limit[k] \in Nat /\ excess[k] \in Nat
        /\ Usage(k) <= Limit[k] + excess[k]
    BY UsageIsNat, WorkspaceConstants DEF LimitsHold, Sound
  <2>3. CASE excess' = excess /\ Live(k)' \subseteq Live(k)
    <3>1. Live(k)' \subseteq Live(k) \cup {0}
      BY <2>3
    <3>2. Usage(k)' \in Nat /\ Usage(k)' <= Usage(k)
      BY <2>3, <3>1, UsageGrows
    <3> QED
      BY <2>1, <2>3, <3>2
  <2>4. ASSUME NEW r \in Requests, Insert(r) PROVE Usage(k)' <= Limit[k] + excess'[k]
    <3> DEFINE h == handler[r]
               n == Len(rows[h.kind]) + 1
    <3>1. /\ Creator(h) /\ h.pc = "write" /\ h.kind \in Kinds
          /\ \/ rows' = rows /\ excess' = excess
             \/ /\ Adds(h.kind, h.patch)
                /\ excess' = [excess EXCEPT ![h.kind] = IF Stale(h) THEN @ + 1 ELSE @]
      BY <2>4, InsertAdds
    <3>2. CASE rows' = rows /\ excess' = excess
      BY <2>3, <3>2 DEF Live, Present, Ids
    <3>3. CASE /\ Adds(h.kind, h.patch)
               /\ excess' = [excess EXCEPT ![h.kind] = IF Stale(h) THEN @ + 1 ELSE @]
      <4>1. CASE k # h.kind
        <5>1. rows'[k] = rows[k] /\ excess'[k] = excess[k]
          BY <3>3, <4>1 DEF Adds, Sound
        <5>2. Usage(k)' = Usage(k)
          BY <5>1 DEF Usage, Live, Present, Ids
        <5> QED
          BY <2>1, <5>1, <5>2
      <4>2. CASE k = h.kind
        <5>1. Live(k)' \subseteq Live(k) \cup {n}
          BY <3>3, <4>2 DEF Adds, Live, Present, Ids
        <5>2. Usage(k)' \in Nat /\ Usage(k)' <= Usage(k) + 1
          BY <5>1, UsageGrows
        <5>3. CASE Stale(h)
          <6>1. excess'[k] = excess[k] + 1
            BY <3>3, <4>2, <5>3 DEF Sound
          <6> QED
            BY <2>1, <5>2, <6>1
        <5>4. CASE ~Stale(h)
          <6>1. excess'[k] = excess[k]
            BY <3>3, <4>2, <5>4 DEF Sound
          <6>2. h.seen = Usage(k) /\ h.seen + 1 <= Limit[k]
            BY <3>1, <4>2, <5>4 DEF Stale, Sees, Creator
          <6> QED
            BY <2>1, <5>2, <6>1, <6>2
        <5> QED
          BY <5>3, <5>4
      <4> QED
        BY <4>1, <4>2
    <3> QED
      BY <3>1, <3>2, <3>3
  <2>5. CASE UNCHANGED <<rows, dirty, excess>>
    BY <2>3, <2>5 DEF Live, Present, Ids
  <2> QED
    BY <2>3, <2>4, <2>5, RowSteps, LiveUpdate, LiveStart, LiveFinish, LiveCommit
<1> QED
  BY <1>1, <1>2, AlwaysSound, PTL DEF Spec

-----------------------------------------------------------------------------
(***************************************************************************)
(* The primary domain.  An open setPrimary that nobody has overtaken still *)
(* knows every primary: it is in its snapshot, held, or the new one.       *)
(***************************************************************************)
Knows(h, domains) == h.pc = "unset" /\ h.seen = None => domains \subseteq h.targets \cup h.held \cup {h.id}

PrimariesSound ==
    /\ \A q \in Requests : Knows(handler[q], Primaries)
    /\ ThePrimary \notin dirty => \E x : Primaries \subseteq {x}

\* A step of one handler that makes nothing primary.
LEMMA PrimariesKept ==
    ASSUME Sound, PrimariesSound, Primaries' \subseteq Primaries, dirty \subseteq dirty',
           NEW r \in Requests, NEW h, handler' = [handler EXCEPT ![r] = h], Knows(h, Primaries)
    PROVE  PrimariesSound'
<1>1. ASSUME NEW q \in Requests PROVE Knows(handler'[q], Primaries')
  <2>1. Knows(handler'[q], Primaries)
    BY DEF Sound, PrimariesSound
  <2> QED
    BY <2>1 DEF Knows
<1>2. ThePrimary \notin dirty' => \E x : Primaries' \subseteq {x}
  BY DEF PrimariesSound
<1> QED
  BY <1>1, <1>2 DEF PrimariesSound, Knows

LEMMA PrimariesSame ==
    ASSUME rows' = rows
    PROVE  Primaries' = Primaries
BY DEF Primaries, Present, Ids

LEMMA IdleKnows == Knows(Idle, Primaries)
BY IdleHandler DEF Knows

\* A change that does not make its row primary.
LEMMA NoNewPrimary ==
    ASSUME Sound, NEW k \in Kinds, NEW i \in Ids(k), NEW row, Changes(k, i, row), i \in Present(k),
           k = "domain" => (row.primary => rows["domain"][i].primary)
    PROVE  Primaries' \subseteq Primaries
<1> SUFFICES ASSUME NEW x \in Primaries' PROVE x \in Primaries
  OBVIOUS
<1>1. x \in Ids("domain") /\ x \in Nat /\ rows'["domain"][x].primary /\ "domain" \in Kinds
  BY IdsAreNat DEF Sound, Changes, Primaries, Present, Ids, Kinds
<1>2. x \in Present("domain")
  BY <1>1, DomainRow
<1>3. CASE <<"domain", x>> = <<k, i>>
  BY <1>1, <1>2, <1>3 DEF Changes, Primaries
<1>4. CASE <<"domain", x>> # <<k, i>>
  BY <1>1, <1>2, <1>4 DEF Changes, Primaries
<1> QED
  BY <1>3, <1>4

LEMMA PrimariesUpdate ==
    ASSUME Sound, PrimariesSound, NEW r \in Requests, Update(r)
    PROVE  PrimariesSound'
<1> DEFINE h == handler[r]
<1>1. /\ Changer(h) /\ h.pc = "write" /\ Throw(r) /\ h.kind \in Kinds /\ h.id \in Ids(h.kind)
      /\ \/ rows' = rows /\ dirty' = dirty
         \/ /\ h.id \in Present(h.kind) /\ rows[h.kind][h.id] \in Table[h.kind]
            /\ Changes(h.kind, h.id, After(h))
            /\ \/ After(h) = Patched(rows[h.kind][h.id], h.patch)
               \/ h.kind = "member"
            /\ dirty \subseteq dirty'
  BY UpdateChanges
<1>2. CASE rows' = rows /\ dirty' = dirty
  BY <1>1, <1>2, PrimariesSame, IdleKnows, PrimariesKept DEF Throw
<1>3. CASE /\ h.id \in Present(h.kind) /\ rows[h.kind][h.id] \in Table[h.kind]
           /\ Changes(h.kind, h.id, After(h))
           /\ \/ After(h) = Patched(rows[h.kind][h.id], h.patch)
              \/ h.kind = "member"
           /\ dirty \subseteq dirty'
  <2>1. ASSUME h.kind = "domain" PROVE After(h).primary => rows["domain"][h.id].primary
    <3>1. h.patch \in Patch["domain"] /\ h.patch # [primary |-> TRUE]
      BY <1>1, <2>1 DEF Changer, MemberChange, DomainChange, OtherChange
    <3>2. rows["domain"][h.id] \in Domain /\ After(h) = Patched(rows["domain"][h.id], h.patch)
      BY <1>3, <2>1, KindsAre
    <3>3. \A row \in Domain, patch \in Patch["domain"] :
            patch # [primary |-> TRUE] => (Patched(row, patch).primary => row.primary)
      BY PatchedDomain
    <3>4. Patched(rows["domain"][h.id], h.patch).primary => rows["domain"][h.id].primary
      BY <3>1, <3>2, <3>3
    <3> QED
      BY <3>2, <3>4, Zenon
  <2>2. Primaries' \subseteq Primaries
    BY <1>1, <1>3, <2>1, NoNewPrimary
  <2> QED
    BY <1>1, <1>3, <2>2, IdleKnows, PrimariesKept DEF Throw
<1> QED
  BY <1>1, <1>2, <1>3

LEMMA PrimariesInsert ==
    ASSUME Sound, PrimariesSound, NEW r \in Requests, Insert(r)
    PROVE  PrimariesSound'
<1> DEFINE h == handler[r]
<1>1. /\ Creator(h) /\ Throw(r) /\ dirty' = dirty /\ h.kind \in Kinds
      /\ rows' = rows \/ Adds(h.kind, h.patch)
  BY InsertAdds
<1>2. CASE rows' = rows
  BY <1>1, <1>2, PrimariesSame, IdleKnows, PrimariesKept DEF Throw
<1>3. CASE Adds(h.kind, h.patch)
  <2> DEFINE n == Len(rows[h.kind]) + 1
  <2>1. ASSUME NEW x \in Primaries' PROVE x \in Primaries
    <3>1. x \in DOMAIN rows'["domain"] /\ rows'["domain"][x].primary
      BY DEF Primaries, Present, Ids
    <3>2. CASE x \in Ids("domain")
      <4>1. rows'["domain"][x] = rows["domain"][x]
        BY <1>3, <3>2 DEF Adds, Kinds
      <4> QED
        BY <3>1, <3>2, <4>1, DomainRow DEF Primaries
    <3>3. CASE x \notin Ids("domain")
      <4>1. h.kind = "domain" /\ rows'["domain"][x] = h.patch
        BY <1>3, <3>1, <3>3 DEF Adds, Ids, Kinds
      <4> QED
        BY <1>1, <3>1, <4>1 DEF Creator
    <3> QED
      BY <3>2, <3>3
  <2>2. Primaries' \subseteq Primaries
    BY <2>1
  <2> QED
    BY <1>1, <2>2, IdleKnows, PrimariesKept DEF Throw
<1> QED
  BY <1>1, <1>2, <1>3

LEMMA PrimariesStart ==
    ASSUME Sound, PrimariesSound, NEW r \in Requests, StartVerification(r)
    PROVE  PrimariesSound'
<1> DEFINE h == handler[r]
           g == [h EXCEPT !.pc = "dns", !.row = [After(h) EXCEPT !.name = h.row.name]]
<1>1. /\ h.id \in Ids("domain") /\ Changes("domain", h.id, After(h)) /\ dirty \subseteq dirty'
      /\ After(h) = [rows["domain"][h.id] EXCEPT !.status = "VERIFYING"]
  BY StartChanges
<1>2. rows["domain"][h.id] \in Domain /\ h.id \in Present("domain")
  BY <1>1, DomainRow
<1>3. After(h).primary => rows["domain"][h.id].primary
  <2>1. \A d \in Domain : [d EXCEPT !.status = "VERIFYING"].primary = d.primary
    BY DEF Domain
  <2> QED
    BY <1>1, <1>2, <2>1
<1>4. Primaries' \subseteq Primaries
  BY <1>1, <1>2, <1>3, NoNewPrimary DEF Kinds
<1>5. handler' = [handler EXCEPT ![r] = g] /\ h \in Handlers
  BY DEF StartVerification, Sound
<1>6. Knows(g, Primaries)
  <2>1. g.pc = "dns"
    BY <1>5 DEF Handlers
  <2> QED
    BY <2>1 DEF Knows
<1> HIDE DEF g
<1> QED
  BY <1>1, <1>4, <1>5, <1>6, PrimariesKept

LEMMA PrimariesFinish ==
    ASSUME Sound, PrimariesSound, NEW r \in Requests, NEW verified \in BOOLEAN, FinishVerification(r, verified)
    PROVE  PrimariesSound'
<1> DEFINE h == handler[r]
           d == rows["domain"][h.id]
           e == [d EXCEPT !.status = IF verified THEN "VERIFIED" ELSE "FAILED",
                          !.proven = IF verified THEN h.row.name ELSE @]
<1>1. /\ h.id \in Ids("domain") /\ Changes("domain", h.id, e) /\ dirty \subseteq dirty' /\ d \in Domain /\ Throw(r)
  BY FinishChanges
<1>2. h.id \in Present("domain")
  BY <1>1, DomainRow
<1>3. e.primary => d.primary
  BY <1>1 DEF Domain
<1>4. Primaries' \subseteq Primaries
  BY <1>1, <1>2, <1>3, NoNewPrimary DEF Kinds
<1> QED
  BY <1>1, <1>4, IdleKnows, PrimariesKept DEF Throw

LEMMA PrimariesTransaction ==
    ASSUME Sound, PrimariesSound, NEW r \in Requests,
           BeginTransaction(r) \/ \E i \in Ids("domain") : Unset(r, i)
    PROVE  PrimariesSound'
<1>1. rows' = rows /\ dirty' = dirty /\ handler[r] \in Handlers
  BY DEF BeginTransaction, Unset, Sound
<1>2. CASE BeginTransaction(r)
  <2> DEFINE h == [handler[r] EXCEPT !.pc = "unset", !.targets = Primaries \ {handler[r].id}]
  <2>1. handler' = [handler EXCEPT ![r] = h]
    BY <1>2 DEF BeginTransaction, Sound
  <2>2. h.targets = Primaries \ {handler[r].id} /\ h.id = handler[r].id
    BY <1>1 DEF Handlers
  <2> HIDE DEF h
  <2>3. Knows(h, Primaries)
    BY <2>2 DEF Knows
  <2> QED
    BY <1>1, <2>1, <2>3, PrimariesSame, PrimariesKept
<1>3. ASSUME NEW i \in Ids("domain"), Unset(r, i) PROVE PrimariesSound'
  <2> DEFINE g == IF i \in Primaries THEN handler[r].held \cup {i} ELSE handler[r].held
             h == [handler[r] EXCEPT !.targets = @ \ {i}, !.held = g]
  <2>1. handler' = [handler EXCEPT ![r] = h] /\ handler[r].pc = "unset"
    BY <1>3 DEF Unset, Sound
  <2>2. /\ h.targets = handler[r].targets \ {i} /\ h.held = g /\ h.id = handler[r].id
        /\ h.pc = handler[r].pc /\ h.seen = handler[r].seen
    BY <1>1 DEF Handlers
  <2> HIDE DEF h
  <2>3. Knows(h, Primaries)
    <3>1. Knows(handler[r], Primaries)
      BY DEF PrimariesSound
    <3> QED
      BY <2>2, <3>1 DEF Knows
  <2> QED
    BY <1>1, <2>1, <2>3, PrimariesSame, PrimariesKept
<1> QED
  BY <1>2, <1>3

LEMMA PrimariesCommit ==
    ASSUME Sound, PrimariesSound, NEW r \in Requests, CommitPrimary(r)
    PROVE  PrimariesSound'
<1> DEFINE h == handler[r]
<1>1. /\ h.pc = "unset" /\ h.targets = {} /\ KeepNames
      /\ \A i \in Ids("domain") : rows'["domain"][i] = Committed(h, i)
      /\ dirty \subseteq dirty' /\ (h.seen # None => ThePrimary \in dirty')
      /\ handler' = [q \in Requests |-> IF q = r THEN Idle ELSE Overtaken(handler[q])]
  BY CommitChanges
<1>2. ASSUME NEW x \in Primaries', x # h.id PROVE x \in Primaries \ h.held
  <2>1. x \in Ids("domain") /\ rows'["domain"][x].primary
    BY <1>1 DEF Primaries, Present, Ids, KeepNames, Kinds
  <2>2. rows["domain"][x] \in Domain /\ x \in Present("domain")
    BY <2>1, DomainRow
  <2>3. x \notin h.held
    BY <1>1, <2>1, <2>2 DEF Committed, Domain
  <2> QED
    BY <1>1, <1>2, <2>1, <2>2, <2>3 DEF Committed, Primaries
<1>3. ThePrimary \notin dirty' => \E x : Primaries' \subseteq {x}
  <2> SUFFICES ASSUME ThePrimary \notin dirty' PROVE Primaries' \subseteq {h.id}
    OBVIOUS
  <2>1. Primaries \subseteq h.held \cup {h.id}
    BY <1>1 DEF PrimariesSound, Knows
  <2> QED
    BY <1>2, <2>1
<1>4. ASSUME NEW q \in Requests PROVE Knows(handler'[q], Primaries')
  <2>1. CASE q = r
    BY <1>1, <2>1, IdleHandler DEF Knows
  <2>2. CASE q # r /\ handler[q].pc = "unset"
    <3>1. handler[q] \in Handlers
      BY DEF Sound
    <3>2. handler'[q] = [handler[q] EXCEPT !.seen = "overtaken"]
      BY <1>1, <2>2 DEF Overtaken
    <3>3. handler'[q].seen = "overtaken"
      BY <3>1, <3>2 DEF Handlers
    <3> QED
      BY <3>3, WorkspaceConstants DEF Knows
  <2>3. CASE q # r /\ handler[q].pc # "unset"
    BY <1>1, <2>3 DEF Overtaken, Knows
  <2> QED
    BY <2>1, <2>2, <2>3
<1> QED
  BY <1>3, <1>4 DEF PrimariesSound, Knows

LEMMA PrimariesOther ==
    ASSUME Sound, PrimariesSound, NEW r \in Requests,
           \/ MemberRequest(r) \/ DomainRequest(r) \/ QrRequest(r) \/ CampaignRequest(r)
           \/ Count(r) \/ Fail(r)
    PROVE  PrimariesSound'
<1>1. ASSUME NEW h, Arrives(r, h) PROVE PrimariesSound'
  BY <1>1, PrimariesSame, PrimariesKept DEF Arrives, Knows
<1>2. CASE Fail(r)
  BY <1>2, PrimariesSame, IdleKnows, PrimariesKept DEF Fail, Throw
<1>3. CASE Count(r)
  <2> DEFINE h == [handler[r] EXCEPT !.pc = "write", !.seen = Sees(handler[r])]
  <2>1. rows' = rows /\ dirty' = dirty /\ handler[r] \in Handlers
    BY <1>3 DEF Count, Sound
  <2>2. handler' = [handler EXCEPT ![r] = h] \/ handler' = [handler EXCEPT ![r] = Idle]
    BY <1>3 DEF Count, Throw, Sound
  <2>3. Knows(h, Primaries)
    <3>1. h.pc = "write"
      BY <2>1 DEF Handlers
    <3> QED
      BY <3>1 DEF Knows
  <2> HIDE DEF h
  <2> QED
    BY <2>1, <2>2, <2>3, PrimariesSame, IdleKnows, PrimariesKept
<1> QED
  BY <1>1, <1>2, <1>3, MemberRequestArrives, DomainRequestArrives, OtherRequestArrives

LEMMA AlwaysPrimariesSound == Spec => []PrimariesSound
<1>1. Init => PrimariesSound
  <2> SUFFICES ASSUME Init PROVE PrimariesSound
    OBVIOUS
  <2>1. rows["domain"] = <<[name |-> Home, status |-> "ACTIVE", primary |-> TRUE,
                            deleted |-> FALSE, proven |-> Home],
                           [name |-> Spare, status |-> "VERIFIED", primary |-> FALSE,
                            deleted |-> FALSE, proven |-> Spare]>>
    BY DEF Init
  <2>2. Primaries \subseteq {1}
    BY <2>1 DEF Primaries, Present, Ids
  <2>3. \A q \in Requests : handler[q].pc = "idle"
    BY IdleHandler DEF Init
  <2> QED
    BY <2>2, <2>3 DEF PrimariesSound, Knows
<1>2. Sound /\ PrimariesSound /\ [Next]_vars => PrimariesSound'
  <2> SUFFICES ASSUME Sound, PrimariesSound, [Next]_vars PROVE PrimariesSound'
    OBVIOUS
  <2>1. CASE UNCHANGED vars
    <3>1. rows' = rows /\ handler' = handler /\ dirty' = dirty
      BY <2>1 DEF vars
    <3>2. Primaries' = Primaries
      BY <3>1, PrimariesSame
    <3> QED
      BY <3>1, <3>2 DEF PrimariesSound, Knows
  <2> QED
    BY <2>1, PrimariesOther, PrimariesUpdate, PrimariesInsert, PrimariesStart, PrimariesFinish, PrimariesTransaction,
       PrimariesCommit DEF Next, Step, Free
<1> QED
  BY <1>1, <1>2, AlwaysSound, PTL DEF Spec

\* At most one live domain is primary, unless a setPrimary committed that another had
\* overtaken, and a disabled domain is not primary, unless it was disabled under a request's
\* feet (OnePrimary).
THEOREM AtMostOnePrimary == Spec => []OnePrimary
<1>1. Sound /\ RowsSound /\ PrimariesSound => OnePrimary
  <2> SUFFICES ASSUME Sound, RowsSound, PrimariesSound PROVE OnePrimary
    OBVIOUS
  <2>1. ASSUME ThePrimary \notin dirty PROVE Cardinality(Primaries \cap Live("domain")) <= 1
    <3>1. PICK x : Primaries \subseteq {x}
      BY <2>1 DEF PrimariesSound
    <3>2. IsFiniteSet({x}) /\ Cardinality({x}) = 1
      BY FS_Singleton
    <3>3. Primaries \cap Live("domain") \in SUBSET {x}
      BY <3>1
    <3> QED
      BY <3>2, <3>3, FS_Subset
  <2>2. \A i \in Live("domain") : /\ rows["domain"][i].status = "DISABLED" /\ <<"domain", i>> \notin dirty
                                  => ~rows["domain"][i].primary
    BY DEF RowsSound, RowOK, Live, Kinds
  <2> QED
    BY <2>1, <2>2 DEF OnePrimary
<1> QED
  BY <1>1, AlwaysSound, AlwaysRowsSound, AlwaysPrimariesSound, PTL
=============================================================================
