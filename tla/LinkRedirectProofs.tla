------------------------- MODULE LinkRedirectProofs -------------------------
(***************************************************************************)
(* Proofs about LinkRedirect, for any codes, hosts, requests, editors and  *)
(* any TTLs: the type invariant, the staleness bounds, and the reason for  *)
(* every stale entry.                                                      *)
(***************************************************************************)
EXTENDS LinkRedirect, TLAPS

USE RedirectNames, RedirectBounds DEF Keys

-----------------------------------------------------------------------------
(* What the operators return.                                              *)

\* A new link is a link, and its flags agree.
LEMMA NewLinkTyped ==
    ASSUME NEW d \in Dests, NEW x \in BOOLEAN, NEW h \in Hosts \cup {None}
    PROVE  /\ NewLink(d, x, h) \in LinkView
           /\ NewLink(d, x, h).active <=> NewLink(d, x, h).status = "ACTIVE"
<1>1. PICK y \in BOOLEAN : y = TRUE
  OBVIOUS
<1>2. NewLink(d, x, h) = [dest |-> d, status |-> "ACTIVE", active |-> y, expires |-> x, domain |-> h]
  BY <1>1, Zenon DEF NewLink
<1>3. NewLink(d, x, h) \in LinkView
  BY <1>2 DEF LinkView, LinkStatus
<1> QED
  BY <1>1, <1>2, <1>3

\* A status transition assigns both fields, and they agree.
LEMMA TransitionTyped ==
    ASSUME NEW t \in LinkStatus, NEW s, s = [status |-> t, active |-> t = "ACTIVE"]
    PROVE  /\ s \in [status : LinkStatus, active : BOOLEAN]
           /\ s.active <=> s.status = "ACTIVE"
<1>1. (t = "ACTIVE") \in BOOLEAN
  OBVIOUS
<1>2. s.status = t /\ (s.active <=> t = "ACTIVE")
  OBVIOUS
<1>3. DEFINE b == t = "ACTIVE"
<1>4. s = [status |-> t, active |-> b] /\ b \in BOOLEAN
  BY <1>1
<1> HIDE DEF b
<1>5. s \in [status : LinkStatus, active : BOOLEAN]
  BY <1>4
<1> QED
  BY <1>2, <1>5

\* A view after an operation's assignment is a view of the same kind.
LEMMA MergeTyped ==
    ASSUME NEW k \in Keys, NEW v \in ViewsOf(k), NEW s \in Edits(k)
    PROVE  Merge(v, s) \in ViewsOf(k)
<1>1. CASE k \in Codes
  <2>1. v \in LinkView
    BY <1>1 DEF ViewsOf
  <2>2. DOMAIN v = {"dest", "status", "active", "expires", "domain"}
    BY <2>1 DEF LinkView
  <2>3. CASE s \in [{"dest"} -> Dests]
    BY <1>1, <2>1, <2>2, <2>3 DEF Merge, LinkView, ViewsOf
  <2>4. CASE s \in [{"expires"} -> BOOLEAN]
    BY <1>1, <2>1, <2>2, <2>4 DEF Merge, LinkView, ViewsOf
  <2>5. CASE s \in [{"domain"} -> Hosts \cup {None}]
    BY <1>1, <2>1, <2>2, <2>5 DEF Merge, LinkView, ViewsOf
  <2>6. CASE \E t \in LinkStatus : s = [status |-> t, active |-> t = "ACTIVE"]
    <3>1. s \in [status : LinkStatus, active : BOOLEAN]
      BY <2>6, TransitionTyped
    <3> QED
      BY <1>1, <2>1, <2>2, <3>1 DEF Merge, LinkView, ViewsOf
  <2> QED
    BY <1>1, <2>3, <2>4, <2>5, <2>6 DEF Edits, LinkEdits
<1>2. CASE k \notin Codes
  <2>1. v \in DomainView /\ s \in DomainView
    BY <1>2 DEF ViewsOf, Edits
  <2> QED
    BY <1>2, <2>1 DEF Merge, DomainView, ViewsOf
<1> QED
  BY <1>1, <1>2

\* The two assignments made beside the caller's: detaching and deactivating.
LEMMA DetachTyped ==
    ASSUME NEW v \in LinkView
    PROVE  /\ Merge(v, [domain |-> None]) \in LinkView
           /\ Merge(v, [active |-> FALSE]) \in LinkView
           /\ Merge(v, [domain |-> None]).active = v.active
           /\ Merge(v, [domain |-> None]).status = v.status
<1>1. DOMAIN v = {"dest", "status", "active", "expires", "domain"}
  BY DEF LinkView
<1> QED
  BY <1>1 DEF Merge, LinkView

\* No assignment parts isActive from ACTIVE.
LEMMA MergeAgrees ==
    ASSUME NEW c \in Codes, NEW v \in LinkView, NEW s \in Edits(c),
           v.active <=> v.status = "ACTIVE"
    PROVE  Merge(v, s).active <=> Merge(v, s).status = "ACTIVE"
<1>1. DOMAIN v = {"dest", "status", "active", "expires", "domain"}
  BY DEF LinkView
<1>2. CASE s \in LinkEdits
  BY <1>1, <1>2 DEF Merge, LinkView, LinkEdits
<1>3. CASE \E t \in LinkStatus : s = [status |-> t, active |-> t = "ACTIVE"]
  <2>1. s \in [status : LinkStatus, active : BOOLEAN] /\ (s.active <=> s.status = "ACTIVE")
    BY <1>3, TransitionTyped
  <2>2. Merge(v, s).active = s.active /\ Merge(v, s).status = s.status
    BY <1>1, <2>1 DEF Merge
  <2> QED
    BY <2>1, <2>2
<1> QED
  BY <1>2, <1>3 DEF Edits

LEMMA ViewTyped ==
    ASSUME RowsOK, NEW k \in Keys
    PROVE  View(k) \in Readings(k)
BY DEF RowsOK, View, Visible, Readings, RowType

\* An entry keeps its type when it is made, excused or aged.
LEMMA EntryTyped ==
    ASSUME NEW k \in Keys, NEW v \in Readings(k), NEW s \in Nat
    PROVE  Entry(k, v, s) \in EntryType(k)
BY DEF Entry, EntryType, TTL

LEMMA KeptTyped ==
    ASSUME CacheOK, NEW k \in Keys
    PROVE  Kept(k) = None \/ Kept(k) \in EntryType(k)
BY DEF CacheOK, Kept, EntryType

LEMMA OutcomeTyped ==
    ASSUME NEW v \in LinkView
    PROVE  EvaluateState(v) \in Outcomes
<1>1. v.status \in LinkStatus /\ v.dest \in Dests
  BY DEF LinkView
<1> QED
  BY <1>1 DEF EvaluateState, Outcomes, LinkStatus

\* A request that advances is a request.
LEMMA AdvanceTyped ==
    ASSUME NEW q, RequestOK(q), q.pc \in {"get", "read", "fill"},
           NEW v \in Readings(q.key), NEW s \in Nat
    PROVE  RequestOK(Advance(q, v, s))
<1>1. /\ q \in RequestType /\ q.key \in Keys /\ q.code \in Codes /\ q.host \in Hosts \cup {None}
  BY DEF RequestOK, RequestType
<1>2. CASE q.key \in Hosts /\ v = Serving
  BY <1>1, <1>2 DEF Advance, RequestOK, RequestType
<1>3. CASE ~(q.key \in Hosts /\ v = Serving)
  <2>1. Outcome(q, v) \in Outcomes
    <3>1. CASE q.key \in Hosts \/ v = Missing
      BY <3>1 DEF Outcome, Outcomes
    <3>2. CASE q.key \in Codes /\ v # Missing
      BY <3>2, OutcomeTyped DEF Outcome, Outcomes, Readings, ViewsOf
    <3> QED
      BY <1>1, <3>1, <3>2
  <2>2. v \in LinkView \cup DomainView \cup {Missing}
    BY DEF Readings, ViewsOf
  <2>3. Advance(q, v, s) \in RequestType /\ Advance(q, v, s).pc = "answered"
    BY <1>1, <1>3, <2>1, <2>2 DEF Advance, RequestType
  <2> QED
    BY <2>3 DEF RequestOK
<1> QED
  BY <1>2, <1>3

-----------------------------------------------------------------------------
(* The type invariant.                                                     *)

LEMMA InitTyped == Init => TypeOK
<1> SUFFICES ASSUME Init PROVE TypeOK
  OBVIOUS
<1>1. PICK live \in SUBSET Keys, d \in Dests, h \in Hosts \cup {None} :
        rows = ExistingRows(live, d, h)
  BY DEF Init
<1>2. /\ Serving \in DomainView
      /\ NewLink(d, FALSE, h) \in LinkView
      /\ NewLink(d, FALSE, h).active <=> NewLink(d, FALSE, h).status = "ACTIVE"
  <2>1. Serving \in DomainView
    BY DEF Serving, DomainView, DomainStatus
  <2>2. FALSE \in BOOLEAN
    OBVIOUS
  <2> QED
    BY <2>1, <2>2, NewLinkTyped, Zenon
<1>3. RowsOK
  BY <1>1, <1>2 DEF ExistingRows, RowsOK, RowType, ViewsOf, Row
<1>4. FlagsAgree
  BY <1>1, <1>2 DEF ExistingRows, FlagsAgree, Visible, Row
<1>5. CacheOK
  BY DEF Init, CacheOK
<1>6. RequestsOK
  <2>1. Idle \in RequestType /\ Idle.pc = "idle"
    BY DEF Idle, RequestType, Outcomes
  <2> QED
    BY <2>1 DEF Init, RequestsOK, RequestOK
<1>7. EditorsOK
  BY DEF Init, EditorsOK, EditorOK
<1> QED
  BY <1>3, <1>4, <1>5, <1>6, <1>7 DEF Init, TypeOK

\* What a step leaves alone stays typed; the editors also need the rows they
\* are about to write not to vanish.
LEMMA RowsKept == ASSUME RowsOK, FlagsAgree, UNCHANGED rows PROVE RowsOK' /\ FlagsAgree'
BY DEF RowsOK, FlagsAgree, Visible

LEMMA CacheKept == ASSUME CacheOK, UNCHANGED cache PROVE CacheOK'
BY DEF CacheOK

LEMMA RequestsKept == ASSUME RequestsOK, UNCHANGED request PROVE RequestsOK'
BY DEF RequestsOK

LEMMA EditorsKept ==
    ASSUME EditorsOK, UNCHANGED editor,
           \A k \in Keys : rows[k] \in RowType(k) => rows'[k] \in RowType(k)
    PROVE  EditorsOK'
BY DEF EditorsOK, EditorOK

\* One request, one entry or one editor changed.
LEMMA RequestSet ==
    ASSUME RequestsOK, NEW r \in Requests, NEW q, RequestOK(q),
           request' = [request EXCEPT ![r] = q]
    PROVE  RequestsOK'
BY DEF RequestsOK

LEMMA CacheSet ==
    ASSUME CacheOK, NEW k \in Keys, NEW x, x = None \/ x \in EntryType(k),
           cache' = [cache EXCEPT ![k] = x]
    PROVE  CacheOK'
BY DEF CacheOK

LEMMA EditorDone ==
    ASSUME EditorsOK, NEW e \in Editors, editor' = [editor EXCEPT ![e] = NoEdit],
           \A k \in Keys : rows[k] \in RowType(k) => rows'[k] \in RowType(k)
    PROVE  EditorsOK'
BY DEF EditorsOK, EditorOK

\* The value a request reads from the cache.
LEMMA HitTyped ==
    ASSUME CacheOK, NEW k \in Keys, cache[k] # None
    PROVE  cache[k].value \in Readings(k) /\ cache[k].stale \in Nat
BY DEF CacheOK, EntryType

LEMMA RedirectTyped ==
    ASSUME TypeOK, NEW r \in Requests, Redirect(r)
    PROVE  TypeOK'
<1>1. RowsOK' /\ FlagsAgree' /\ EditorsOK' /\ passed' \in BOOLEAN /\ writes' \in Nat /\ faults' \in Nat
  <2>1. UNCHANGED <<rows, editor, passed, writes>> /\ faults' \in {faults, faults + 1}
    BY DEF Redirect, Arrive, GetHit, GetMiss, ReadRow, Fill, Close, Fault
  <2> QED
    BY <2>1, RowsKept, EditorsKept DEF TypeOK
<1> DEFINE q == request[r]
<1>2. RequestOK(q) /\ r \in DOMAIN request
  BY DEF TypeOK, RequestsOK
<1>3. ASSUME NEW h \in Hosts \cup {None}, NEW c \in Codes, Arrive(r, h, c)
      PROVE  RequestsOK' /\ CacheOK'
  <2> DEFINE n == [Idle EXCEPT !.pc = "get", !.host = h, !.code = c,
                     !.key = IF h = None THEN c ELSE h]
  <2>1. RequestOK(n)
    BY DEF RequestOK, RequestType, Idle, Outcomes
  <2>2. request' = [request EXCEPT ![r] = n] /\ UNCHANGED cache
    BY <1>3 DEF Arrive
  <2> QED
    BY <2>1, <2>2, RequestSet, CacheKept DEF TypeOK
<1>4. ASSUME GetHit(r) PROVE RequestsOK' /\ CacheOK'
  <2> DEFINE n == Advance(q, cache[q.key].value, cache[q.key].stale)
  <2>1. q.pc = "get" /\ q.key \in Keys /\ cache[q.key] # None
    BY <1>2, <1>4 DEF GetHit, RequestOK
  <2>2. cache[q.key].value \in Readings(q.key) /\ cache[q.key].stale \in Nat
    BY <2>1, HitTyped DEF TypeOK
  <2>3. RequestOK(n)
    BY <1>2, <2>1, <2>2, AdvanceTyped
  <2>4. request' = [request EXCEPT ![r] = n] /\ UNCHANGED cache
    BY <1>4 DEF GetHit
  <2> QED
    BY <2>3, <2>4, RequestSet, CacheKept DEF TypeOK
<1>5. ASSUME GetMiss(r) PROVE RequestsOK' /\ CacheOK'
  <2> DEFINE n == [q EXCEPT !.pc = "read"]
  <2>1. RequestOK(n)
    BY <1>2, <1>5 DEF GetMiss, RequestOK, RequestType
  <2>2. request' = [request EXCEPT ![r] = n] /\ UNCHANGED cache
    BY <1>5 DEF GetMiss
  <2> QED
    BY <2>1, <2>2, RequestSet, CacheKept DEF TypeOK
<1>6. ASSUME ReadRow(r) PROVE RequestsOK' /\ CacheOK'
  <2> DEFINE n == [q EXCEPT !.pc = "fill", !.got = View(q.key), !.stale = 0]
  <2>1. q.pc = "read" /\ q.key \in Keys
    BY <1>2, <1>6 DEF ReadRow, RequestOK
  <2>2. View(q.key) \in Readings(q.key)
    BY <2>1, ViewTyped DEF TypeOK
  <2>3. RequestOK(n)
    BY <1>2, <2>1, <2>2 DEF RequestOK, RequestType, Readings, ViewsOf
  <2>4. request' = [request EXCEPT ![r] = n] /\ UNCHANGED cache
    BY <1>6 DEF ReadRow
  <2> QED
    BY <2>3, <2>4, RequestSet, CacheKept DEF TypeOK
<1>7. ASSUME Fill(r) PROVE RequestsOK' /\ CacheOK'
  <2> DEFINE n == Advance(q, q.got, q.stale)
             x == Entry(q.key, q.got, q.stale)
  <2>1. q.pc = "fill" /\ q.key \in Keys /\ q.got \in Readings(q.key) /\ q.stale \in Nat
    BY <1>2, <1>7 DEF Fill, RequestOK, RequestType
  <2>2. RequestOK(n) /\ x \in EntryType(q.key)
    BY <1>2, <2>1, AdvanceTyped, EntryTyped
  <2>3. request' = [request EXCEPT ![r] = n]
    BY <1>7 DEF Fill
  <2>4. UNCHANGED cache \/ cache' = [cache EXCEPT ![q.key] = x]
    BY <1>7 DEF Fill
  <2>5. CacheOK'
    BY <2>1, <2>2, <2>4, CacheSet, CacheKept DEF TypeOK
  <2> QED
    BY <2>2, <2>3, <2>5, RequestSet DEF TypeOK
<1>8. ASSUME Close(r) PROVE RequestsOK' /\ CacheOK'
  <2>1. RequestOK(Idle)
    BY DEF RequestOK, RequestType, Idle, Outcomes
  <2>2. request' = [request EXCEPT ![r] = Idle] /\ UNCHANGED cache
    BY <1>8 DEF Close
  <2> QED
    BY <2>1, <2>2, RequestSet, CacheKept DEF TypeOK
<1>9. RequestsOK' /\ CacheOK'
  BY <1>3, <1>4, <1>5, <1>6, <1>7, <1>8 DEF Redirect
<1> QED
  BY <1>1, <1>9 DEF TypeOK

\* An operation that has checked its row waits to write it.
LEMMA Asked ==
    ASSUME TypeOK, NEW e \in Editors, NEW l, NEW k, NEW s, Ask(e, l, k, s),
           EditorOK([pc |-> l, key |-> k, set |-> s])
    PROVE  TypeOK'
<1>1. RowsOK' /\ FlagsAgree' /\ CacheOK' /\ RequestsOK'
  BY RowsKept, CacheKept, RequestsKept DEF TypeOK, Ask
<1>2. EditorsOK'
  BY DEF TypeOK, Ask, EditorsOK, EditorOK
<1> QED
  BY <1>1, <1>2 DEF TypeOK, Ask

LEMMA VisibleTyped ==
    ASSUME TypeOK, NEW k \in Keys, Visible(k)
    PROVE  rows[k] \in RowType(k)
BY DEF TypeOK, RowsOK, Visible

LEMMA AskTyped ==
    ASSUME TypeOK, NEW e \in Editors,
           \/ \E c \in Codes : AskCreateLink(e, c) \/ AskUpdate(e, c) \/ AskTransition(e, c)
           \/ \E h \in Hosts : AskCreateDomain(e, h) \/ AskActivate(e, h)
                               \/ AskDisable(e, h) \/ AskVerify(e, h)
           \/ \E k \in Keys : AskDelete(e, k)
    PROVE  TypeOK'
<1>1. ASSUME NEW c \in Codes, AskCreateLink(e, c) PROVE TypeOK'
  <2>1. PICK d \in Dests, x \in BOOLEAN, h \in Hosts \cup {None} :
          Ask(e, "insert", c, NewLink(d, x, h))
    BY <1>1 DEF AskCreateLink
  <2>2. NewLink(d, x, h) \in Inserts(c)
    BY DEF Inserts, NewLinks
  <2>3. EditorOK([pc |-> "insert", key |-> c, set |-> NewLink(d, x, h)])
    BY <2>2 DEF EditorOK
  <2> QED
    BY <2>1, <2>3, Asked
<1>2. ASSUME NEW c \in Codes, AskUpdate(e, c) PROVE TypeOK'
  <2>1. PICK s \in LinkEdits : Visible(c) /\ Ask(e, "edit", c, s)
    BY <1>2 DEF AskUpdate
  <2>2. s \in Edits(c) /\ rows[c] \in RowType(c)
    BY <2>1, VisibleTyped DEF Edits
  <2>3. EditorOK([pc |-> "edit", key |-> c, set |-> s])
    BY <2>2 DEF EditorOK
  <2> QED
    BY <2>1, <2>3, Asked
<1>3. ASSUME NEW c \in Codes, AskTransition(e, c) PROVE TypeOK'
  <2>1. PICK t \in LinkStatus :
          Visible(c) /\ Ask(e, "edit", c, [status |-> t, active |-> t = "ACTIVE"])
    BY <1>3 DEF AskTransition
  <2> DEFINE s == [status |-> t, active |-> t = "ACTIVE"]
  <2>2. s \in Edits(c)
    BY Zenon DEF Edits
  <2>3. rows[c] \in RowType(c)
    BY <2>1, VisibleTyped
  <2>4. Ask(e, "edit", c, s)
    BY <2>1
  <2> HIDE DEF s
  <2>5. EditorOK([pc |-> "edit", key |-> c, set |-> s])
    BY <2>2, <2>3 DEF EditorOK
  <2> QED
    BY <2>4, <2>5, Asked
<1>4. ASSUME NEW h \in Hosts, NEW l \in {"insert", "edit", "verify"}, NEW s \in DomainView,
             Ask(e, l, h, s), l # "insert" => Visible(h)
      PROVE  TypeOK'
  <2>1. h \notin Codes /\ s \in Edits(h) /\ s \in Inserts(h)
    BY DEF Edits, Inserts
  <2>2. l # "insert" => rows[h] \in RowType(h)
    BY <1>4, VisibleTyped
  <2>3. EditorOK([pc |-> l, key |-> h, set |-> s])
    BY <2>1, <2>2 DEF EditorOK
  <2> QED
    BY <1>4, <2>3, Asked
<1>5. ASSUME NEW h \in Hosts,
             AskCreateDomain(e, h) \/ AskActivate(e, h) \/ AskDisable(e, h) \/ AskVerify(e, h)
      PROVE  TypeOK'
  <2>1. \A t \in DomainStatus : [status |-> t] \in DomainView
    BY DEF DomainView
  <2>2. {"PENDING", "ACTIVE", "DISABLED", "VERIFYING"} \subseteq DomainStatus
    BY DEF DomainStatus
  <2>3. AskCreateDomain(e, h) => TypeOK'
    BY <1>4, <2>1, <2>2 DEF AskCreateDomain
  <2>4. AskActivate(e, h) => TypeOK'
    BY <1>4, <2>1, <2>2 DEF AskActivate
  <2>5. AskDisable(e, h) => TypeOK'
    BY <1>4, <2>1, <2>2 DEF AskDisable
  <2>6. AskVerify(e, h) => TypeOK'
    BY <1>4, <2>1, <2>2 DEF AskVerify
  <2> QED
    BY <1>5, <2>3, <2>4, <2>5, <2>6
<1>6. ASSUME NEW k \in Keys, AskDelete(e, k) PROVE TypeOK'
  <2>1. rows[k] \in RowType(k)
    BY <1>6, VisibleTyped DEF AskDelete
  <2>2. EditorOK([pc |-> "delete", key |-> k, set |-> Missing])
    BY <2>1 DEF EditorOK
  <2> QED
    BY <1>6, <2>2, Asked DEF AskDelete
<1> QED
  BY <1>1, <1>2, <1>3, <1>5, <1>6

\* An update writes a row of the same kind, whose flags still agree.
LEMMA PatchTyped ==
    ASSUME RowsOK, FlagsAgree, NEW k \in Keys, rows[k] \in RowType(k), NEW s \in Edits(k)
    PROVE  /\ Patched(k, s) \in RowType(k)
           /\ Patched(k, s).deleted = rows[k].deleted
           /\ k \in Codes /\ Visible(k) =>
                (Patched(k, s).view.active <=> Patched(k, s).view.status = "ACTIVE")
<1>1. rows[k].view \in ViewsOf(k) /\ rows[k].deleted \in BOOLEAN
  BY DEF RowType
<1>2. Merge(rows[k].view, s) \in ViewsOf(k)
  BY <1>1, MergeTyped
<1>3. /\ Patched(k, s) \in RowType(k)
      /\ Patched(k, s).deleted = rows[k].deleted
      /\ Patched(k, s).view = Merge(rows[k].view, s)
  BY <1>2 DEF Patched, RowType
<1>4. ASSUME k \in Codes, Visible(k)
      PROVE  Merge(rows[k].view, s).active <=> Merge(rows[k].view, s).status = "ACTIVE"
  BY <1>1, <1>4, MergeAgrees DEF FlagsAgree, ViewsOf
<1> QED
  BY <1>3, <1>4

LEMMA WriteTyped ==
    ASSUME TypeOK, NEW e \in Editors, NEW b, NEW s, NEW a, Write(e, b, s, a),
           editor[e].key \in Keys, rows[editor[e].key] \in RowType(editor[e].key),
           s \in Edits(editor[e].key), EditorOK([editor[e] EXCEPT !.pc = a])
    PROVE  TypeOK'
<1> DEFINE k == editor[e].key
<1>1. rows' = [rows EXCEPT ![k] = Patched(k, s)]
  BY DEF Write
<1>2. /\ Patched(k, s) \in RowType(k)
      /\ Patched(k, s).deleted = rows[k].deleted
      /\ k \in Codes /\ Visible(k) =>
           (Patched(k, s).view.active <=> Patched(k, s).view.status = "ACTIVE")
  BY PatchTyped DEF TypeOK
<1>3. RowsOK'
  BY <1>1, <1>2 DEF TypeOK, RowsOK
<1>4. \A j \in Keys : /\ rows[j] \in RowType(j) => rows'[j] \in RowType(j)
                      /\ j # k => rows'[j] = rows[j]
                      /\ j = k => rows'[j] = Patched(k, s)
  BY <1>1, <1>2 DEF TypeOK, RowsOK
<1>5. FlagsAgree'
  <2> SUFFICES ASSUME NEW c \in Codes, Visible(c)'
               PROVE  (rows[c].view.active <=> rows[c].view.status = "ACTIVE")'
    BY DEF FlagsAgree
  <2>1. CASE c = k
    <3>1. rows[k].deleted \in BOOLEAN /\ rows'[k].deleted = rows[k].deleted
      BY <1>2, <1>4 DEF RowType
    <3>2. Visible(k)
      BY <2>1, <3>1, NoneIsNoRow DEF Visible
    <3> QED
      BY <1>2, <1>4, <2>1, <3>2
  <2>2. CASE c # k
    BY <1>4, <2>2 DEF TypeOK, FlagsAgree, Visible
  <2> QED
    BY <2>1, <2>2
<1>6. EditorsOK'
  BY <1>4 DEF Write, TypeOK, EditorsOK, EditorOK
<1>7. CacheOK' /\ RequestsOK' /\ passed' \in BOOLEAN /\ writes' \in Nat /\ faults' \in Nat
  BY CacheKept, RequestsKept DEF TypeOK, Write
<1> QED
  BY <1>3, <1>5, <1>6, <1>7 DEF TypeOK

\* What an editor's record says while it is at a step.
LEMMA EditorAt ==
    ASSUME TypeOK, NEW e \in Editors, editor[e].pc # "idle"
    PROVE  /\ editor[e].key \in Keys
           /\ editor[e].pc = "insert" => editor[e].set \in Inserts(editor[e].key)
           /\ editor[e].pc \in {"edit", "verify", "check", "delete"} =>
                rows[editor[e].key] \in RowType(editor[e].key)
           /\ editor[e].pc = "edit" => editor[e].set \in Edits(editor[e].key)
           /\ editor[e].pc \in {"verify", "check"} =>
                editor[e].key \in Hosts /\ editor[e].set \in DomainView
BY DEF TypeOK, EditorsOK, EditorOK, NoEdit

LEMMA InsertTyped ==
    ASSUME TypeOK, NEW e \in Editors, Insert(e)
    PROVE  TypeOK'
<1> DEFINE k == editor[e].key
           v == editor[e].set
<1>1. k \in Keys /\ v \in Inserts(k)
  BY EditorAt DEF Insert
<1>2. v \in ViewsOf(k) /\ (k \in Codes => (v.active <=> v.status = "ACTIVE"))
  <2>1. CASE k \in Codes
    BY <1>1, <2>1, NewLinkTyped DEF Inserts, NewLinks, ViewsOf
  <2>2. CASE k \notin Codes
    BY <1>1, <2>2 DEF Inserts, ViewsOf
  <2> QED
    BY <2>1, <2>2
<1>3. Row(v) \in RowType(k) /\ Row(v).view = v
  BY <1>2 DEF Row, RowType
<1>4. /\ RowsOK' /\ FlagsAgree' /\ CacheOK'
      /\ \A j \in Keys : rows[j] \in RowType(j) => rows'[j] \in RowType(j)
  <2>1. CASE rows[k] = None
    <3>1. rows' = [rows EXCEPT ![k] = Row(v)] /\ cache' = [cache EXCEPT ![k] = Kept(k)]
      BY <2>1 DEF Insert
    <3>2. RowsOK'
      BY <1>3, <3>1 DEF TypeOK, RowsOK
    <3>3. FlagsAgree'
      BY <1>1, <1>2, <1>3, <3>1 DEF TypeOK, RowsOK, FlagsAgree, Visible
    <3>4. CacheOK'
      BY <1>1, <3>1, KeptTyped, CacheSet DEF TypeOK
    <3>5. \A j \in Keys : rows[j] \in RowType(j) => rows'[j] \in RowType(j)
      BY <1>3, <3>1 DEF TypeOK, RowsOK
    <3> QED
      BY <3>2, <3>3, <3>4, <3>5
  <2>2. CASE rows[k] # None
    BY <2>2, RowsKept, CacheKept DEF TypeOK, Insert
  <2> QED
    BY <2>1, <2>2
<1>5. EditorsOK' /\ RequestsOK'
  BY <1>4, EditorDone, RequestsKept DEF TypeOK, Insert
<1> QED
  BY <1>4, <1>5 DEF TypeOK, Insert

LEMMA UpdateTyped ==
    ASSUME TypeOK, NEW e \in Editors,
           Update(e) \/ StartVerification(e) \/ FinishVerification(e)
    PROVE  TypeOK'
<1> DEFINE d == editor[e]
<1>1. EditorOK(d)
  BY DEF TypeOK, EditorsOK
<1>2. CASE Update(e)
  <2>1. Write(e, "edit", d.set, "invalidate") /\ d.pc = "edit"
    BY <1>2 DEF Update, Write
  <2>2. d.key \in Keys /\ rows[d.key] \in RowType(d.key) /\ d.set \in Edits(d.key)
    BY <2>1, EditorAt
  <2>3. EditorOK([d EXCEPT !.pc = "invalidate"])
    BY <1>1, <2>1 DEF EditorOK, NoEdit
  <2> QED
    BY <2>1, <2>2, <2>3, WriteTyped
<1>3. CASE StartVerification(e)
  <2>1. Write(e, "verify", d.set, "check") /\ d.pc = "verify"
    BY <1>3 DEF StartVerification, Write
  <2>2. d.key \in Keys /\ rows[d.key] \in RowType(d.key) /\ d.set \in Edits(d.key)
    BY <2>1, EditorAt DEF Edits
  <2>3. EditorOK([d EXCEPT !.pc = "check"])
    BY <1>1, <2>1 DEF EditorOK, NoEdit
  <2> QED
    BY <2>1, <2>2, <2>3, WriteTyped
<1>4. CASE FinishVerification(e)
  <2>1. PICK s \in {"VERIFIED", "FAILED"} :
          Write(e, "check", [status |-> s], "invalidate") /\ d.pc = "check"
    BY <1>4 DEF FinishVerification, Write
  <2>2. d.key \in Keys /\ d.key \in Hosts /\ rows[d.key] \in RowType(d.key)
    BY <2>1, EditorAt
  <2>3. [status |-> s] \in Edits(d.key)
    BY <2>2 DEF Edits, DomainView, DomainStatus
  <2>4. EditorOK([d EXCEPT !.pc = "invalidate"])
    BY <1>1, <2>1 DEF EditorOK, NoEdit, Edits
  <2> QED
    BY <2>1, <2>2, <2>3, <2>4, WriteTyped
<1> QED
  BY <1>2, <1>3, <1>4

LEMMA SoftDeleteTyped ==
    ASSUME TypeOK, NEW e \in Editors, SoftDelete(e)
    PROVE  TypeOK'
<1> DEFINE k == editor[e].key
<1>1. k \in Keys /\ rows[k] \in RowType(k) /\ editor[e].pc = "delete"
  BY EditorAt DEF SoftDelete
<1>2. Deleted(k) \in RowType(k) /\ Deleted(k).deleted
  <2>1. rows[k].view \in ViewsOf(k)
    BY <1>1 DEF RowType
  <2>2. CASE k \in Codes
    BY <2>1, <2>2, DetachTyped DEF Deleted, RowType, ViewsOf
  <2>3. CASE k \notin Codes
    BY <2>1, <2>3 DEF Deleted, RowType
  <2> QED
    BY <2>2, <2>3
<1>3. ASSUME NEW c \in Codes, Detached(k, c)
      PROVE  /\ Patched(c, [domain |-> None]) \in RowType(c)
             /\ Patched(c, [domain |-> None]).deleted = rows[c].deleted
             /\ Patched(c, [domain |-> None]).view.active = rows[c].view.active
             /\ Patched(c, [domain |-> None]).view.status = rows[c].view.status
  <2>1. rows[c] \in RowType(c) /\ c \in Keys
    BY <1>3 DEF Detached, TypeOK, RowsOK
  <2>2. rows[c].view \in LinkView
    BY <2>1 DEF RowType, ViewsOf
  <2>3. /\ Merge(rows[c].view, [domain |-> None]) \in LinkView
        /\ Merge(rows[c].view, [domain |-> None]).active = rows[c].view.active
        /\ Merge(rows[c].view, [domain |-> None]).status = rows[c].view.status
    BY <2>2, DetachTyped
  <2> QED
    BY <2>1, <2>3 DEF Patched, RowType, ViewsOf
<1>4. DOMAIN rows' = Keys
  BY DEF SoftDelete
<1>5. ASSUME NEW j \in Keys
      PROVE  /\ j = k => rows'[j] = Deleted(k)
             /\ j # k /\ j \in Codes /\ Detached(k, j) => rows'[j] = Patched(j, [domain |-> None])
             /\ j # k /\ ~(j \in Codes /\ Detached(k, j)) => rows'[j] = rows[j]
  BY DEF SoftDelete
<1>6. \A j \in Keys : /\ rows'[j] = None \/ rows'[j] \in RowType(j)
                      /\ rows[j] \in RowType(j) => rows'[j] \in RowType(j)
  BY <1>2, <1>3, <1>5 DEF TypeOK, RowsOK
<1>7. RowsOK'
  BY <1>4, <1>6 DEF RowsOK
<1>8. FlagsAgree'
  <2> SUFFICES ASSUME NEW c \in Codes, Visible(c)'
               PROVE  (rows[c].view.active <=> rows[c].view.status = "ACTIVE")'
    BY DEF FlagsAgree
  <2>1. c # k
    BY <1>2, <1>5 DEF Visible
  <2>2. CASE Detached(k, c)
    <3>1. Visible(c)
      BY <1>3, <1>5, <2>1, <2>2 DEF Visible, Detached
    <3> QED
      BY <1>3, <1>5, <2>1, <2>2, <3>1 DEF TypeOK, FlagsAgree
  <2>3. CASE ~Detached(k, c)
    BY <1>5, <2>1, <2>3 DEF TypeOK, FlagsAgree, Visible
  <2> QED
    BY <2>2, <2>3
<1>9. CacheOK'
  BY KeptTyped DEF SoftDelete, TypeOK, CacheOK
<1>10. EditorsOK'
  <2>1. editor[e] \in [pc : {"delete"}, key : {k}, set : {Missing}]
    BY <1>1 DEF TypeOK, EditorsOK, EditorOK, NoEdit
  <2>2. editor' = [editor EXCEPT ![e].pc = "invalidate"] /\ DOMAIN editor = Editors
    BY DEF SoftDelete, TypeOK, EditorsOK
  <2>3. editor'[e] \in [pc : {"invalidate"}, key : {k}, set : {Missing}]
    BY <2>1, <2>2
  <2>4. EditorOK(editor[e])'
    BY <1>1, <2>3 DEF EditorOK
  <2>5. ASSUME NEW f \in Editors, f # e PROVE EditorOK(editor[f])'
    <3>1. EditorOK(editor[f]) /\ editor'[f] = editor[f]
      BY <2>2, <2>5 DEF TypeOK, EditorsOK
    <3> QED
      BY <1>6, <3>1 DEF EditorOK
  <2> QED
    BY <2>2, <2>4, <2>5 DEF EditorsOK
<1> QED
  BY <1>7, <1>8, <1>9, <1>10, RequestsKept DEF TypeOK, SoftDelete

LEMMA InvalidateTyped ==
    ASSUME TypeOK, NEW e \in Editors, Invalidate(e) \/ Die(e)
    PROVE  TypeOK'
<1>1. /\ UNCHANGED <<rows, request, passed, writes>> /\ faults' \in {faults, faults + 1}
      /\ editor' = [editor EXCEPT ![e] = NoEdit]
  BY DEF Invalidate, Die, Fault
<1>2. CacheOK'
  <2>1. CASE Invalidate(e)
    BY <2>1, EditorAt, KeptTyped, CacheSet DEF Invalidate, TypeOK
  <2>2. CASE Die(e)
    BY <2>2, KeptTyped DEF Die, TypeOK, CacheOK
  <2> QED
    BY <2>1, <2>2
<1> QED
  <2>1. RowsOK' /\ FlagsAgree' /\ RequestsOK'
    BY <1>1, RowsKept, RequestsKept DEF TypeOK
  <2>2. EditorsOK'
    BY <1>1, EditorDone DEF TypeOK
  <2> QED
    BY <1>1, <1>2, <2>1, <2>2 DEF TypeOK

LEMMA AgedEntryTyped ==
    ASSUME CacheOK, NEW k \in Keys
    PROVE  AgedEntry(k) = None \/ AgedEntry(k) \in EntryType(k)
<1>1. CASE cache[k] = None \/ cache[k].left = 1
  BY <1>1 DEF AgedEntry
<1>2. CASE ~(cache[k] = None \/ cache[k].left = 1)
  <2>1. /\ cache[k] \in EntryType(k) /\ cache[k].left - 1 \in Nat \ {0}
        /\ Older(k, cache[k].value, cache[k].stale) \in Nat
    BY <1>2 DEF CacheOK, EntryType, Older
  <2> QED
    BY <1>2, <2>1 DEF AgedEntry, EntryType
<1> QED
  BY <1>1, <1>2

LEMMA AgedRequestTyped ==
    ASSUME RequestsOK, NEW r \in Requests
    PROVE  RequestOK(AgedRequest(r))
<1>1. RequestOK(request[r]) /\ request[r] \in RequestType
  BY DEF RequestsOK, RequestOK
<1>2. \A k, v : \A s \in Nat : Older(k, v, s) \in Nat
  BY DEF Older
<1> QED
  <2> DEFINE q == request[r]
  <2>1. CASE ~InFlight(r)
    BY <1>1, <2>1 DEF AgedRequest
  <2>2. CASE InFlight(r)
    <3> DEFINE s == IF q.pc = "fill" THEN Older(q.key, q.got, q.stale) ELSE 0
               t == IF q.host = None \/ q.key = q.host THEN 0
                    ELSE Older(q.host, Serving, q.hostStale)
    <3>1. q.age + 1 \in Nat /\ s \in Nat /\ t \in Nat
      BY <1>1, <1>2 DEF RequestType
    <3>2. AgedRequest(r) = [q EXCEPT !.age = q.age + 1, !.stale = s, !.hostStale = t]
      BY <2>2 DEF AgedRequest
    <3> HIDE DEF s, t
    <3> QED
      BY <1>1, <3>1, <3>2 DEF RequestOK, RequestType
  <2> QED
    BY <2>1, <2>2

LEMMA TickTyped == ASSUME TypeOK, Tick PROVE TypeOK'
<1>1. CacheOK'
  BY AgedEntryTyped DEF Tick, TypeOK, CacheOK
<1>2. RequestsOK'
  BY AgedRequestTyped DEF Tick, TypeOK, RequestsOK
<1> QED
  BY <1>1, <1>2, RowsKept, EditorsKept DEF Tick, TypeOK

\* Every step keeps the type invariant.
LEMMA NextTyped == TypeOK /\ [Next]_vars => TypeOK'
<1> SUFFICES ASSUME TypeOK, [Next]_vars PROVE TypeOK'
  OBVIOUS
<1>1. ASSUME NEW r \in Requests, Redirect(r) PROVE TypeOK'
  BY <1>1, RedirectTyped
<1>2. ASSUME NEW e \in Editors, Edit(e) PROVE TypeOK'
  BY <1>2, AskTyped, InsertTyped, UpdateTyped, SoftDeleteTyped, InvalidateTyped DEF Edit
<1>3. CASE Tick
  BY <1>3, TickTyped
<1>4. CASE DeadlinePasses \/ UNCHANGED vars
  <2>1. UNCHANGED <<rows, cache, request, editor, writes, faults>> /\ passed' \in BOOLEAN
    BY <1>4 DEF DeadlinePasses, vars, TypeOK
  <2> QED
    BY <2>1, RowsKept, CacheKept, RequestsKept, EditorsKept DEF TypeOK
<1> QED
  BY <1>1, <1>2, <1>3, <1>4 DEF Next

\* Type correctness: rows, entries and handlers stay of their kind, operations
\* write rows that exist, and isActive is status = ACTIVE on every readable link.
THEOREM TypeCorrect == Spec => []TypeOK
BY InitTyped, NextTyped, PTL DEF Spec

-----------------------------------------------------------------------------
(***************************************************************************)
(* How old an answer can be.  An entry's left and stale move together, one *)
(* down and the other at most one up at each tick, and a request's age     *)
(* bounds what it adds between reading a value and storing or using it.    *)
(***************************************************************************)
EntryTimed(x) ==
    /\ x.left <= TTL(x.value)
    /\ x.stale <= Patience + TTL(x.value) - x.left

RequestTimed(q) ==
    /\ q.pc \in {"get", "read", "fill"} =>
         q.age <= Patience /\ q.hostStale < Patience + TTL(Serving) + q.age
    /\ q.pc = "fill" => q.stale <= q.age
    /\ q.pc = "answered" =>
         q.stale < Patience + TTL(q.got) /\ q.hostStale < 2 * Patience + TTL(Serving)

CacheTimed == \A k \in Keys : cache[k] # None => EntryTimed(cache[k])
RequestsTimed == \A r \in Requests : RequestTimed(request[r])
Timed == CacheTimed /\ RequestsTimed

LEMMA TTLPositive == ASSUME NEW v PROVE TTL(v) \in Nat \ {0}
BY DEF TTL

LEMMA InitTimed == Init => Timed
BY TTLPositive DEF Init, Timed, CacheTimed, RequestsTimed, RequestTimed, Idle

\* A request that advances with a value young enough stays within its bounds.
LEMMA AdvanceTimed ==
    ASSUME NEW q \in RequestType, q.pc \in {"get", "read", "fill"}, RequestTimed(q),
           NEW v, NEW s \in Nat, s < Patience + TTL(v)
    PROVE  RequestTimed(Advance(q, v, s))
<1>1. CASE q.key \in Hosts /\ v = Serving
  <2>1. /\ Advance(q, v, s).pc = "get" /\ Advance(q, v, s).age = q.age
        /\ Advance(q, v, s).hostStale = s
    BY <1>1 DEF Advance, RequestType
  <2>2. q.age \in Nat /\ q.age <= Patience /\ TTL(Serving) \in Nat
    BY TTLPositive DEF RequestTimed, RequestType
  <2> QED
    BY <1>1, <2>1, <2>2 DEF RequestTimed
<1>2. CASE ~(q.key \in Hosts /\ v = Serving)
  <2>1. /\ Advance(q, v, s).pc = "answered" /\ Advance(q, v, s).got = v
        /\ Advance(q, v, s).stale = s /\ Advance(q, v, s).hostStale = q.hostStale
    BY <1>2 DEF Advance, RequestType
  <2>2. /\ q.age \in Nat /\ q.age <= Patience /\ TTL(Serving) \in Nat /\ q.hostStale \in Nat
        /\ q.hostStale < Patience + TTL(Serving) + q.age
    BY TTLPositive DEF RequestTimed, RequestType
  <2> QED
    BY <2>1, <2>2 DEF RequestTimed
<1> QED
  BY <1>1, <1>2

LEMMA RequestTimedSet ==
    ASSUME RequestsOK, RequestsTimed, NEW r \in Requests, NEW q, RequestTimed(q),
           request' = [request EXCEPT ![r] = q]
    PROVE  RequestsTimed'
BY DEF RequestsOK, RequestsTimed

LEMMA RedirectTimed ==
    ASSUME TypeOK, Timed, NEW r \in Requests, Redirect(r)
    PROVE  Timed'
<1> DEFINE q == request[r]
<1> USE DEF Timed
<1>1. RequestOK(q) /\ q \in RequestType /\ RequestTimed(q) /\ RequestsOK
  BY DEF TypeOK, RequestsOK, RequestOK, RequestsTimed
<1>2. UNCHANGED cache => CacheTimed'
  BY DEF CacheTimed
<1>3. ASSUME NEW h \in Hosts \cup {None}, NEW c \in Codes, Arrive(r, h, c) PROVE Timed'
  <2> DEFINE n == [Idle EXCEPT !.pc = "get", !.host = h, !.code = c,
                     !.key = IF h = None THEN c ELSE h]
  <2>1. RequestTimed(n)
    BY TTLPositive DEF RequestTimed, Idle
  <2>2. request' = [request EXCEPT ![r] = n] /\ UNCHANGED cache
    BY <1>3 DEF Arrive
  <2> QED
    BY <1>1, <1>2, <2>1, <2>2, RequestTimedSet
<1>4. ASSUME GetHit(r) PROVE Timed'
  <2> DEFINE x == cache[q.key]
             n == Advance(q, x.value, x.stale)
  <2>1. q.pc = "get" /\ q.key \in Keys /\ x # None
    BY <1>1, <1>4 DEF GetHit, RequestOK
  <2>2. x \in EntryType(q.key) /\ EntryTimed(x)
    BY <2>1 DEF TypeOK, CacheOK, CacheTimed
  <2>3. x.stale \in Nat /\ x.stale < Patience + TTL(x.value)
    BY <2>2, TTLPositive DEF EntryTimed, EntryType
  <2>4. RequestTimed(n)
    BY <1>1, <2>1, <2>3, AdvanceTimed
  <2>5. request' = [request EXCEPT ![r] = n] /\ UNCHANGED cache
    BY <1>4 DEF GetHit
  <2> QED
    BY <1>1, <1>2, <2>4, <2>5, RequestTimedSet
<1>5. ASSUME GetMiss(r) PROVE Timed'
  <2> DEFINE n == [q EXCEPT !.pc = "read"]
  <2>1. RequestTimed(n)
    BY <1>1, <1>5 DEF GetMiss, RequestTimed, RequestType
  <2>2. request' = [request EXCEPT ![r] = n] /\ UNCHANGED cache
    BY <1>5 DEF GetMiss
  <2> QED
    BY <1>1, <1>2, <2>1, <2>2, RequestTimedSet
<1>6. ASSUME ReadRow(r) PROVE Timed'
  <2> DEFINE n == [q EXCEPT !.pc = "fill", !.got = View(q.key), !.stale = 0]
  <2>1. RequestTimed(n)
    BY <1>1, <1>6 DEF ReadRow, RequestTimed, RequestType
  <2>2. request' = [request EXCEPT ![r] = n] /\ UNCHANGED cache
    BY <1>6 DEF ReadRow
  <2> QED
    BY <1>1, <1>2, <2>1, <2>2, RequestTimedSet
<1>7. ASSUME Fill(r) PROVE Timed'
  <2> DEFINE n == Advance(q, q.got, q.stale)
             x == Entry(q.key, q.got, q.stale)
  <2>1. q.pc = "fill" /\ q.key \in Keys /\ q.stale \in Nat /\ q.age \in Nat
    BY <1>1, <1>7 DEF Fill, RequestOK, RequestType
  <2>2. q.stale <= Patience
    BY <1>1, <2>1 DEF RequestTimed
  <2>3. q.stale < Patience + TTL(q.got)
    BY <2>1, <2>2, TTLPositive
  <2>4. RequestTimed(n)
    BY <1>1, <2>1, <2>3, AdvanceTimed
  <2>5. EntryTimed(x)
    BY <2>1, <2>2, TTLPositive DEF EntryTimed, Entry
  <2>6. CacheTimed'
    BY <1>2, <1>7, <2>5 DEF Fill, CacheTimed, TypeOK, CacheOK
  <2> QED
    BY <1>1, <1>7, <2>4, <2>6, RequestTimedSet DEF Fill
<1>8. ASSUME Close(r) PROVE Timed'
  <2>1. RequestTimed(Idle)
    BY DEF RequestTimed, Idle
  <2> QED
    BY <1>1, <1>2, <1>8, <2>1, RequestTimedSet DEF Close
<1> QED
  BY <1>3, <1>4, <1>5, <1>6, <1>7, <1>8 DEF Redirect

\* The editors only delete entries, or excuse them.
LEMMA EditTimed ==
    ASSUME TypeOK, Timed, NEW e \in Editors, Edit(e)
    PROVE  Timed'
<1>1. RequestsTimed'
  <2>1. UNCHANGED request
    BY DEF Edit, Ask, AskCreateLink, AskUpdate, AskTransition, AskCreateDomain, AskActivate,
           AskDisable, AskVerify, AskDelete, Insert, Update, StartVerification,
           FinishVerification, Write, SoftDelete, Invalidate, Die
  <2> QED
    BY <2>1 DEF Timed, RequestsTimed
<1>2. \A k \in Keys : cache'[k] \in {cache[k], None, Kept(k)}
  <2>1. ASSUME UNCHANGED cache PROVE \A k \in Keys : cache'[k] \in {cache[k], None, Kept(k)}
    BY <2>1
  <2>2. ASSUME Insert(e) PROVE \A k \in Keys : cache'[k] \in {cache[k], None, Kept(k)}
    BY <2>2 DEF Insert, TypeOK, CacheOK
  <2>3. ASSUME SoftDelete(e) PROVE \A k \in Keys : cache'[k] \in {cache[k], None, Kept(k)}
    BY <2>3 DEF SoftDelete
  <2>4. ASSUME Invalidate(e) PROVE \A k \in Keys : cache'[k] \in {cache[k], None, Kept(k)}
    BY <2>4 DEF Invalidate, TypeOK, CacheOK
  <2>5. ASSUME Die(e) PROVE \A k \in Keys : cache'[k] \in {cache[k], None, Kept(k)}
    BY <2>5 DEF Die
  <2>6. UNCHANGED cache \/ Insert(e) \/ SoftDelete(e) \/ Invalidate(e) \/ Die(e)
    BY DEF Edit, Ask, AskCreateLink, AskUpdate, AskTransition, AskCreateDomain, AskActivate,
           AskDisable, AskVerify, AskDelete, Update, StartVerification, FinishVerification, Write
  <2> QED
    BY <2>1, <2>2, <2>3, <2>4, <2>5, <2>6
<1>3. ASSUME NEW k \in Keys, cache[k] # None PROVE EntryTimed(Kept(k))
  <2>1. cache[k] \in EntryType(k) /\ EntryTimed(cache[k])
    BY <1>3 DEF TypeOK, CacheOK, Timed, CacheTimed
  <2>2. /\ Kept(k).left = cache[k].left /\ Kept(k).stale = cache[k].stale
        /\ Kept(k).value = cache[k].value
    BY <1>3, <2>1 DEF Kept, EntryType
  <2> QED
    BY <2>1, <2>2 DEF EntryTimed
<1>4. CacheTimed'
  <2> SUFFICES ASSUME NEW k \in Keys, cache'[k] # None PROVE EntryTimed(cache'[k])
    BY DEF CacheTimed, EntryTimed, TTL
  <2>1. cache[k] # None
    BY <1>2 DEF Kept
  <2> QED
    BY <1>2, <1>3, <2>1 DEF Timed, CacheTimed
<1> QED
  BY <1>1, <1>4 DEF Timed

LEMMA OlderByOne ==
    ASSUME NEW k, NEW v, NEW s \in Nat
    PROVE  Older(k, v, s) \in Nat /\ Older(k, v, s) <= s + 1
BY DEF Older

LEMMA TickTimed == ASSUME TypeOK, Timed, Tick PROVE Timed'
<1>1. ASSUME NEW k \in Keys, AgedEntry(k) # None PROVE EntryTimed(AgedEntry(k))
  <2> DEFINE x == cache[k]
  <2>1. x # None /\ x.left # 1
    BY <1>1 DEF AgedEntry
  <2>2. x \in EntryType(k) /\ EntryTimed(x)
    BY <2>1 DEF TypeOK, CacheOK, Timed, CacheTimed
  <2>3. /\ AgedEntry(k).left = x.left - 1 /\ AgedEntry(k).value = x.value
        /\ AgedEntry(k).stale = Older(k, x.value, x.stale)
    BY <2>1, <2>2 DEF AgedEntry, EntryType
  <2>4. Older(k, x.value, x.stale) \in Nat /\ Older(k, x.value, x.stale) <= x.stale + 1
    BY <2>2, OlderByOne DEF EntryType
  <2> QED
    BY <2>2, <2>3, <2>4, TTLPositive DEF EntryTimed, EntryType
<1>2. ASSUME NEW r \in Requests PROVE RequestTimed(AgedRequest(r))
  <2> DEFINE q == request[r]
             n == AgedRequest(r)
  <2>1. q \in RequestType /\ RequestTimed(q)
    BY DEF TypeOK, RequestsOK, RequestOK, Timed, RequestsTimed
  <2>2. CASE ~InFlight(r)
    BY <2>1, <2>2 DEF AgedRequest
  <2>3. CASE InFlight(r)
    <3> DEFINE s == IF q.pc = "fill" THEN Older(q.key, q.got, q.stale) ELSE 0
               t == IF q.host = None \/ q.key = q.host THEN 0
                    ELSE Older(q.host, Serving, q.hostStale)
    <3>1. q.age \in Nat /\ q.stale \in Nat /\ q.hostStale \in Nat
      BY <2>1 DEF RequestType
    <3>2. s <= q.stale + 1 /\ s \in Nat /\ t <= q.hostStale + 1 /\ t \in Nat
      BY <3>1, OlderByOne
    <3>3. /\ n.pc = q.pc /\ n.age = q.age + 1 /\ n.stale = s /\ n.hostStale = t
      BY <2>1, <2>3 DEF AgedRequest, RequestType
    <3>4. q.pc \in {"get", "read", "fill"} /\ q.age + 1 <= Patience
      BY <2>3, <3>1 DEF Tick, InFlight
    <3>5. /\ TTL(Serving) \in Nat
          /\ q.hostStale < Patience + TTL(Serving) + q.age
          /\ q.pc = "fill" => q.stale <= q.age
      BY <2>1, <3>4, TTLPositive DEF RequestTimed
    <3> HIDE DEF s, t
    <3>6. n.age <= Patience /\ n.hostStale < Patience + TTL(Serving) + n.age
      BY <3>1, <3>2, <3>3, <3>4, <3>5
    <3>7. n.pc = "fill" => n.stale <= n.age
      BY <3>1, <3>2, <3>3, <3>5
    <3>8. n.pc # "answered"
      BY <3>3, <3>4
    <3> QED
      BY <3>8, <3>6, <3>7 DEF RequestTimed
  <2> QED
    BY <2>2, <2>3
<1>3. CacheTimed'
  <2> SUFFICES ASSUME NEW k \in Keys, cache'[k] # None PROVE EntryTimed(cache'[k])
    BY DEF CacheTimed, EntryTimed, TTL
  <2>1. cache'[k] = AgedEntry(k)
    BY DEF Tick
  <2> QED
    BY <1>1, <2>1
<1>4. RequestsTimed'
  <2> SUFFICES ASSUME NEW r \in Requests PROVE RequestTimed(request'[r])
    BY DEF RequestsTimed, RequestTimed, TTL, Serving
  <2>1. request'[r] = AgedRequest(r)
    BY DEF Tick
  <2> QED
    BY <1>2, <2>1
<1> QED
  BY <1>3, <1>4 DEF Timed

LEMMA NextTimed == TypeOK /\ Timed /\ [Next]_vars => Timed'
<1> SUFFICES ASSUME TypeOK, Timed, [Next]_vars PROVE Timed'
  OBVIOUS
<1>1. CASE DeadlinePasses \/ UNCHANGED vars
  BY <1>1 DEF DeadlinePasses, vars, Timed, CacheTimed, RequestsTimed
<1> QED
  BY <1>1, RedirectTimed, EditTimed, TickTimed DEF Next

LEMMA AlwaysTimed == Spec => []Timed
BY InitTyped, NextTyped, InitTimed, NextTimed, PTL DEF Spec

\* The cache forgets: no entry is out of date for longer than a request and the
\* time since it was stored, or outlives its EX, whatever deletions were lost.
THEOREM CacheForgets == Spec => []CacheFresh
<1>1. Timed => CacheFresh
  BY DEF Timed, CacheTimed, EntryTimed, CacheFresh
<1> QED
  BY <1>1, AlwaysTimed, PTL

\* No answer rests on a link older than its TTL and a request, or on a host older
\* than a TTL and two requests.
THEOREM AnswersBounded == Spec => []AnswersAreRecent
<1>1. Timed => AnswersAreRecent
  BY DEF Timed, RequestsTimed, RequestTimed, AnswersAreRecent
<1> QED
  BY <1>1, AlwaysTimed, PTL

-----------------------------------------------------------------------------
(* Whose fault a stale entry is.                                           *)
Owed(k) == \E e \in Editors : Owes(e, k)
Accounted(k) == cache[k] # None /\ cache[k].value # View(k) => cache[k].excused \/ Owed(k)

\* The two ways a step settles a key: its entry goes or is marked, or a deletion
\* of it is owed from now on.
LEMMA KeyExcused ==
    ASSUME NEW k \in Keys, cache'[k] = None \/ cache'[k].excused \/ Owed(k)'
    PROVE  Accounted(k)'
BY DEF Accounted

\* The third: nothing about it changes but its age.
LEMMA KeyKept ==
    ASSUME NEW k \in Keys, Accounted(k), rows'[k] = rows[k], Owed(k) => Owed(k)',
           cache'[k] # None => /\ cache[k] # None
                               /\ cache'[k].value = cache[k].value
                               /\ cache[k].excused => cache'[k].excused
    PROVE  Accounted(k)'
<1>1. View(k)' = View(k)
  BY DEF View, Visible
<1> QED
  BY <1>1 DEF Accounted

\* What Kept leaves is marked.
LEMMA KeptExcused ==
    ASSUME CacheOK, NEW k \in Keys
    PROVE  Kept(k) = None \/ Kept(k).excused
BY DEF Kept, CacheOK, EntryType

\* What an editor owes does not depend on the others.
LEMMA OwedByOthers ==
    ASSUME TypeOK, NEW e \in Editors, NEW k \in Keys, Owed(k), ~Owes(e, k),
           \A f \in Editors \ {e} : editor'[f] = editor[f]
    PROVE  Owed(k)'
BY DEF Owed, Owes

\* A redirect stores what it read with the mark it deserves, and touches no row.
LEMMA RedirectAccounted ==
    ASSUME TypeOK, StaleOnlyIfExcused, NEW r \in Requests, Redirect(r), NEW k \in Keys
    PROVE  Accounted(k)'
<1> DEFINE q == request[r]
<1>1. Accounted(k) /\ UNCHANGED <<rows, editor>> /\ DOMAIN cache = Keys
  BY DEF StaleOnlyIfExcused, Accounted, Owed, Redirect, Arrive, GetHit, GetMiss, ReadRow, Fill,
         Close, TypeOK, CacheOK
<1>2. Owed(k) => Owed(k)'
  BY <1>1 DEF Owed, Owes
<1>3. CASE UNCHANGED cache
  BY <1>1, <1>2, <1>3, KeyKept
<1>4. CASE Fill(r) /\ cache' = [cache EXCEPT ![q.key] = Entry(q.key, q.got, q.stale)]
  <2>1. CASE k = q.key
    <3>1. cache'[k] = Entry(k, q.got, q.stale)
      BY <1>1, <1>4, <2>1
    <3> DEFINE b == q.got # View(k)
    <3>2. cache'[k] = [value |-> q.got, left |-> TTL(q.got), stale |-> q.stale, excused |-> b]
      BY <3>1, Zenon DEF Entry
    <3> HIDE DEF b
    <3>3. cache'[k].value = q.got /\ cache'[k].excused = b
      BY <3>2
    <3>4. View(k)' = View(k)
      BY <1>1 DEF View, Visible
    <3> QED
      BY <3>3, <3>4 DEF Accounted, b
  <2>2. CASE k # q.key
    <3>1. cache'[k] = cache[k]
      BY <1>1, <1>4, <2>2
    <3> QED
      BY <1>1, <1>2, <3>1, KeyKept
  <2> QED
    BY <2>1, <2>2
<1> QED
  BY <1>3, <1>4 DEF Redirect, Arrive, GetHit, GetMiss, ReadRow, Fill, Close

\* An operation that has only checked its row owes nothing yet.
LEMMA AskAccounted ==
    ASSUME TypeOK, StaleOnlyIfExcused, NEW e \in Editors, NEW k \in Keys,
           \/ \E c \in Codes : AskCreateLink(e, c) \/ AskUpdate(e, c) \/ AskTransition(e, c)
           \/ \E h \in Hosts : AskCreateDomain(e, h) \/ AskActivate(e, h)
                               \/ AskDisable(e, h) \/ AskVerify(e, h)
           \/ \E j \in Keys : AskDelete(e, j)
    PROVE  Accounted(k)'
<1>1. PICK l, j, s : Ask(e, l, j, s)
  BY DEF AskCreateLink, AskUpdate, AskTransition, AskCreateDomain, AskActivate, AskDisable,
         AskVerify, AskDelete
<1>2. /\ UNCHANGED <<rows, cache>> /\ editor[e].pc = "idle"
      /\ \A f \in Editors \ {e} : editor'[f] = editor[f]
  BY <1>1 DEF Ask, TypeOK, EditorsOK
<1>3. Accounted(k) /\ ~Owes(e, k)
  BY <1>2 DEF StaleOnlyIfExcused, Accounted, Owed, Owes
<1> QED
  BY <1>2, <1>3, OwedByOthers, KeyKept

\* A create marks the entry it leaves behind.
LEMMA InsertAccounted ==
    ASSUME TypeOK, StaleOnlyIfExcused, NEW e \in Editors, Insert(e), NEW k \in Keys
    PROVE  Accounted(k)'
<1> DEFINE j == editor[e].key
<1>1. /\ editor[e].pc = "insert" /\ DOMAIN cache = Keys /\ DOMAIN rows = Keys
      /\ \A f \in Editors \ {e} : editor'[f] = editor[f]
  BY DEF Insert, TypeOK, CacheOK, RowsOK, EditorsOK
<1>2. Accounted(k) /\ (Owed(k) => Owed(k)')
  BY <1>1, OwedByOthers DEF StaleOnlyIfExcused, Accounted, Owed, Owes
<1>3. CASE UNCHANGED <<rows, cache>>
  BY <1>2, <1>3, KeyKept
<1>4. CASE rows' = [rows EXCEPT ![j] = Row(editor[e].set)] /\ cache' = [cache EXCEPT ![j] = Kept(j)]
  <2>1. CASE k = j
    <3>1. cache'[k] = Kept(k)
      BY <1>1, <1>4, <2>1
    <3>2. cache'[k] = None \/ cache'[k].excused
      BY <3>1, KeptExcused DEF TypeOK
    <3> QED
      BY <3>2, KeyExcused
  <2>2. CASE k # j
    <3>1. cache'[k] = cache[k] /\ rows'[k] = rows[k]
      BY <1>1, <1>4, <2>2
    <3> QED
      BY <1>2, <3>1, KeyKept
  <2> QED
    BY <2>1, <2>2
<1> QED
  BY <1>3, <1>4 DEF Insert

\* An update owes the deletion of its own key, and touches no other.
LEMMA WriteAccounted ==
    ASSUME TypeOK, StaleOnlyIfExcused, NEW e \in Editors, NEW b, NEW s,
           NEW a \in {"check", "invalidate"}, Write(e, b, s, a),
           NEW k \in Keys
    PROVE  Accounted(k)'
<1> DEFINE j == editor[e].key
<1>1. /\ DOMAIN rows = Keys /\ UNCHANGED cache
      /\ rows' = [rows EXCEPT ![j] = Patched(j, s)]
      /\ editor' = [editor EXCEPT ![e].pc = a] /\ DOMAIN editor = Editors
  BY DEF Write, TypeOK, RowsOK, EditorsOK
<1>2. editor'[e].pc = a /\ editor'[e].key = j
  <2>1. EditorOK(editor[e])
    BY DEF TypeOK, EditorsOK
  <2> QED
    BY <1>1, <2>1 DEF EditorOK, NoEdit
<1>3. CASE k = j
  <2>1. Owes(e, k)'
    BY <1>2, <1>3 DEF Owes
  <2> QED
    BY <2>1, KeyExcused DEF Owed
<1>4. CASE k # j
  <2>1. rows'[k] = rows[k] /\ ~Owes(e, k) /\ \A f \in Editors \ {e} : editor'[f] = editor[f]
    BY <1>1, <1>4 DEF Owes
  <2>2. Accounted(k)
    BY DEF StaleOnlyIfExcused, Accounted, Owed
  <2> QED
    BY <1>1, <2>1, <2>2, OwedByOthers, KeyKept
<1> QED
  BY <1>3, <1>4

\* So does a deletion, which marks the entries of the links it detaches.
LEMMA SoftDeleteAccounted ==
    ASSUME TypeOK, StaleOnlyIfExcused, NEW e \in Editors, SoftDelete(e), NEW k \in Keys
    PROVE  Accounted(k)'
<1> DEFINE j == editor[e].key
<1>1. /\ editor' = [editor EXCEPT ![e].pc = "invalidate"] /\ DOMAIN editor = Editors
      /\ cache'[k] = IF k \in Codes /\ Detached(j, k) THEN Kept(k) ELSE cache[k]
      /\ k = j \/ (k \in Codes /\ Detached(j, k)) \/ rows'[k] = rows[k]
  BY DEF SoftDelete, TypeOK, EditorsOK
<1>2. editor'[e].pc = "invalidate" /\ editor'[e].key = j
  <2>1. EditorOK(editor[e])
    BY DEF TypeOK, EditorsOK
  <2> QED
    BY <1>1, <2>1 DEF EditorOK, NoEdit
<1>3. CASE k = j
  <2>1. Owes(e, k)'
    BY <1>2, <1>3 DEF Owes
  <2> QED
    BY <2>1, KeyExcused DEF Owed
<1>4. CASE k \in Codes /\ Detached(j, k)
  <2>1. cache'[k] = None \/ cache'[k].excused
    BY <1>1, <1>4, KeptExcused DEF TypeOK
  <2> QED
    BY <2>1, KeyExcused
<1>5. CASE k # j /\ ~(k \in Codes /\ Detached(j, k))
  <2>1. /\ rows'[k] = rows[k] /\ cache'[k] = cache[k] /\ ~Owes(e, k)
        /\ \A f \in Editors \ {e} : editor'[f] = editor[f]
    BY <1>1, <1>5 DEF Owes
  <2>2. Accounted(k)
    BY DEF StaleOnlyIfExcused, Accounted, Owed
  <2> QED
    BY <2>1, <2>2, OwedByOthers, KeyKept
<1> QED
  BY <1>3, <1>4, <1>5

\* What is owed is done, or the entry that stays is marked.
LEMMA InvalidateAccounted ==
    ASSUME TypeOK, StaleOnlyIfExcused, NEW e \in Editors, Invalidate(e) \/ Die(e), NEW k \in Keys
    PROVE  Accounted(k)'
<1> DEFINE j == editor[e].key
<1>1. /\ UNCHANGED rows /\ \A f \in Editors \ {e} : editor'[f] = editor[f]
  BY DEF Invalidate, Die, TypeOK, EditorsOK
<1>2. Owes(e, k) => cache'[k] = None \/ cache'[k].excused
  BY KeptExcused DEF Invalidate, Die, Owes, TypeOK, CacheOK
<1>3. ~Owes(e, k) => cache'[k] = cache[k]
  BY DEF Invalidate, Die, Owes, TypeOK, CacheOK
<1>4. Accounted(k)
  BY DEF StaleOnlyIfExcused, Accounted, Owed
<1>5. CASE Owes(e, k)
  BY <1>2, <1>5, KeyExcused
<1>6. CASE ~Owes(e, k)
  BY <1>1, <1>3, <1>4, <1>6, OwedByOthers, KeyKept
<1> QED
  BY <1>5, <1>6

\* Time changes ages only.
LEMMA TickAccounted ==
    ASSUME TypeOK, StaleOnlyIfExcused, Tick, NEW k \in Keys
    PROVE  Accounted(k)'
<1>1. UNCHANGED <<rows, editor>> /\ cache'[k] = AgedEntry(k)
  BY DEF Tick
<1>2. AgedEntry(k) # None => /\ cache[k] # None
                             /\ AgedEntry(k).value = cache[k].value
                             /\ AgedEntry(k).excused = cache[k].excused
  BY DEF AgedEntry, TypeOK, CacheOK, EntryType
<1>3. Accounted(k) /\ (Owed(k) => Owed(k)')
  BY <1>1 DEF StaleOnlyIfExcused, Accounted, Owed, Owes
<1> QED
  BY <1>1, <1>2, <1>3, KeyKept

LEMMA NextAccounted == TypeOK /\ StaleOnlyIfExcused /\ [Next]_vars => StaleOnlyIfExcused'
<1> SUFFICES ASSUME TypeOK, StaleOnlyIfExcused, [Next]_vars, NEW k \in Keys
             PROVE  Accounted(k)'
  BY DEF StaleOnlyIfExcused, Accounted, Owed
<1>1. ASSUME NEW r \in Requests, Redirect(r) PROVE Accounted(k)'
  BY <1>1, RedirectAccounted
<1>2. ASSUME NEW e \in Editors, Edit(e) PROVE Accounted(k)'
  <2>1. CASE Update(e) \/ StartVerification(e) \/ FinishVerification(e)
    BY <2>1, WriteAccounted DEF Update, StartVerification, FinishVerification
  <2>2. CASE Insert(e) \/ SoftDelete(e) \/ Invalidate(e) \/ Die(e)
    BY <2>2, InsertAccounted, SoftDeleteAccounted, InvalidateAccounted
  <2> QED
    BY <1>2, <2>1, <2>2, AskAccounted DEF Edit
<1>3. CASE Tick
  BY <1>3, TickAccounted
<1>4. CASE DeadlinePasses \/ UNCHANGED vars
  <2>1. UNCHANGED <<rows, cache, editor>> /\ Accounted(k)
    BY <1>4 DEF DeadlinePasses, vars, StaleOnlyIfExcused, Accounted, Owed
  <2> QED
    BY <2>1, KeyKept DEF Owed, Owes
<1> QED
  BY <1>1, <1>2, <1>3, <1>4 DEF Next

\* Every entry that no longer is its row's has its reason: an operation that still
\* owes the deletion, or the mark of a late fill, a failed deletion, a create or a
\* detached link.
THEOREM StaleIsExcused == Spec => []StaleOnlyIfExcused
<1>1. Init => StaleOnlyIfExcused
  BY DEF Init, StaleOnlyIfExcused
<1> QED
  BY <1>1, InitTyped, NextTyped, NextAccounted, PTL DEF Spec
=============================================================================
