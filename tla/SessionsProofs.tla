---------------------------- MODULE SessionsProofs ----------------------------
(***************************************************************************)
(* OldSessionsEnd and AlarmExplained for any number of browsers, requests  *)
(* under way, tokens, reset links and failures.                            *)
(***************************************************************************)
EXTENDS Sessions, TLAPS

Ops == {"", "login", "refresh", "logout", "password", "suspend"}
Awaits == {"idle", "issue", "rotate", "answer", "alarm", "store", "revokeAll"}

TokenRows == [issued : BOOLEAN, revoked : BOOLEAN, rotated : BOOLEAN, root : Nat, late : BOOLEAN]
Handlers == [pc : Awaits, op : Ops, client : Clients \cup {NoClient},
             tok : Tokens \cup {0}, new : Tokens \cup {0}, mail : Nat, root : Nat, late : BOOLEAN]

SessionTypes ==
    /\ account \in [pw : Nat, active : BOOLEAN]
    /\ token \in [Tokens -> TokenRows]
    /\ cookie \in [Clients -> Tokens \cup {0}]
    /\ request \in [Requests -> Handlers]
    /\ past \in [interrupted : BOOLEAN, disturbed : SUBSET (Clients \cup {NoClient})]

-----------------------------------------------------------------------------
LEMMA FreshIsUnissued ==
    ASSUME \E t \in Tokens : ~token[t].issued
    PROVE  Fresh \in Tokens /\ ~token[Fresh].issued
BY DEF Fresh

LEMMA WaitingType == Waiting \in Handlers /\ Unissued \in TokenRows
BY DEF Waiting, Handlers, Awaits, Ops, Unissued, TokenRows

\* Rows and handlers after an assignment to a field.
LEMMA HandlerAt ==
    ASSUME NEW h \in Handlers, NEW a \in Awaits
    PROVE  [h EXCEPT !.pc = a] \in Handlers
BY DEF Handlers

LEMMA TokenRevoked ==
    ASSUME NEW k \in TokenRows
    PROVE  /\ [k EXCEPT !.revoked = TRUE] \in TokenRows
           /\ [k EXCEPT !.revoked = TRUE, !.rotated = TRUE] \in TokenRows
BY DEF TokenRows

\* A request that begins.
LEMMA SendType ==
    ASSUME SessionTypes, NEW q \in Requests, NEW c \in Clients \cup {NoClient}, NEW r \in Handlers,
           Send(q, c, r)
    PROVE  request' \in [Requests -> Handlers]
           /\ past' \in [interrupted : BOOLEAN, disturbed : SUBSET (Clients \cup {NoClient})]
BY DEF SessionTypes, Send

LEMMA RevokedAllType ==
    ASSUME SessionTypes
    PROVE  RevokedAll \in [Tokens -> TokenRows]
<1> SUFFICES ASSUME NEW t \in Tokens
             PROVE  [token[t] EXCEPT !.revoked = token[t].issued] \in TokenRows
  BY DEF RevokedAll
<1>1. token[t] \in TokenRows /\ token[t].issued \in BOOLEAN
  BY DEF SessionTypes, TokenRows
<1>2. ASSUME NEW b \in BOOLEAN PROVE [token[t] EXCEPT !.revoked = b] \in TokenRows
  BY <1>1 DEF TokenRows
<1> QED
  BY <1>1, <1>2

LEMMA OvertookType ==
    ASSUME SessionTypes
    PROVE  Overtook \in [Requests -> Handlers]
<1> SUFFICES ASSUME NEW p \in Requests
             PROVE  [request[p] EXCEPT !.late = @ \/ request[p].pc = "issue"] \in Handlers
  BY DEF Overtook
<1>1. request[p] \in Handlers
  BY DEF SessionTypes
<1>2. ASSUME NEW b \in BOOLEAN PROVE [request[p] EXCEPT !.late = b] \in Handlers
  BY <1>1 DEF Handlers
<1> QED
  BY <1>2

LEMMA InitTypes == SessionInit => SessionTypes
<1> SUFFICES ASSUME SessionInit PROVE SessionTypes
  OBVIOUS
<1>1. 1 \in Tokens
  BY SessionConstants DEF Tokens
<1>2. token \in [Tokens -> TokenRows]
  BY WaitingType DEF SessionInit, TokenRows
<1>3. cookie \in [Clients -> Tokens \cup {0}]
  BY <1>1 DEF SessionInit
<1> QED
  BY <1>2, <1>3, WaitingType DEF SessionInit, SessionTypes

LEMMA StepTypes ==
    ASSUME SessionTypes, SessionNext
    PROVE  SessionTypes'
<1>1. ASSUME NEW q \in Requests, NEW c \in Clients, Login(q, c) PROVE SessionTypes'
  <2>1. [Waiting EXCEPT !.pc = "issue", !.op = "login", !.client = c, !.root = account.pw] \in Handlers
    BY WaitingType DEF Handlers, SessionTypes, Awaits, Ops
  <2> QED
    BY <1>1, <2>1, SendType DEF SessionTypes, Login
<1>2. ASSUME NEW q \in Requests, NEW c \in Clients, Refresh(q, c) PROVE SessionTypes'
  <2> DEFINE t == cookie[c]
             r == [Waiting EXCEPT !.op = "refresh", !.client = c, !.tok = t]
             alarm == [r EXCEPT !.pc = "alarm"]
             issue == [r EXCEPT !.pc = "issue", !.root = token[t].root, !.late = token[t].late]
  <2>1. t \in Tokens /\ token[t] \in TokenRows
    BY <1>2 DEF Refresh, SessionTypes
  <2>2. r \in Handlers
    BY <2>1, WaitingType DEF Handlers, Ops
  <2>3. alarm \in Handlers
    BY <2>2 DEF Handlers, Awaits
  <2>4. issue \in Handlers
    <3>1. ASSUME NEW b \in BOOLEAN, NEW n \in Nat
          PROVE  [r EXCEPT !.pc = "issue", !.root = n, !.late = b] \in Handlers
      BY <2>2 DEF Handlers, Awaits
    <3> QED
      BY <2>1, <3>1 DEF TokenRows
  <2>5. Send(q, c, IF token[t].revoked THEN alarm ELSE issue)
    BY <1>2 DEF Refresh
  <2>6. Send(q, c, alarm) \/ Send(q, c, issue)
    BY <2>5
  <2> HIDE DEF alarm, issue
  <2>7. request' \in [Requests -> Handlers]
        /\ past' \in [interrupted : BOOLEAN, disturbed : SUBSET (Clients \cup {NoClient})]
    BY <2>3, <2>4, <2>6, SendType
  <2> QED
    BY <1>2, <2>7 DEF SessionTypes, Refresh
<1>3. ASSUME NEW q \in Requests, Issue(q) PROVE SessionTypes'
  <2>1. Fresh \in Tokens
    BY <1>3, FreshIsUnissued DEF Issue
  <2>2. request[q].root \in Nat /\ request[q].late \in BOOLEAN
    BY DEF SessionTypes, Handlers
  <2>3. ASSUME NEW b \in BOOLEAN, NEW n \in Nat
        PROVE  [Unissued EXCEPT !.issued = TRUE, !.root = n, !.late = b] \in TokenRows
    BY DEF Unissued, TokenRows
  <2>4. token' \in [Tokens -> TokenRows]
    BY <1>3, <2>2, <2>3 DEF SessionTypes, Issue
  <2>5. request' \in [Requests -> Handlers]
    <3> DEFINE a == IF request[q].op = "refresh" THEN "rotate" ELSE "answer"
    <3>1. request[q] \in Handlers /\ a \in Awaits
      BY DEF SessionTypes, Awaits
    <3> HIDE DEF a
    <3>2. [request[q] EXCEPT !.pc = a, !.new = Fresh] \in Handlers
      BY <2>1, <3>1 DEF Handlers
    <3>3. request' = [request EXCEPT ![q] = [request[q] EXCEPT !.pc = a, !.new = Fresh]]
      BY <1>3 DEF Issue, a
    <3> QED
      BY <3>2, <3>3 DEF SessionTypes
  <2> QED
    BY <1>3, <2>4, <2>5 DEF SessionTypes, Issue
<1>4. ASSUME NEW q \in Requests, Rotate(q) PROVE SessionTypes'
  <2>1. token' \in [Tokens -> TokenRows]
    <3>1. request[q].tok \in Tokens => token[request[q].tok] \in TokenRows
      BY DEF SessionTypes
    <3>2. token' = [token EXCEPT ![request[q].tok] =
                      [token[request[q].tok] EXCEPT !.revoked = TRUE, !.rotated = TRUE]]
      BY <1>4 DEF Rotate
    <3> QED
      BY <3>1, <3>2, TokenRevoked DEF SessionTypes
  <2>2. request' \in [Requests -> Handlers]
    <3>1. request[q] \in Handlers /\ "answer" \in Awaits
      BY DEF SessionTypes, Awaits
    <3> QED
      BY <1>4, <3>1, HandlerAt DEF SessionTypes, Rotate
  <2> QED
    BY <1>4, <2>1, <2>2 DEF SessionTypes, Rotate
<1>5. ASSUME NEW q \in Requests, Answer(q) PROVE SessionTypes'
  BY <1>5, WaitingType DEF SessionTypes, Answer, Handlers
<1>6. ASSUME NEW q \in Requests, Store(q) PROVE SessionTypes'
  <2>1. account' \in [pw : Nat, active : BOOLEAN]
    <3>1. [account EXCEPT !.active = FALSE] \in [pw : Nat, active : BOOLEAN]
      BY DEF SessionTypes
    <3>2. [account EXCEPT !.pw = @ + 1] \in [pw : Nat, active : BOOLEAN]
      BY DEF SessionTypes
    <3> QED
      BY <1>6, <3>1, <3>2 DEF Store
  <2>2. request' \in [Requests -> Handlers]
    <3>1. request[q] \in Handlers /\ "revokeAll" \in Awaits
      BY DEF SessionTypes, Awaits
    <3> QED
      BY <1>6, <3>1, HandlerAt DEF SessionTypes, Store
  <2> QED
    BY <1>6, <2>1, <2>2 DEF SessionTypes, Store
<1>7. ASSUME NEW q \in Requests, RevokeAll(q) PROVE SessionTypes'
  BY <1>7, RevokedAllType, OvertookType, WaitingType DEF SessionTypes, RevokeAll
<1>8. ASSUME NEW q \in Requests, Abort(q) PROVE SessionTypes'
  <2>1. request' \in [Requests -> Handlers]
    BY <1>8, WaitingType DEF SessionTypes, Abort
  <2>2. past' \in [interrupted : BOOLEAN, disturbed : SUBSET (Clients \cup {NoClient})]
    <3>1. request[q].client \in Clients \cup {NoClient}
      BY DEF SessionTypes, Handlers
    <3>2. (past.interrupted \/ request[q].pc = "revokeAll") \in BOOLEAN
      OBVIOUS
    <3> QED
      BY <1>8, <3>1, <3>2 DEF SessionTypes, Abort
  <2> QED
    BY <1>8, <2>1, <2>2 DEF SessionTypes, Abort
<1>9. ASSUME NEW q \in Requests, NEW c \in Clients, Logout(q, c) PROVE SessionTypes'
  <2>1. [Waiting EXCEPT !.pc = "answer", !.op = "logout", !.client = c] \in Handlers
    BY WaitingType DEF Handlers, Awaits, Ops
  <2>2. token' \in [Tokens -> TokenRows]
    BY <1>9 DEF SessionTypes, Logout, TokenRows
  <2> QED
    BY <1>9, <2>1, <2>2, SendType DEF SessionTypes, Logout
<1>10. ASSUME NEW q \in Requests, NEW c \in Clients \cup {NoClient}, LogoutAll(q, c) PROVE SessionTypes'
  <2>1. [Waiting EXCEPT !.pc = "answer", !.op = "logout", !.client = c] \in Handlers
    BY WaitingType DEF Handlers, Awaits, Ops
  <2>2. request' \in [Requests -> Handlers]
    BY <1>10, <2>1, OvertookType DEF LogoutAll
  <2>3. past' \in [interrupted : BOOLEAN, disturbed : SUBSET (Clients \cup {NoClient})]
    BY <1>10 DEF LogoutAll, SessionTypes
  <2> QED
    BY <1>10, <2>2, <2>3, RevokedAllType DEF SessionTypes, LogoutAll
<1>11. ASSUME NEW q \in Requests, NEW m \in 1..MaxMails, ResetPassword(q, m) PROVE SessionTypes'
  <2>1. [Waiting EXCEPT !.pc = "store", !.op = "password", !.mail = m] \in Handlers
    <3>1. m \in Nat
      BY SessionConstants
    <3> QED
      BY <3>1, WaitingType DEF Handlers, Awaits, Ops
  <2> QED
    BY <1>11, <2>1, SendType DEF SessionTypes, ResetPassword
<1>12. ASSUME NEW q \in Requests, ChangePassword(q) \/ Suspend(q) PROVE SessionTypes'
  <2>1. ASSUME NEW op \in Ops PROVE [Waiting EXCEPT !.pc = "store", !.op = op] \in Handlers
    BY WaitingType DEF Handlers, Awaits
  <2> QED
    BY <1>12, <2>1, SendType DEF SessionTypes, ChangePassword, Suspend, Ops
<1>13. ASSUME NEW m \in 1..MaxMails, ForgotPassword(m) PROVE SessionTypes'
  BY <1>13 DEF SessionTypes, ForgotPassword
<1>14. CASE Readmit
  BY <1>14 DEF SessionTypes, Readmit
<1> QED
  BY <1>1, <1>2, <1>3, <1>4, <1>5, <1>6, <1>7, <1>8, <1>9, <1>10, <1>11, <1>12, <1>13, <1>14
     DEF SessionNext, SessionStep
-----------------------------------------------------------------------------
(***************************************************************************)
(* OldSessionsEnd.  A token is issued from what a request holds, so the    *)
(* same has to be said of the requests that are about to issue one.        *)
(***************************************************************************)
Outdated(root) == root < account.pw \/ ~account.active
Owed == past.interrupted \/ \E q \in Requests : request[q].pc = "revokeAll"

HeldIsIssued ==
    /\ \A c \in Clients : cookie[c] # 0 => token[cookie[c]].issued
    /\ \A q \in Requests : request[q].new # 0 => token[request[q].new].issued

OldTokens == \A t \in Tokens : Live(t) /\ Outdated(token[t].root) => token[t].late \/ Owed
OldRequests ==
    \A q \in Requests :
        request[q].pc = "issue" /\ Outdated(request[q].root) => request[q].late \/ Owed

OldInv == SessionTypes /\ HeldIsIssued /\ OldTokens /\ OldRequests

LEMMA InitOld == SessionInit => OldInv
<1> SUFFICES ASSUME SessionInit PROVE OldInv
  OBVIOUS
<1>1. SessionTypes
  BY InitTypes
<1>2. HeldIsIssued
  BY <1>1, SessionConstants DEF SessionInit, HeldIsIssued, Waiting, Unissued, SessionTypes, Tokens
<1>3. OldTokens
  BY DEF SessionInit, OldTokens, Live, Outdated, Unissued, Tokens
<1>4. OldRequests
  BY DEF SessionInit, OldRequests, Waiting
<1> QED
  BY <1>1, <1>2, <1>3, <1>4 DEF OldInv

\* Fields of the handlers after request q is given h.
LEMMA Given ==
    ASSUME SessionTypes, NEW q \in Requests, NEW h, request' = [request EXCEPT ![q] = h]
    PROVE  \A p \in Requests : request'[p] = IF p = q THEN h ELSE request[p]
BY DEF SessionTypes

\* A step that leaves tokens, accounts and what is owed alone and lets q begin.
LEMMA BeginOld ==
    ASSUME OldInv, SessionTypes', NEW q \in Requests, NEW c, NEW h,
           Send(q, c, h), UNCHANGED <<account, token, cookie>>,
           h.new = 0, h.pc = "issue" /\ Outdated(h.root) => h.late \/ Owed
    PROVE  OldInv'
<1>1. \A p \in Requests : request'[p] = IF p = q THEN h ELSE request[p]
  BY Given DEF Send, OldInv
<1>2. Owed => Owed'
  BY <1>1 DEF Owed, Send, OldInv, SessionTypes
<1>3. HeldIsIssued'
  BY <1>1 DEF OldInv, HeldIsIssued
<1>4. OldTokens'
  BY <1>2 DEF OldInv, OldTokens, Live, Outdated
<1>5. OldRequests'
  BY <1>1, <1>2 DEF OldInv, OldRequests, Outdated
<1> QED
  BY <1>3, <1>4, <1>5 DEF OldInv

\* A step in which q moves on and takes nothing with it, and after which no more is live.
Onward(q) ==
    /\ \A p \in Requests \ {q} : request'[p] = request[p]
    /\ request'[q].pc # "issue"
    /\ request'[q].new \in {0, request[q].new}
    /\ account' = account
    /\ \A t \in Tokens : /\ token'[t].issued = token[t].issued
                         /\ token'[t].root = token[t].root
                         /\ token'[t].late = token[t].late
                         /\ token[t].revoked => token'[t].revoked
    /\ Owed => Owed'

LEMMA OnwardOld ==
    ASSUME OldInv, SessionTypes', NEW q \in Requests, Onward(q),
           \A c \in Clients : cookie'[c] \in {0, cookie[c], request[q].new}
    PROVE  OldInv'
<1>1. HeldIsIssued'
  <2>1. \A n \in Tokens : token[n].issued => token'[n].issued
    BY DEF Onward
  <2>2. \A c \in Clients : cookie[c] \in Tokens \cup {0}
    BY DEF OldInv, SessionTypes
  <2>3. \A p \in Requests : request[p].new \in Tokens \cup {0}
    BY DEF OldInv, SessionTypes, Handlers
  <2>4. \A c \in Clients : cookie'[c] # 0 => token'[cookie'[c]].issued
    BY <2>1, <2>2, <2>3 DEF OldInv, HeldIsIssued
  <2>5. \A p \in Requests : request'[p].new # 0 => token'[request'[p].new].issued
    BY <2>1, <2>3 DEF OldInv, HeldIsIssued, Onward
  <2> QED
    BY <2>4, <2>5 DEF HeldIsIssued
<1>2. OldTokens'
  BY DEF OldInv, OldTokens, Live, Outdated, Onward
<1>3. OldRequests'
  BY DEF OldInv, OldRequests, Outdated, Onward
<1> QED
  BY <1>1, <1>2, <1>3 DEF OldInv

\* After a revocation nothing is live, and a token still to be issued will be late.
LEMMA RevokedOld ==
    ASSUME OldInv, SessionTypes', token' = RevokedAll, UNCHANGED <<account, cookie>>,
           \A p \in Requests : \/ request'[p] = [request[p] EXCEPT !.late = @ \/ request[p].pc = "issue"]
                               \/ request'[p].pc # "issue" /\ request'[p].new = 0
    PROVE  OldInv'
<1>1. \A t \in Tokens : token'[t].issued = token[t].issued /\ ~Live(t)'
  <2> SUFFICES ASSUME NEW t \in Tokens
               PROVE  token'[t].issued = token[t].issued /\ ~Live(t)'
    OBVIOUS
  <2>1. token[t] \in TokenRows /\ token'[t] = [token[t] EXCEPT !.revoked = token[t].issued]
    BY DEF OldInv, SessionTypes, RevokedAll
  <2>2. token'[t].issued = token[t].issued /\ token'[t].revoked = token[t].issued
    BY <2>1 DEF TokenRows
  <2> QED
    BY <2>2 DEF Live
<1>2. \A p \in Requests : /\ request'[p].new \in {0, request[p].new}
                          /\ request'[p].pc = "issue" => request'[p].late
  <2> SUFFICES ASSUME NEW p \in Requests
               PROVE  /\ request'[p].new \in {0, request[p].new}
                      /\ request'[p].pc = "issue" => request'[p].late
    OBVIOUS
  <2>1. CASE request'[p].pc # "issue" /\ request'[p].new = 0
    BY <2>1
  <2>2. CASE request'[p] = [request[p] EXCEPT !.late = @ \/ request[p].pc = "issue"]
    <3> DEFINE b == request[p].late \/ request[p].pc = "issue"
    <3>1. request[p] \in Handlers /\ request'[p] = [request[p] EXCEPT !.late = b]
      BY <2>2 DEF OldInv, SessionTypes
    <3>2. request[p].pc = "issue" => b
      OBVIOUS
    <3> HIDE DEF b
    <3>3. request'[p].new = request[p].new /\ request'[p].pc = request[p].pc /\ request'[p].late = b
      BY <3>1 DEF Handlers
    <3> QED
      BY <3>2, <3>3
  <2> QED
    BY <2>1, <2>2
<1>3. HeldIsIssued'
  BY <1>1, <1>2 DEF OldInv, HeldIsIssued, SessionTypes, Handlers
<1>4. OldTokens' /\ OldRequests'
  BY <1>1, <1>2 DEF OldTokens, OldRequests
<1> QED
  BY <1>3, <1>4 DEF OldInv

LEMMA OldStep ==
    ASSUME OldInv, SessionNext
    PROVE  OldInv'
<1>t. SessionTypes /\ SessionTypes'
  BY StepTypes DEF OldInv
<1>1. ASSUME NEW q \in Requests, NEW c \in Clients, Login(q, c) PROVE OldInv'
  <2> DEFINE h == [Waiting EXCEPT !.pc = "issue", !.op = "login", !.client = c, !.root = account.pw]
  <2>1. h.new = 0 /\ h.root = account.pw
    BY DEF Waiting
  <2>2. ~Outdated(h.root)
    BY <1>1, <1>t, <2>1 DEF Outdated, Login, SessionTypes
  <2>3. Send(q, c, h) /\ UNCHANGED <<account, token, cookie>>
    BY <1>1 DEF Login
  <2> HIDE DEF h
  <2> QED
    BY <1>t, <2>1, <2>2, <2>3, BeginOld
<1>2. ASSUME NEW q \in Requests, NEW c \in Clients, Refresh(q, c) PROVE OldInv'
  <2> DEFINE t == cookie[c]
             r == [Waiting EXCEPT !.op = "refresh", !.client = c, !.tok = t]
             alarm == [r EXCEPT !.pc = "alarm"]
             issue == [r EXCEPT !.pc = "issue", !.root = token[t].root, !.late = token[t].late]
  <2>1. t \in Tokens /\ token[t].issued
    BY <1>2, <1>t DEF Refresh, SessionTypes, OldInv, HeldIsIssued
  <2>2. alarm.new = 0 /\ alarm.pc # "issue"
    BY DEF Waiting
  <2>3. issue.new = 0 /\ issue.root = token[t].root /\ issue.late = token[t].late
    BY DEF Waiting
  <2>4. UNCHANGED <<account, token, cookie>>
    BY <1>2 DEF Refresh
  <2>5. CASE token[t].revoked
    <3>1. Send(q, c, alarm)
      BY <1>2, <2>5 DEF Refresh
    <3> HIDE DEF alarm
    <3> QED
      BY <1>t, <2>2, <2>4, <3>1, BeginOld
  <2>6. CASE ~token[t].revoked
    <3>1. Send(q, c, issue)
      BY <1>2, <2>6 DEF Refresh
    <3>2. Outdated(token[t].root) => token[t].late \/ Owed
      BY <2>1, <2>6 DEF OldInv, OldTokens, Live
    <3> HIDE DEF issue
    <3> QED
      BY <1>t, <2>3, <2>4, <3>1, <3>2, BeginOld
  <2> QED
    BY <2>5, <2>6
<1>3. ASSUME NEW q \in Requests, Issue(q) PROVE OldInv'
  <2> DEFINE r == request[q]
             k == [Unissued EXCEPT !.issued = TRUE, !.root = r.root, !.late = r.late]
  <2>1. Fresh \in Tokens /\ ~token[Fresh].issued
    BY <1>3, FreshIsUnissued DEF Issue
  <2>2. k.issued /\ k.root = r.root /\ k.late = r.late
    BY DEF Unissued
  <2>3. token' = [token EXCEPT ![Fresh] = k]
    BY <1>3 DEF Issue
  <2> HIDE DEF k
  <2>4. \A t \in Tokens : token'[t] = IF t = Fresh THEN k ELSE token[t]
    BY <1>t, <2>3 DEF SessionTypes
  <2>5. \A p \in Requests \ {q} : request'[p] = request[p]
    BY <1>3, <1>t DEF Issue, SessionTypes
  <2>6. r.pc = "issue" /\ request'[q].pc \in {"rotate", "answer"} /\ request'[q].new = Fresh
    BY <1>3, <1>t DEF Issue, SessionTypes, Handlers
  <2>7. UNCHANGED <<account, cookie, past>>
    BY <1>3 DEF Issue
  <2>8. Owed => Owed'
    BY <2>5, <2>6, <2>7 DEF Owed
  <2>9. HeldIsIssued'
    <3>1. \A t \in Tokens : token[t].issued => token'[t].issued
      BY <2>2, <2>4
    <3>2. \A c \in Clients : cookie'[c] # 0 => token'[cookie'[c]].issued
      BY <1>t, <2>7, <3>1 DEF OldInv, HeldIsIssued, SessionTypes
    <3>3. \A p \in Requests : request'[p].new # 0 => token'[request'[p].new].issued
      BY <1>t, <2>1, <2>2, <2>4, <2>5, <2>6, <3>1 DEF OldInv, HeldIsIssued, SessionTypes, Handlers
    <3> QED
      BY <3>2, <3>3 DEF HeldIsIssued
  <2>10. OldTokens'
    <3> SUFFICES ASSUME NEW t \in Tokens, Live(t)', Outdated(token[t].root)'
                 PROVE  token'[t].late \/ Owed'
      BY DEF OldTokens
    <3>1. CASE t = Fresh
      <4>1. Outdated(r.root)
        BY <2>2, <2>4, <2>7, <3>1 DEF Outdated
      <4>2. r.late \/ Owed
        BY <2>6, <4>1 DEF OldInv, OldRequests
      <4> QED
        BY <2>2, <2>4, <2>8, <3>1, <4>2
    <3>2. CASE t # Fresh
      BY <2>4, <2>7, <2>8, <3>2 DEF OldInv, OldTokens, Live, Outdated
    <3> QED
      BY <3>1, <3>2
  <2>11. OldRequests'
    BY <2>5, <2>6, <2>7, <2>8 DEF OldInv, OldRequests, Outdated
  <2> QED
    BY <1>t, <2>9, <2>10, <2>11 DEF OldInv
<1>4. ASSUME NEW q \in Requests, Rotate(q) PROVE OldInv'
  <2>1. /\ \A p \in Requests \ {q} : request'[p] = request[p]
        /\ request[q].pc = "rotate" /\ request'[q].pc = "answer" /\ request'[q].new = request[q].new
    BY <1>4, <1>t DEF Rotate, SessionTypes, Handlers
  <2>2. \A t \in Tokens : /\ token'[t].issued = token[t].issued
                          /\ token'[t].root = token[t].root
                          /\ token'[t].late = token[t].late
                          /\ token[t].revoked => token'[t].revoked
    BY <1>4, <1>t DEF Rotate, SessionTypes, TokenRows
  <2>3. UNCHANGED <<account, cookie, past>>
    BY <1>4 DEF Rotate
  <2>4. Onward(q)
    BY <2>1, <2>2, <2>3 DEF Onward, Owed
  <2> QED
    BY <1>t, <2>3, <2>4, OnwardOld
<1>5. ASSUME NEW q \in Requests, Answer(q) PROVE OldInv'
  <2>1. \A p \in Requests : request'[p] = IF p = q THEN Waiting ELSE request[p]
    BY <1>5, <1>t DEF Answer, SessionTypes
  <2>2. \A c \in Clients : cookie'[c] \in {cookie[c], request[q].new}
    BY <1>5, <1>t DEF Answer, SessionTypes
  <2>3. request[q].pc = "answer" /\ UNCHANGED <<account, token, past>>
    BY <1>5 DEF Answer
  <2>4. Waiting.pc = "idle" /\ Waiting.new = 0
    BY DEF Waiting
  <2>5. Owed => Owed'
    BY <2>1, <2>3 DEF Owed
  <2>6. Onward(q)
    BY <2>1, <2>3, <2>4, <2>5 DEF Onward
  <2> QED
    BY <1>t, <2>2, <2>6, OnwardOld
<1>6. ASSUME NEW q \in Requests, Store(q) PROVE OldInv'
  <2>1. /\ \A p \in Requests \ {q} : request'[p] = request[p]
        /\ request'[q].pc = "revokeAll" /\ request'[q].new = request[q].new
    BY <1>6, <1>t DEF Store, SessionTypes, Handlers
  <2>2. Owed'
    BY <2>1 DEF Owed
  <2>3. HeldIsIssued'
    BY <1>6, <2>1 DEF Store, OldInv, HeldIsIssued
  <2> QED
    BY <1>t, <2>2, <2>3 DEF OldInv, OldTokens, OldRequests
<1>7. ASSUME NEW q \in Requests, RevokeAll(q) PROVE OldInv'
  <2>1. \A p \in Requests : request'[p] = IF p = q THEN Waiting
                                         ELSE [request[p] EXCEPT !.late = @ \/ request[p].pc = "issue"]
    BY <1>7 DEF RevokeAll, Overtook
  <2>2. Waiting.pc # "issue" /\ Waiting.new = 0
    BY DEF Waiting
  <2>3. token' = RevokedAll /\ UNCHANGED <<account, cookie>>
    BY <1>7 DEF RevokeAll
  <2> QED
    BY <1>t, <2>1, <2>2, <2>3, RevokedOld
<1>8. ASSUME NEW q \in Requests, Abort(q) PROVE OldInv'
  <2>1. \A p \in Requests : request'[p] = IF p = q THEN Waiting ELSE request[p]
    BY <1>8, <1>t DEF Abort, SessionTypes
  <2>2. past.interrupted \/ request[q].pc = "revokeAll" => past'.interrupted
    BY <1>8 DEF Abort
  <2>3. Owed => Owed'
    BY <2>1, <2>2 DEF Owed
  <2>4. Waiting.pc = "idle" /\ Waiting.new = 0
    BY DEF Waiting
  <2>5. UNCHANGED <<account, token, cookie>>
    BY <1>8 DEF Abort
  <2>6. Onward(q)
    BY <2>1, <2>3, <2>4, <2>5 DEF Onward
  <2> QED
    BY <1>t, <2>5, <2>6, OnwardOld
<1>9. ASSUME NEW q \in Requests, NEW c \in Clients, Logout(q, c) PROVE OldInv'
  <2> DEFINE h == [Waiting EXCEPT !.pc = "answer", !.op = "logout", !.client = c]
  <2>1. Send(q, c, h)
    BY <1>9 DEF Logout
  <2>2. h.pc = "answer" /\ h.new = 0
    BY DEF Waiting
  <2> HIDE DEF h
  <2>3. \A p \in Requests : request'[p] = IF p = q THEN h ELSE request[p]
    BY <1>t, <2>1, Given DEF Send
  <2>4. Owed => Owed'
    BY <1>t, <2>1, <2>3 DEF Owed, Send, SessionTypes
  <2>5. \A t \in Tokens : /\ token'[t].issued = token[t].issued
                          /\ token'[t].root = token[t].root
                          /\ token'[t].late = token[t].late
                          /\ token[t].revoked => token'[t].revoked
    BY <1>9, <1>t DEF Logout, SessionTypes, TokenRows
  <2>6. Onward(q)
    BY <1>9, <2>2, <2>3, <2>4, <2>5 DEF Logout, Onward
  <2> QED
    BY <1>9, <1>t, <2>6, OnwardOld DEF Logout
<1>10. ASSUME NEW q \in Requests, NEW c \in Clients \cup {NoClient}, LogoutAll(q, c) PROVE OldInv'
  <2> DEFINE h == [Waiting EXCEPT !.pc = "answer", !.op = "logout", !.client = c]
  <2>1. h.pc # "issue" /\ h.new = 0
    BY DEF Waiting
  <2>2. request' = Overtook \/ request' = [Overtook EXCEPT ![q] = h]
    BY <1>10 DEF LogoutAll
  <2> HIDE DEF h
  <2>3. \A p \in Requests : \/ request'[p] = [request[p] EXCEPT !.late = @ \/ request[p].pc = "issue"]
                           \/ request'[p] = h
    BY <2>2 DEF Overtook
  <2>4. token' = RevokedAll /\ UNCHANGED <<account, cookie>>
    BY <1>10 DEF LogoutAll
  <2> QED
    BY <1>t, <2>1, <2>3, <2>4, RevokedOld
<1>11. ASSUME NEW q \in Requests, NEW m \in 1..MaxMails, ResetPassword(q, m) PROVE OldInv'
  <2> DEFINE h == [Waiting EXCEPT !.pc = "store", !.op = "password", !.mail = m]
  <2>1. Send(q, NoClient, h) /\ UNCHANGED <<account, token, cookie>>
    BY <1>11 DEF ResetPassword
  <2>2. h.pc # "issue" /\ h.new = 0
    BY DEF Waiting
  <2> HIDE DEF h
  <2> QED
    BY <1>t, <2>1, <2>2, BeginOld
<1>12. ASSUME NEW q \in Requests, ChangePassword(q) \/ Suspend(q) PROVE OldInv'
  <2> PICK op \in {"password", "suspend"} :
             Send(q, NoClient, [Waiting EXCEPT !.pc = "store", !.op = op])
    BY <1>12 DEF ChangePassword, Suspend
  <2> DEFINE h == [Waiting EXCEPT !.pc = "store", !.op = op]
  <2>1. Send(q, NoClient, h) /\ UNCHANGED <<account, token, cookie>>
    BY <1>12 DEF ChangePassword, Suspend
  <2>2. h.pc # "issue" /\ h.new = 0
    BY DEF Waiting
  <2> HIDE DEF h
  <2> QED
    BY <1>t, <2>1, <2>2, BeginOld
<1>13. ASSUME NEW m \in 1..MaxMails, ForgotPassword(m) PROVE OldInv'
  BY <1>13, <1>t DEF OldInv, HeldIsIssued, OldTokens, OldRequests, Live, Outdated, Owed, ForgotPassword
<1>14. CASE Readmit
  <2>1. \A n : Outdated(n)' => Outdated(n)
    BY <1>14, <1>t DEF Readmit, Outdated, SessionTypes
  <2> QED
    BY <1>14, <1>t, <2>1 DEF OldInv, HeldIsIssued, OldTokens, OldRequests, Live, Owed, Readmit
<1> QED
  BY <1>1, <1>2, <1>3, <1>4, <1>5, <1>6, <1>7, <1>8, <1>9, <1>10, <1>11, <1>12, <1>13, <1>14
     DEF SessionNext, SessionStep

LEMMA OldInvariance == SessionSpec => []OldInv
<1>1. OldInv /\ [SessionNext]_sessionVars => OldInv'
  <2> SUFFICES ASSUME OldInv, [SessionNext]_sessionVars PROVE OldInv'
    OBVIOUS
  <2>1. CASE SessionNext
    BY <2>1, OldStep
  <2>2. CASE UNCHANGED sessionVars
    BY <2>2 DEF OldInv, SessionTypes, HeldIsIssued, OldTokens, OldRequests, Live, Outdated, Owed, sessionVars
  <2> QED
    BY <2>1, <2>2
<1> QED
  BY <1>1, InitOld, PTL DEF SessionSpec

\* auth.service.ts:511: for any number of clients, requests, tokens, links and failures, what
\* goes on after a password change or a suspension is a session whose revocation is still
\* owed, or one issued by a request that was under way during it.
THEOREM OldSessionsAreEnded == SessionSpec => []OldSessionsEnd
<1>1. OldInv => OldSessionsEnd
  BY DEF OldInv, OldTokens, OldSessionsEnd, Outdated, Owed
<1> QED
  BY <1>1, OldInvariance, PTL

-----------------------------------------------------------------------------
(***************************************************************************)
(* AlarmExplained.  Each token is in the hands of one client: in its       *)
(* cookie, or in a request of its own.  So who exchanges a token also      *)
(* waits for the answer with the next one, and a client that presents an   *)
(* exchanged token either does not wait or did not get the answer.         *)
(***************************************************************************)
Holds(c, t) == cookie[c] = t \/ \E q \in Requests : request[q].client = c /\ t \in {request[q].tok, request[q].new}

\* c is waiting for the answer to an exchange.
Expects(c) ==
    \E q \in Requests : request[q].client = c /\ request[q].op = "refresh" /\ request[q].pc = "answer"

OneHolder ==
    \A t \in Tokens, c \in Clients :
        Holds(c, t) => token[t].issued /\ \A d \in Clients : Holds(d, t) => d = c

RequestsOfClients ==
    \A q \in Requests :
        /\ request[q].pc = "idle" => request[q].client = NoClient
        /\ request[q].tok # 0 \/ request[q].new # 0 => request[q].client \in Clients
        /\ request[q].pc = "rotate" =>
             /\ request[q].tok \in Tokens /\ request[q].tok # request[q].new
             /\ request[q].op = "refresh"
        /\ request[q].pc = "issue" =>
             request[q].client \in Clients /\ (request[q].op = "refresh" => request[q].tok \in Tokens)
        /\ request[q].pc = "alarm" => request[q].tok \in Tokens

\* Requests of one client that overlap have disturbed it.
Overlaps ==
    \A p, q \in Requests :
        p # q /\ request[p].client = request[q].client /\ request[q].client \in Clients
        => request[q].client \in past.disturbed

RotatedExplained ==
    /\ \A c \in Clients : cookie[c] # 0 /\ token[cookie[c]].rotated
                          => c \in past.disturbed \/ Expects(c)
    /\ \A q \in Requests : request[q].new # 0 /\ token[request[q].new].rotated
                           => request[q].client \in past.disturbed

AlarmInv ==
    SessionTypes /\ OneHolder /\ RequestsOfClients /\ Overlaps /\ RotatedExplained /\ AlarmExplained

LEMMA InitAlarm == SessionInit => AlarmInv
<1> SUFFICES ASSUME SessionInit PROVE AlarmInv
  OBVIOUS
<1>1. SessionTypes
  BY InitTypes
<1>2. \A q \in Requests : request[q].client = NoClient /\ request[q].tok = 0
                          /\ request[q].new = 0 /\ request[q].pc = "idle"
  BY DEF SessionInit, Waiting
<1>3. \A t \in Tokens : ~token[t].rotated /\ (t = 1 => token[t].issued)
  BY DEF SessionInit, Unissued
<1>4. \A c \in Clients, t \in Tokens : Holds(c, t) => cookie[c] = t
  BY <1>2 DEF Holds, Tokens
<1>5. OneHolder
  <2> PICK b \in Clients : cookie = [d \in Clients |-> IF d = b THEN 1 ELSE 0]
    BY DEF SessionInit
  <2>1. \A c \in Clients, t \in Tokens : Holds(c, t) => c = b /\ t = 1
    BY <1>4 DEF Tokens
  <2> QED
    BY <1>3, <2>1 DEF OneHolder
<1>6. RequestsOfClients /\ Overlaps /\ AlarmExplained
  BY <1>2, SessionConstants DEF RequestsOfClients, Overlaps, AlarmExplained
<1>7. RotatedExplained
  BY <1>1, <1>2, <1>3 DEF RotatedExplained, SessionTypes
<1> QED
  BY <1>1, <1>5, <1>6, <1>7 DEF AlarmInv

-----------------------------------------------------------------------------
\* What may become of a request when no token is issued, exchanged or answered with.
Stays(p) ==
    /\ request'[p].client = request[p].client /\ request'[p].op = request[p].op
    /\ request'[p].tok = request[p].tok /\ request'[p].new = request[p].new
    /\ request'[p].pc = request[p].pc \/ request'[p].pc = "revokeAll"
    /\ request'[p].pc = request[p].pc \/ request[p].pc = "store"

Ends(p) ==
    /\ request'[p].client = NoClient /\ request'[p].tok = 0 /\ request'[p].new = 0
    /\ request'[p].pc \notin {"issue", "rotate", "alarm"}
    /\ request[p].pc = "answer" /\ request[p].op = "refresh" => request[p].client \in past'.disturbed

Begins(p, c) ==
    /\ request[p].pc = "idle"
    /\ request'[p].client = c /\ request'[p].new = 0 /\ request'[p].tok \in {0, cookie[c]}
    /\ request'[p].pc \notin {"idle", "rotate"}
    /\ request'[p].pc = "alarm" => request'[p].tok \in Tokens
    /\ request'[p].pc = "issue" /\ request'[p].op = "refresh" => request'[p].tok \in Tokens
    /\ (\E o \in Requests : request[o].client = c) => c \in past'.disturbed

Calm(q) ==
    /\ cookie' = cookie /\ past.disturbed \subseteq past'.disturbed
    /\ \A t \in Tokens : token'[t].issued = token[t].issued /\ token'[t].rotated = token[t].rotated
    /\ \A p \in Requests \ {q} : Stays(p)
    /\ Stays(q) \/ Ends(q) \/ \E c \in Clients : Begins(q, c)

LEMMA CalmHolds ==
    ASSUME AlarmInv, SessionTypes', NEW q \in Requests, Calm(q)
    PROVE  \A c \in Clients, t \in Tokens : Holds(c, t)' => Holds(c, t)
<1> SUFFICES ASSUME NEW c \in Clients, NEW t \in Tokens, Holds(c, t)' PROVE Holds(c, t)
  OBVIOUS
<1>1. CASE cookie'[c] = t
  BY <1>1 DEF Holds, Calm
<1>2. ASSUME NEW p \in Requests, request'[p].client = c, t \in {request'[p].tok, request'[p].new}
      PROVE  Holds(c, t)
  <2>0. t # 0 /\ c # NoClient
    BY SessionConstants DEF Tokens
  <2>1. CASE Stays(p)
    BY <1>2, <2>1 DEF Stays, Holds
  <2>2. CASE Ends(p)
    BY <1>2, <2>0, <2>2 DEF Ends
  <2>3. ASSUME NEW d \in Clients, Begins(p, d) PROVE Holds(c, t)
    BY <1>2, <2>0, <2>3 DEF Begins, Holds
  <2> QED
    BY <2>1, <2>2, <2>3 DEF Calm
<1> QED
  BY <1>1, <1>2 DEF Holds

LEMMA CalmAlarm ==
    ASSUME AlarmInv, SessionTypes', NEW q \in Requests, Calm(q)
    PROVE  AlarmInv'
<1>1. OneHolder'
  BY CalmHolds DEF AlarmInv, OneHolder, Calm
<1>2. \A p \in Requests : Stays(p) \/ Ends(p) \/ \E c \in Clients : Begins(p, c)
  BY DEF Calm
<1>3. RequestsOfClients'
  <2> SUFFICES ASSUME NEW p \in Requests
               PROVE  /\ request'[p].pc = "idle" => request'[p].client = NoClient
                      /\ request'[p].tok # 0 \/ request'[p].new # 0 => request'[p].client \in Clients
                      /\ request'[p].pc = "rotate" =>
                           /\ request'[p].tok \in Tokens /\ request'[p].tok # request'[p].new
                           /\ request'[p].op = "refresh"
                      /\ request'[p].pc = "issue" =>
                           /\ request'[p].client \in Clients
                           /\ request'[p].op = "refresh" => request'[p].tok \in Tokens
                      /\ request'[p].pc = "alarm" => request'[p].tok \in Tokens
    BY DEF RequestsOfClients
  <2>1. CASE Stays(p)
    <3>1. CASE request'[p].pc = request[p].pc
      BY <2>1, <3>1 DEF AlarmInv, RequestsOfClients, Stays
    <3>2. CASE request'[p].pc = "revokeAll"
      BY <2>1, <3>2 DEF AlarmInv, RequestsOfClients, Stays
    <3> QED
      BY <2>1, <3>1, <3>2 DEF Stays
  <2>2. CASE Ends(p)
    BY <2>2 DEF Ends
  <2>3. CASE \E c \in Clients : Begins(p, c)
    BY <2>3 DEF Begins
  <2> QED
    BY <1>2, <2>1, <2>2, <2>3
<1>4. Overlaps'
  <2> SUFFICES ASSUME NEW p \in Requests, NEW o \in Requests, p # o,
                      request'[p].client = request'[o].client, request'[o].client \in Clients
               PROVE  request'[o].client \in past'.disturbed
    BY DEF Overlaps
  <2>1. CASE Stays(p) /\ Stays(o)
    BY <2>1 DEF AlarmInv, Overlaps, Stays, Calm
  <2>2. ~Ends(p) /\ ~Ends(o)
    BY SessionConstants DEF Ends
  <2>3. ASSUME NEW c \in Clients, NEW a \in Requests, NEW b \in Requests, a # b,
               Begins(a, c), Stays(b), request'[a].client = request'[b].client
        PROVE  request'[a].client \in past'.disturbed
    BY <2>3 DEF Begins, Stays
  <2>4. Stays(p) \/ Stays(o)
    BY DEF Calm
  <2> QED
    BY <1>2, <2>1, <2>2, <2>3, <2>4
<1>5. \A c \in Clients : Expects(c) => Expects(c)' \/ c \in past'.disturbed
  <2> SUFFICES ASSUME NEW c \in Clients, NEW p \in Requests, request[p].client = c,
                      request[p].op = "refresh", request[p].pc = "answer"
               PROVE  Expects(c)' \/ c \in past'.disturbed
    BY DEF Expects
  <2>1. CASE Stays(p)
    BY <2>1 DEF Stays, Expects
  <2>2. CASE Ends(p)
    BY <2>2 DEF Ends
  <2>3. \A d \in Clients : ~Begins(p, d)
    BY DEF Begins
  <2> QED
    BY <1>2, <2>1, <2>2, <2>3
<1>6. RotatedExplained'
  <2>1. ASSUME NEW c \in Clients, cookie'[c] # 0, token'[cookie'[c]].rotated
        PROVE  c \in past'.disturbed \/ Expects(c)'
    <3>1. cookie[c] \in Tokens /\ cookie'[c] = cookie[c]
      BY <2>1 DEF AlarmInv, SessionTypes, Calm
    <3>2. c \in past.disturbed \/ Expects(c)
      BY <2>1, <3>1 DEF AlarmInv, RotatedExplained, Calm
    <3> QED
      BY <1>5, <3>2 DEF Calm
  <2>2. ASSUME NEW p \in Requests, request'[p].new # 0, token'[request'[p].new].rotated
        PROVE  request'[p].client \in past'.disturbed
    <3>1. Stays(p)
      BY <1>2, <2>2 DEF Ends, Begins
    <3>2. request[p].new \in Tokens
      BY <2>2, <3>1 DEF Stays, AlarmInv, SessionTypes, Handlers
    <3> QED
      BY <2>2, <3>1, <3>2 DEF Stays, AlarmInv, RotatedExplained, Calm
  <2> QED
    BY <2>1, <2>2 DEF RotatedExplained
<1>7. AlarmExplained'
  <2> SUFFICES ASSUME NEW p \in Requests, request'[p].pc = "alarm", token'[request'[p].tok].rotated
               PROVE  request'[p].client \in past'.disturbed
    BY DEF AlarmExplained
  <2>1. request'[p].tok \in Tokens
    BY <1>3 DEF RequestsOfClients
  <2>2. token[request'[p].tok].rotated
    BY <2>1 DEF Calm
  <2>3. CASE Stays(p)
    BY <2>2, <2>3 DEF Stays, AlarmInv, AlarmExplained, Calm
  <2>4. ASSUME NEW c \in Clients, Begins(p, c) PROVE request'[p].client \in past'.disturbed
    <3>1. cookie[c] = request'[p].tok /\ cookie[c] # 0 /\ request'[p].client = c
      BY <2>1, <2>4 DEF Begins, Tokens
    <3>2. c \in past.disturbed \/ Expects(c)
      BY <2>2, <3>1 DEF AlarmInv, RotatedExplained
    <3> QED
      BY <2>4, <3>1, <3>2 DEF Expects, Begins, Calm
  <2> QED
    BY <1>2, <2>3, <2>4 DEF Ends
<1> QED
  BY <1>1, <1>3, <1>4, <1>6, <1>7 DEF AlarmInv

\* A request that is sent by a client or by nobody.
LEMMA SendAlarm ==
    ASSUME AlarmInv, SessionTypes', NEW q \in Requests, NEW c \in Clients \cup {NoClient}, NEW h,
           Send(q, c, h), cookie' = cookie,
           \A t \in Tokens : token'[t].issued = token[t].issued /\ token'[t].rotated = token[t].rotated,
           h.client = c, h.new = 0, h.pc \notin {"idle", "rotate"},
           h.tok # 0 => c # NoClient /\ h.tok = cookie[c],
           h.pc = "alarm" => h.tok \in Tokens,
           h.pc = "issue" => c # NoClient /\ (h.op = "refresh" => h.tok \in Tokens)
    PROVE  AlarmInv'
<1>1. \A p \in Requests : request'[p] = IF p = q THEN h ELSE request[p]
  <2>1. SessionTypes /\ request' = [request EXCEPT ![q] = h]
    BY DEF Send, AlarmInv
  <2> QED
    BY <2>1, Given
<1>2. past.disturbed \subseteq past'.disturbed
      /\ (c # NoClient /\ (\E o \in Requests : request[o].client = c) => c \in past'.disturbed)
  BY DEF Send, AlarmInv, SessionTypes
<1>3. \A p \in Requests \ {q} : Stays(p)
  BY <1>1 DEF Stays
<1>4. request[q].pc = "idle"
  BY DEF Send
<1>5. CASE c \in Clients
  <2>1. Begins(q, c)
    BY <1>1, <1>2, <1>4, <1>5, SessionConstants DEF Begins
  <2>2. Calm(q)
    BY <1>2, <1>3, <1>5, <2>1 DEF Calm
  <2> QED
    BY <2>2, CalmAlarm
<1>6. CASE c = NoClient
  <2>1. h.tok = 0
    BY <1>6
  <2>2. h.pc \notin {"alarm", "issue"}
    BY <1>6, <2>1 DEF Tokens
  <2>3. Ends(q)
    BY <1>1, <1>4, <1>6, <2>1, <2>2 DEF Ends
  <2>4. Calm(q)
    BY <1>2, <1>3, <2>3 DEF Calm
  <2> QED
    BY <2>4, CalmAlarm
<1> QED
  BY <1>5, <1>6

\* Tokens keep issued and rotated when all of them are revoked.
LEMMA RevokedAllKeeps ==
    ASSUME SessionTypes, token' = RevokedAll
    PROVE  \A t \in Tokens : token'[t].issued = token[t].issued /\ token'[t].rotated = token[t].rotated
<1> SUFFICES ASSUME NEW t \in Tokens
             PROVE  token'[t].issued = token[t].issued /\ token'[t].rotated = token[t].rotated
  OBVIOUS
<1>1. token[t] \in TokenRows /\ token'[t] = [token[t] EXCEPT !.revoked = token[t].issued]
  BY DEF SessionTypes, RevokedAll
<1> QED
  BY <1>1 DEF TokenRows

\* And so do requests that have been overtaken, but for late.
LEMMA OvertookStays ==
    ASSUME SessionTypes, NEW p \in Requests, request'[p] = Overtook[p]
    PROVE  Stays(p)
<1>1. request[p] \in Handlers
      /\ request'[p] = [request[p] EXCEPT !.late = @ \/ request[p].pc = "issue"]
  BY DEF SessionTypes, Overtook
<1> QED
  BY <1>1 DEF Stays, Handlers

LEMMA IssueAlarm ==
    ASSUME AlarmInv, SessionTypes', NEW q \in Requests, Issue(q)
    PROVE  AlarmInv'
<1> DEFINE r == request[q]
           k == [Unissued EXCEPT !.issued = TRUE, !.root = r.root, !.late = r.late]
<1>1. Fresh \in Tokens /\ ~token[Fresh].issued
  BY FreshIsUnissued DEF Issue
<1>2. k.issued /\ ~k.rotated
  BY DEF Unissued
<1>3. token' = [token EXCEPT ![Fresh] = k]
  BY DEF Issue
<1> HIDE DEF k
<1>4. \A t \in Tokens : token'[t] = IF t = Fresh THEN k ELSE token[t]
  BY <1>3 DEF AlarmInv, SessionTypes
<1>5. \A p \in Requests \ {q} : request'[p] = request[p]
  BY DEF Issue, AlarmInv, SessionTypes
<1>6. /\ request'[q].client = r.client /\ request'[q].op = r.op /\ request'[q].tok = r.tok
      /\ request'[q].new = Fresh /\ r.pc = "issue"
      /\ request'[q].pc = IF r.op = "refresh" THEN "rotate" ELSE "answer"
  BY DEF Issue, AlarmInv, SessionTypes, Handlers
<1>7. UNCHANGED <<cookie, past>>
  BY DEF Issue
<1>8. \A c \in Clients : ~Holds(c, Fresh)
  BY <1>1 DEF AlarmInv, OneHolder
<1>9. \A c \in Clients, t \in Tokens : Holds(c, t)' => Holds(c, t) \/ (t = Fresh /\ c = r.client)
  BY <1>5, <1>6, <1>7 DEF Holds
<1>10. OneHolder'
  BY <1>1, <1>2, <1>4, <1>8, <1>9 DEF AlarmInv, OneHolder
<1>11. r.client \in Clients => r.tok # Fresh
  BY <1>8 DEF Holds
<1>12. r.client \in Clients /\ (r.op = "refresh" => r.tok \in Tokens)
  BY <1>6 DEF AlarmInv, RequestsOfClients
<1>13. RequestsOfClients'
  <2>1. ASSUME NEW p \in Requests, p # q
        PROVE  /\ request'[p].pc = "idle" => request'[p].client = NoClient
               /\ request'[p].tok # 0 \/ request'[p].new # 0 => request'[p].client \in Clients
               /\ request'[p].pc = "rotate" =>
                    /\ request'[p].tok \in Tokens /\ request'[p].tok # request'[p].new
                    /\ request'[p].op = "refresh"
               /\ request'[p].pc = "issue" =>
                    /\ request'[p].client \in Clients
                    /\ request'[p].op = "refresh" => request'[p].tok \in Tokens
               /\ request'[p].pc = "alarm" => request'[p].tok \in Tokens
    BY <1>5, <2>1 DEF AlarmInv, RequestsOfClients
  <2>2. /\ request'[q].client \in Clients
        /\ request'[q].pc \in {"rotate", "answer"}
        /\ request'[q].pc = "rotate" =>
             /\ request'[q].tok \in Tokens /\ request'[q].tok # request'[q].new
             /\ request'[q].op = "refresh"
    BY <1>6, <1>11, <1>12
  <2> QED
    BY <2>1, <2>2 DEF RequestsOfClients
<1>14. Overlaps'
  BY <1>5, <1>6, <1>7 DEF AlarmInv, Overlaps
<1>15. \A c \in Clients : Expects(c) => Expects(c)'
  BY <1>5, <1>6 DEF Expects
<1>16. RotatedExplained'
  <2>1. ASSUME NEW c \in Clients, cookie'[c] # 0, token'[cookie'[c]].rotated
        PROVE  c \in past'.disturbed \/ Expects(c)'
    <3>1. cookie[c] \in Tokens /\ cookie'[c] = cookie[c]
      BY <1>7, <2>1 DEF AlarmInv, SessionTypes
    <3> QED
      BY <1>2, <1>4, <1>7, <1>15, <2>1, <3>1 DEF AlarmInv, RotatedExplained
  <2>2. ASSUME NEW p \in Requests, request'[p].new # 0, token'[request'[p].new].rotated
        PROVE  request'[p].client \in past'.disturbed
    <3>1. p # q
      BY <1>1, <1>2, <1>4, <1>6, <2>2
    <3>2. request[p].new \in Tokens /\ request'[p] = request[p]
      BY <1>5, <2>2, <3>1 DEF AlarmInv, SessionTypes, Handlers
    <3> QED
      BY <1>2, <1>4, <1>7, <2>2, <3>2 DEF AlarmInv, RotatedExplained
  <2> QED
    BY <2>1, <2>2 DEF RotatedExplained
<1>17. AlarmExplained'
  <2> SUFFICES ASSUME NEW p \in Requests, request'[p].pc = "alarm", token'[request'[p].tok].rotated
               PROVE  request'[p].client \in past'.disturbed
    BY DEF AlarmExplained
  <2>1. p # q
    BY <1>6
  <2>2. request'[p] = request[p] /\ request[p].tok \in Tokens
    BY <1>5, <2>1 DEF AlarmInv, RequestsOfClients
  <2> QED
    BY <1>2, <1>4, <1>7, <2>2 DEF AlarmInv, AlarmExplained
<1> QED
  BY <1>10, <1>13, <1>14, <1>16, <1>17 DEF AlarmInv

LEMMA RotateAlarm ==
    ASSUME AlarmInv, SessionTypes', NEW q \in Requests, Rotate(q)
    PROVE  AlarmInv'
<1> DEFINE r == request[q]
<1>1. /\ \A p \in Requests \ {q} : request'[p] = request[p]
      /\ request'[q].client = r.client /\ request'[q].op = r.op /\ request'[q].tok = r.tok
      /\ request'[q].new = r.new /\ r.pc = "rotate" /\ request'[q].pc = "answer"
  BY DEF Rotate, AlarmInv, SessionTypes, Handlers
<1>2. UNCHANGED <<cookie, past>>
  BY DEF Rotate
<1>3. r.tok \in Tokens /\ r.tok # r.new /\ r.op = "refresh" /\ r.client \in Clients
  BY <1>1 DEF AlarmInv, RequestsOfClients, Tokens
<1>4. \A t \in Tokens : /\ token'[t].issued = token[t].issued
                        /\ t # r.tok => token'[t] = token[t]
  BY DEF Rotate, AlarmInv, SessionTypes, TokenRows
<1>5. \A c \in Clients, t \in Tokens : Holds(c, t)' <=> Holds(c, t)
  BY <1>1, <1>2 DEF Holds
<1>6. OneHolder'
  BY <1>4, <1>5 DEF AlarmInv, OneHolder
<1>7. RequestsOfClients'
  BY <1>1, <1>3 DEF AlarmInv, RequestsOfClients
<1>8. Overlaps'
  BY <1>1, <1>2 DEF AlarmInv, Overlaps
<1>9. \A c \in Clients : Expects(c) => Expects(c)'
  BY <1>1 DEF Expects
<1>10. \A c \in Clients : Holds(c, r.tok) => c = r.client
  BY <1>3 DEF AlarmInv, OneHolder, Holds
\* Another request with the token is its client's, which overlaps.
<1>11. ASSUME NEW p \in Requests, p # q, r.tok \in {request[p].tok, request[p].new}
       PROVE  request'[p].client \in past'.disturbed
  <2>1. request[p].client \in Clients
    BY <1>3, <1>11 DEF AlarmInv, RequestsOfClients, Tokens
  <2>2. request[p].client = r.client
    BY <1>10, <1>11, <2>1 DEF Holds
  <2> QED
    BY <1>1, <1>2, <1>3, <1>11, <2>2 DEF AlarmInv, Overlaps
<1>12. RotatedExplained'
  <2>1. ASSUME NEW c \in Clients, cookie'[c] # 0, token'[cookie'[c]].rotated
        PROVE  c \in past'.disturbed \/ Expects(c)'
    <3>1. cookie[c] \in Tokens /\ cookie'[c] = cookie[c]
      BY <1>2, <2>1 DEF AlarmInv, SessionTypes
    <3>2. CASE cookie[c] = r.tok
      <4>1. c = r.client
        BY <1>10, <3>2 DEF Holds
      <4> QED
        BY <1>1, <1>3, <4>1 DEF Expects
    <3>3. CASE cookie[c] # r.tok
      BY <1>2, <1>4, <1>9, <2>1, <3>1, <3>3 DEF AlarmInv, RotatedExplained
    <3> QED
      BY <3>2, <3>3
  <2>2. ASSUME NEW p \in Requests, request'[p].new # 0, token'[request'[p].new].rotated
        PROVE  request'[p].client \in past'.disturbed
    <3>1. request'[p].new = request[p].new /\ request'[p].client = request[p].client
      BY <1>1
    <3>2. request[p].new \in Tokens
      BY <2>2, <3>1 DEF AlarmInv, SessionTypes, Handlers
    <3>3. CASE request[p].new = r.tok
      BY <1>3, <1>11, <3>3
    <3>4. CASE request[p].new # r.tok
      BY <1>2, <1>4, <2>2, <3>1, <3>2, <3>4 DEF AlarmInv, RotatedExplained
    <3> QED
      BY <3>3, <3>4
  <2> QED
    BY <2>1, <2>2 DEF RotatedExplained
<1>13. AlarmExplained'
  <2> SUFFICES ASSUME NEW p \in Requests, request'[p].pc = "alarm", token'[request'[p].tok].rotated
               PROVE  request'[p].client \in past'.disturbed
    BY DEF AlarmExplained
  <2>1. p # q
    BY <1>1
  <2>2. request'[p] = request[p] /\ request[p].tok \in Tokens
    BY <1>1, <2>1 DEF AlarmInv, RequestsOfClients
  <2>3. CASE request[p].tok = r.tok
    BY <1>11, <2>1, <2>3
  <2>4. CASE request[p].tok # r.tok
    BY <1>2, <1>4, <2>2, <2>4 DEF AlarmInv, AlarmExplained
  <2> QED
    BY <2>3, <2>4
<1> QED
  BY <1>6, <1>7, <1>8, <1>12, <1>13 DEF AlarmInv

LEMMA AnswerAlarm ==
    ASSUME AlarmInv, SessionTypes', NEW q \in Requests, Answer(q)
    PROVE  AlarmInv'
<1> DEFINE r == request[q]
<1>1. \A p \in Requests : request'[p] = IF p = q THEN Waiting ELSE request[p]
  BY DEF Answer, AlarmInv, SessionTypes
<1>2. \A c \in Clients : cookie'[c] = IF c = r.client THEN r.new ELSE cookie[c]
  BY DEF Answer, AlarmInv, SessionTypes
<1>3. UNCHANGED <<token, past>>
  BY DEF Answer
<1>4. Waiting.client = NoClient /\ Waiting.tok = 0 /\ Waiting.new = 0 /\ Waiting.pc = "idle"
  BY DEF Waiting
<1>5. \A c \in Clients, t \in Tokens : Holds(c, t)' => Holds(c, t)
  BY <1>1, <1>2, <1>4, SessionConstants DEF Holds
<1>6. OneHolder'
  BY <1>3, <1>5 DEF AlarmInv, OneHolder
<1>7. RequestsOfClients'
  BY <1>1, <1>4 DEF AlarmInv, RequestsOfClients
<1>8. Overlaps'
  BY <1>1, <1>3, <1>4, SessionConstants DEF AlarmInv, Overlaps
<1>9. RotatedExplained'
  <2>1. ASSUME NEW c \in Clients, cookie'[c] # 0, token'[cookie'[c]].rotated
        PROVE  c \in past'.disturbed \/ Expects(c)'
    <3>1. CASE c = r.client
      BY <1>2, <1>3, <2>1, <3>1 DEF AlarmInv, RotatedExplained
    <3>2. CASE c # r.client
      <4>1. c \in past.disturbed \/ Expects(c)
        BY <1>2, <1>3, <2>1, <3>2 DEF AlarmInv, RotatedExplained
      <4>2. Expects(c) => Expects(c)'
        BY <1>1, <3>2 DEF Expects
      <4> QED
        BY <1>3, <4>1, <4>2
    <3> QED
      BY <3>1, <3>2
  <2>2. ASSUME NEW p \in Requests, request'[p].new # 0, token'[request'[p].new].rotated
        PROVE  request'[p].client \in past'.disturbed
    BY <1>1, <1>3, <1>4, <2>2 DEF AlarmInv, RotatedExplained
  <2> QED
    BY <2>1, <2>2 DEF RotatedExplained
<1>10. AlarmExplained'
  BY <1>1, <1>3, <1>4 DEF AlarmInv, AlarmExplained
<1> QED
  BY <1>6, <1>7, <1>8, <1>9, <1>10 DEF AlarmInv

LEMMA AlarmStep ==
    ASSUME AlarmInv, SessionNext
    PROVE  AlarmInv'
<1>t. SessionTypes /\ SessionTypes'
  BY StepTypes DEF AlarmInv
<1>w. Waiting.client = NoClient /\ Waiting.tok = 0 /\ Waiting.new = 0 /\ Waiting.pc = "idle"
  BY DEF Waiting
<1>1. ASSUME NEW q \in Requests, NEW c \in Clients, Login(q, c) PROVE AlarmInv'
  <2> DEFINE h == [Waiting EXCEPT !.pc = "issue", !.op = "login", !.client = c, !.root = account.pw]
  <2>1. h.client = c /\ h.new = 0 /\ h.tok = 0 /\ h.pc = "issue" /\ h.op = "login"
    BY DEF Waiting
  <2>2. Send(q, c, h) /\ UNCHANGED <<token, cookie>>
    BY <1>1 DEF Login
  <2>3. c # NoClient
    BY SessionConstants
  <2> HIDE DEF h
  <2> QED
    BY <1>t, <2>1, <2>2, <2>3, SendAlarm
<1>2. ASSUME NEW q \in Requests, NEW c \in Clients, Refresh(q, c) PROVE AlarmInv'
  <2> DEFINE t == cookie[c]
             r == [Waiting EXCEPT !.op = "refresh", !.client = c, !.tok = t]
             h == IF token[t].revoked THEN [r EXCEPT !.pc = "alarm"]
                  ELSE [r EXCEPT !.pc = "issue", !.root = token[t].root, !.late = token[t].late]
  <2>1. t \in Tokens /\ c # NoClient
    BY <1>2, <1>t, SessionConstants DEF Refresh, SessionTypes
  <2>2. h.client = c /\ h.new = 0 /\ h.tok = t /\ h.pc \in {"issue", "alarm"}
    BY DEF Waiting
  <2>3. Send(q, c, h) /\ UNCHANGED <<token, cookie>>
    BY <1>2 DEF Refresh
  <2> HIDE DEF h
  <2> QED
    BY <1>t, <2>1, <2>2, <2>3, SendAlarm
<1>3. ASSUME NEW q \in Requests, Issue(q) PROVE AlarmInv'
  BY <1>3, <1>t, IssueAlarm
<1>4. ASSUME NEW q \in Requests, Rotate(q) PROVE AlarmInv'
  BY <1>4, <1>t, RotateAlarm
<1>5. ASSUME NEW q \in Requests, Answer(q) PROVE AlarmInv'
  BY <1>5, <1>t, AnswerAlarm
<1>6. ASSUME NEW q \in Requests, Store(q) PROVE AlarmInv'
  <2>1. \A p \in Requests : Stays(p)
    BY <1>6, <1>t DEF Store, Stays, SessionTypes, Handlers
  <2>2. Calm(q)
    BY <1>6, <2>1 DEF Store, Calm
  <2> QED
    BY <1>t, <2>2, CalmAlarm
<1>7. ASSUME NEW q \in Requests, RevokeAll(q) PROVE AlarmInv'
  <2>1. \A p \in Requests : request'[p] = IF p = q THEN Waiting ELSE Overtook[p]
    BY <1>7 DEF RevokeAll, Overtook
  <2>2. \A p \in Requests \ {q} : Stays(p)
    BY <1>t, <2>1, OvertookStays
  <2>3. Ends(q)
    BY <1>7, <1>w, <2>1 DEF RevokeAll, Ends
  <2>4. token' = RevokedAll /\ cookie' = cookie /\ past'.disturbed = past.disturbed
    BY <1>7, <1>t DEF RevokeAll, SessionTypes
  <2>5. Calm(q)
    BY <1>t, <2>2, <2>3, <2>4, RevokedAllKeeps DEF Calm
  <2> QED
    BY <1>t, <2>5, CalmAlarm
<1>8. ASSUME NEW q \in Requests, Abort(q) PROVE AlarmInv'
  <2>1. \A p \in Requests : request'[p] = IF p = q THEN Waiting ELSE request[p]
    BY <1>8, <1>t DEF Abort, SessionTypes
  <2>2. UNCHANGED <<token, cookie>>
    BY <1>8 DEF Abort
  <2>3. /\ past.disturbed \subseteq past'.disturbed
        /\ request[q].pc = "answer" /\ request[q].op = "refresh" => request[q].client \in past'.disturbed
    BY <1>8, <1>t DEF Abort, SessionTypes
  <2>4. Ends(q)
    BY <1>w, <2>1, <2>3 DEF Ends
  <2>5. \A p \in Requests \ {q} : Stays(p)
    BY <2>1 DEF Stays
  <2>6. Calm(q)
    BY <2>2, <2>3, <2>4, <2>5 DEF Calm
  <2> QED
    BY <1>t, <2>6, CalmAlarm
<1>9. ASSUME NEW q \in Requests, NEW c \in Clients, Logout(q, c) PROVE AlarmInv'
  <2> DEFINE h == [Waiting EXCEPT !.pc = "answer", !.op = "logout", !.client = c]
  <2>1. h.client = c /\ h.new = 0 /\ h.tok = 0 /\ h.pc = "answer"
    BY DEF Waiting
  <2>2. Send(q, c, h) /\ cookie' = cookie
    BY <1>9 DEF Logout
  <2>3. \A t \in Tokens : token'[t].issued = token[t].issued /\ token'[t].rotated = token[t].rotated
    BY <1>9, <1>t DEF Logout, SessionTypes, TokenRows
  <2> HIDE DEF h
  <2> QED
    BY <1>t, <2>1, <2>2, <2>3, SendAlarm
<1>10. ASSUME NEW q \in Requests, NEW c \in Clients \cup {NoClient}, LogoutAll(q, c) PROVE AlarmInv'
  <2> DEFINE h == [Waiting EXCEPT !.pc = "answer", !.op = "logout", !.client = c]
  <2>1. h.client = c /\ h.new = 0 /\ h.tok = 0 /\ h.pc = "answer"
    BY DEF Waiting
  <2>2. \A p \in Requests : request'[p] = IF p = q /\ c # NoClient THEN h ELSE Overtook[p]
    BY <1>10 DEF LogoutAll, Overtook
  <2> HIDE DEF h
  <2>3. \A p \in Requests \ {q} : Stays(p)
    BY <1>t, <2>2, OvertookStays
  <2>4. /\ past.disturbed \subseteq past'.disturbed
        /\ c # NoClient /\ (\E o \in Requests : request[o].client = c) => c \in past'.disturbed
    BY <1>10 DEF LogoutAll
  <2>5. request[q].pc = "idle" /\ token' = RevokedAll /\ cookie' = cookie
    BY <1>10 DEF LogoutAll
  <2>6. CASE c = NoClient
    <3>1. Stays(q)
      BY <1>t, <2>2, <2>6, OvertookStays
    <3>2. Calm(q)
      BY <1>t, <2>3, <2>4, <2>5, <3>1, RevokedAllKeeps DEF Calm
    <3> QED
      BY <1>t, <3>2, CalmAlarm
  <2>7. CASE c \in Clients
    <3>1. Begins(q, c)
      BY <2>1, <2>2, <2>4, <2>5, <2>7, SessionConstants DEF Begins
    <3>2. Calm(q)
      BY <1>t, <2>3, <2>4, <2>5, <2>7, <3>1, RevokedAllKeeps DEF Calm
    <3> QED
      BY <1>t, <3>2, CalmAlarm
  <2> QED
    BY <2>6, <2>7
<1>11. ASSUME NEW q \in Requests, NEW m \in 1..MaxMails, ResetPassword(q, m) PROVE AlarmInv'
  <2> DEFINE h == [Waiting EXCEPT !.pc = "store", !.op = "password", !.mail = m]
  <2>1. h.client = NoClient /\ h.new = 0 /\ h.tok = 0 /\ h.pc = "store"
    BY DEF Waiting
  <2>2. Send(q, NoClient, h) /\ UNCHANGED <<token, cookie>>
    BY <1>11 DEF ResetPassword
  <2> HIDE DEF h
  <2> QED
    BY <1>t, <2>1, <2>2, SendAlarm
<1>12. ASSUME NEW q \in Requests, ChangePassword(q) \/ Suspend(q) PROVE AlarmInv'
  <2> PICK op \in {"password", "suspend"} :
             Send(q, NoClient, [Waiting EXCEPT !.pc = "store", !.op = op])
    BY <1>12 DEF ChangePassword, Suspend
  <2> DEFINE h == [Waiting EXCEPT !.pc = "store", !.op = op]
  <2>1. h.client = NoClient /\ h.new = 0 /\ h.tok = 0 /\ h.pc = "store"
    BY DEF Waiting
  <2>2. Send(q, NoClient, h) /\ UNCHANGED <<token, cookie>>
    BY <1>12 DEF ChangePassword, Suspend
  <2> HIDE DEF h
  <2> QED
    BY <1>t, <2>1, <2>2, SendAlarm
<1>13. CASE UNCHANGED <<token, cookie, request, past>>
  BY <1>13, <1>t DEF AlarmInv, OneHolder, Holds, RequestsOfClients, Overlaps, RotatedExplained,
                    Expects, AlarmExplained
<1> QED
  BY <1>1, <1>2, <1>3, <1>4, <1>5, <1>6, <1>7, <1>8, <1>9, <1>10, <1>11, <1>12, <1>13
     DEF SessionNext, SessionStep, ForgotPassword, Readmit

\* auth.service.ts:326: for any number of clients, requests, tokens, links and failures, a
\* client that presents a token it has exchanged overlapped with itself or lost an answer.
THEOREM AlarmsAreExplained == SessionSpec => []AlarmExplained
<1>1. AlarmInv /\ [SessionNext]_sessionVars => AlarmInv'
  <2> SUFFICES ASSUME AlarmInv, [SessionNext]_sessionVars PROVE AlarmInv'
    OBVIOUS
  <2>1. CASE SessionNext
    BY <2>1, AlarmStep
  <2>2. CASE UNCHANGED sessionVars
    BY <2>2 DEF AlarmInv, SessionTypes, OneHolder, Holds, RequestsOfClients, Overlaps,
                RotatedExplained, Expects, AlarmExplained, sessionVars
  <2> QED
    BY <2>1, <2>2
<1>2. AlarmInv => AlarmExplained
  BY DEF AlarmInv
<1> QED
  BY <1>1, <1>2, InitAlarm, PTL DEF SessionSpec
=============================================================================
