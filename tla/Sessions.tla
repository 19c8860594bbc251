-------------------------------- MODULE Sessions --------------------------------
(***************************************************************************)
(* The sessions of one user (AuthService, UsersService.changePassword,     *)
(* AdminUsersService): login, the rotation of refresh tokens, logout, and  *)
(* what ends every session: a password reset or change, a suspension,      *)
(* logout of all devices, and a revoked token that is presented again.     *)
(*                                                                         *)
(* A client is a browser with its cookie jar; its tabs send requests side  *)
(* by side.  Nobody else has a copy of a token.  Access tokens, the        *)
(* expiry of tokens and hashing are left out; a password is the number of  *)
(* times it was changed.                                                   *)
(***************************************************************************)
EXTENDS Integers

CONSTANTS
    Clients, Requests, NoClient,
    MaxTokens, MaxMails, MaxInputs     \* bounds: tokens, reset links, requests and failures

ASSUME SessionConstants ==
    /\ NoClient \notin Clients
    /\ MaxTokens \in Nat \ {0} /\ MaxMails \in Nat /\ MaxInputs \in Nat

VARIABLES
    account,   \* password and isActive of the User row
    token,     \* RefreshToken rows
    cookie,    \* the token a client holds, 0 if none
    mail,      \* PasswordResetToken rows; each is mailed to the user
    request,   \* requests: the next await and the values held across it
    past,      \* interrupted: a handler stopped between new password or suspension and the
               \* revocation it owes; disturbed: clients whose requests overlapped or
               \* whose answer was lost
    inputs     \* requests and failures so far

sessionVars == <<account, token, cookie, mail, request, past, inputs>>

Tokens == 1..MaxTokens
Unissued == [issued |-> FALSE, revoked |-> FALSE, rotated |-> FALSE, root |-> 0, late |-> FALSE]

\* root: the password its login was made with; late: a request that all sessions were
\* revoked under issued it, or the token it comes from by rotation.
Live(t) == token[t].issued /\ ~token[t].revoked
Fresh == CHOOSE t \in Tokens : ~token[t].issued

Waiting == [pc |-> "idle", op |-> "", client |-> NoClient, tok |-> 0, new |-> 0,
            mail |-> 0, root |-> 0, late |-> FALSE]

-----------------------------------------------------------------------------
\* The user has registered and is logged in somewhere.
SessionInit ==
    /\ account = [pw |-> 0, active |-> TRUE]
    /\ token = [t \in Tokens |-> IF t = 1 THEN [Unissued EXCEPT !.issued = TRUE] ELSE Unissued]
    /\ \E c \in Clients : cookie = [d \in Clients |-> IF d = c THEN 1 ELSE 0]
    /\ mail = [m \in 1..MaxMails |-> "none"]
    /\ request = [q \in Requests |-> Waiting]
    /\ past = [interrupted |-> FALSE, disturbed |-> {}]
    /\ inputs = 0

\* A request of client c begins and holds what r says.
Send(q, c, r) ==
    /\ request[q].pc = "idle" /\ inputs < MaxInputs
    /\ inputs' = inputs + 1
    /\ request' = [request EXCEPT ![q] = r]
    /\ past' = IF c # NoClient /\ \E p \in Requests : request[p].client = c
               THEN [past EXCEPT !.disturbed = @ \cup {c}]
               ELSE past

-----------------------------------------------------------------------------
(***************************************************************************)
(* Sessions begin, go on and end.                                          *)
(***************************************************************************)
Login(q, c) ==
    /\ account.active
    /\ Send(q, c, [Waiting EXCEPT !.pc = "issue", !.op = "login", !.client = c, !.root = account.pw])
    /\ UNCHANGED <<account, token, cookie, mail>>

Refresh(q, c) ==
    LET t == cookie[c]
        r == [Waiting EXCEPT !.op = "refresh", !.client = c, !.tok = t] IN
    /\ t # 0
    /\ token[t].revoked \/ account.active
    /\ Send(q, c, IF token[t].revoked
                  THEN [r EXCEPT !.pc = "alarm"]
                  ELSE [r EXCEPT !.pc = "issue", !.root = token[t].root, !.late = token[t].late])
    /\ UNCHANGED <<account, token, cookie, mail>>

\* issueSession
Issue(q) ==
    LET r == request[q] IN
    /\ r.pc = "issue" /\ \E t \in Tokens : ~token[t].issued
    /\ token' = [token EXCEPT ![Fresh] =
                   [Unissued EXCEPT !.issued = TRUE, !.root = r.root, !.late = r.late]]
    /\ request' = [request EXCEPT ![q].pc = IF r.op = "refresh" THEN "rotate" ELSE "answer",
                                  ![q].new = Fresh]
    /\ UNCHANGED <<account, cookie, mail, past, inputs>>

\* The token presented is revoked and replacedBy the new one.
Rotate(q) ==
    /\ request[q].pc = "rotate"
    /\ token' = [token EXCEPT ![request[q].tok].revoked = TRUE, ![request[q].tok].rotated = TRUE]
    /\ request' = [request EXCEPT ![q].pc = "answer"]
    /\ UNCHANGED <<account, cookie, mail, past, inputs>>

\* Mutant: only a login's answer sets the cookie.
AnswerOnLogin(q) ==
    LET r == request[q] IN
    /\ r.pc = "answer"
    /\ cookie' = IF r.op = "refresh" THEN cookie ELSE [cookie EXCEPT ![r.client] = r.new]
    /\ request' = [request EXCEPT ![q] = Waiting]
    /\ UNCHANGED <<account, token, mail, past, inputs>>

\* setRefreshCookie and clearRefreshCookie
Answer(q) ==
    LET r == request[q] IN
    /\ r.pc = "answer"
    /\ cookie' = [cookie EXCEPT ![r.client] = r.new]
    /\ request' = [request EXCEPT ![q] = Waiting]
    /\ UNCHANGED <<account, token, mail, past, inputs>>

Logout(q, c) ==
    /\ Send(q, c, [Waiting EXCEPT !.pc = "answer", !.op = "logout", !.client = c])
    /\ token' = IF cookie[c] = 0 THEN token ELSE [token EXCEPT ![cookie[c]].revoked = TRUE]
    /\ UNCHANGED <<account, cookie, mail>>

-----------------------------------------------------------------------------
(***************************************************************************)
(* What ends every session of the user.                                    *)
(***************************************************************************)
RevokedAll == [t \in Tokens |-> [token[t] EXCEPT !.revoked = token[t].issued]]

\* The requests under way, of which some will issue a token that this leaves alone.
Overtook == [p \in Requests |-> [request[p] EXCEPT !.late = @ \/ request[p].pc = "issue"]]

\* revokeAllSessions, in a request that owes it
RevokeAll(q) ==
    /\ request[q].pc \in {"alarm", "revokeAll"}
    /\ token' = RevokedAll
    /\ request' = [Overtook EXCEPT ![q] = Waiting]
    /\ past' = [past EXCEPT !.interrupted = FALSE]
    /\ UNCHANGED <<account, cookie, mail, inputs>>

\* logoutAll, which any session may ask for, and forceLogout, by an administrator
LogoutAll(q, c) ==
    /\ request[q].pc = "idle" /\ inputs < MaxInputs
    /\ c # NoClient => account.active
    /\ inputs' = inputs + 1
    /\ token' = RevokedAll
    /\ request' = IF c = NoClient THEN Overtook
                  ELSE [Overtook EXCEPT ![q] = [Waiting EXCEPT !.pc = "answer", !.op = "logout", !.client = c]]
    /\ past' = [interrupted |-> FALSE,
                disturbed |-> IF c # NoClient /\ \E p \in Requests : request[p].client = c
                              THEN past.disturbed \cup {c} ELSE past.disturbed]
    /\ UNCHANGED <<account, cookie, mail>>

ForgotPassword(m) ==
    /\ account.active /\ mail[m] = "none" /\ inputs < MaxInputs
    /\ inputs' = inputs + 1
    /\ mail' = [mail EXCEPT ![m] = "sent"]
    /\ UNCHANGED <<account, token, cookie, request, past>>

\* The link is read and the password hashed.
ResetPassword(q, m) ==
    /\ mail[m] = "sent"
    /\ Send(q, NoClient, [Waiting EXCEPT !.pc = "store", !.op = "password", !.mail = m])
    /\ UNCHANGED <<account, token, cookie, mail>>

\* changePassword: the current password is compared and the new one hashed.
ChangePassword(q) ==
    /\ account.active
    /\ Send(q, NoClient, [Waiting EXCEPT !.pc = "store", !.op = "password"])
    /\ UNCHANGED <<account, token, cookie, mail>>

\* Mutant: the sessions are left alone.
StoreOnly(q) ==
    LET r == request[q] IN
    /\ r.pc = "store"
    /\ account' = IF r.op = "suspend" THEN [account EXCEPT !.active = FALSE]
                                      ELSE [account EXCEPT !.pw = @ + 1]
    /\ request' = [request EXCEPT ![q] = Waiting]
    /\ UNCHANGED <<token, cookie, mail, past, inputs>>

\* The user's row, and in one transaction with it the link that was used.
Store(q) ==
    LET r == request[q] IN
    /\ r.pc = "store"
    /\ account' = IF r.op = "suspend" THEN [account EXCEPT !.active = FALSE]
                                      ELSE [account EXCEPT !.pw = @ + 1]
    /\ mail' = IF r.mail = 0 THEN mail ELSE [mail EXCEPT ![r.mail] = "used"]
    /\ request' = [request EXCEPT ![q].pc = "revokeAll"]
    /\ UNCHANGED <<token, cookie, past, inputs>>

\* suspend, by an administrator
Suspend(q) ==
    /\ Send(q, NoClient, [Waiting EXCEPT !.pc = "store", !.op = "suspend"])
    /\ UNCHANGED <<account, token, cookie, mail>>

\* reactivate
Readmit ==
    /\ ~account.active /\ inputs < MaxInputs
    /\ inputs' = inputs + 1
    /\ account' = [account EXCEPT !.active = TRUE]
    /\ UNCHANGED <<token, cookie, mail, request, past>>

\* The process dies, a database call throws, or the answer does not arrive.
Abort(q) ==
    LET r == request[q] IN
    /\ r.pc # "idle" /\ inputs < MaxInputs
    /\ inputs' = inputs + 1
    /\ request' = [request EXCEPT ![q] = Waiting]
    /\ past' = [interrupted |-> past.interrupted \/ r.pc = "revokeAll",
                disturbed |-> IF r.pc = "answer" /\ r.op = "refresh"
                              THEN past.disturbed \cup {r.client} ELSE past.disturbed]
    /\ UNCHANGED <<account, token, cookie, mail>>

-----------------------------------------------------------------------------
SessionStep(q) ==
    \/ Issue(q)
    \/ Rotate(q)
    \/ Answer(q)
    \/ Store(q)
    \/ RevokeAll(q)
    \/ Abort(q)

SessionNext ==
    \/ \E q \in Requests :
         \/ \E c \in Clients : Login(q, c) \/ Refresh(q, c) \/ Logout(q, c)
         \/ \E c \in Clients \cup {NoClient} : LogoutAll(q, c)
         \/ \E m \in 1..MaxMails : ResetPassword(q, m)
         \/ ChangePassword(q)
         \/ Suspend(q)
         \/ SessionStep(q)
    \/ \E m \in 1..MaxMails : ForgotPassword(m)
    \/ Readmit

SessionSpec == SessionInit /\ [][SessionNext]_sessionVars

-----------------------------------------------------------------------------
\* auth.service.ts:511: no session from before the last password, or of a suspended user,
\* goes on, except while its revocation is still to come or a failure has prevented it, or
\* when the request that issued it was under way during the revocation (or a token it
\* comes from was issued so: rotation keeps such a session alive).
OldSessionsEnd ==
    \A t \in Tokens :
        Live(t) /\ (token[t].root < account.pw \/ ~account.active)
        => \/ token[t].late
           \/ past.interrupted
           \/ \E q \in Requests : request[q].pc = "revokeAll"

\* auth.service.ts:326 ("legitimate clients always use their latest token"): a client
\* presents a token it has exchanged only if its requests overlapped or an answer was lost;
\* any other alarm is for a token that was revoked and never replaced.
AlarmExplained ==
    \A q \in Requests :
        request[q].pc = "alarm" /\ token[request[q].tok].rotated
        => request[q].client \in past.disturbed
=============================================================================
