-------------------------------- MODULE Reports --------------------------------
(***************************************************************************)
(* The daily report of one user: the hourly tick, the row that claims a    *)
(* day, the e-mail and its delivery (ReportDispatchService, EmailService,  *)
(* EmailDeliveryProcessor).  A weekly report differs in the length of its  *)
(* period.  Rendering and analytics are left out.  So are the cache of the *)
(* e-mail settings, and suspensions and memberships of the user: each      *)
(* reading of them finds any value.                                        *)
(***************************************************************************)
EXTENDS Integers, FiniteSets

CONSTANTS
    Tickers, Mailers,     \* the workers of the two queues
    Hours, HoursPerDay,   \* bounds: the hours of the run, and of a day
    SendAttempts,         \* attempts of the e-mail queue's jobs
    MaxReportFaults       \* bound: exceptions, deaths, stalls and lost answers

ASSUME ReportConstants ==
    /\ Hours \in Nat \ {0} /\ HoursPerDay \in Nat \ {0}
    /\ SendAttempts \in Nat \ {0} /\ MaxReportFaults \in Nat
    /\ IsFiniteSet(Mailers)

Reported == 0 .. (Hours - 1) \div HoursPerDay    \* days, each with the report of the day before it
Off == -1                       \* emailReportsEnabled is false

VARIABLES
    hour,          \* hours since the run began
    reportHour,    \* the preference: an hour of the day, or Off
    nextTick,      \* when the scheduler's next job is due
    stalledTicks,  \* tick jobs given back to the queue
    ticker,        \* a worker's next await, and the hour it took for now
    claimed,       \* EmailReportRun rows
    linked,        \* those whose emailLogId is set
    unreached,     \* history: days whose tick found no active user, or no workspace
    cut,           \* history: days whose tick failed after its claim
    log,           \* EmailLog.status of a day's report
    mailJob,       \* the job of a day's e-mail
    mailTries,     \* its failed attempts
    mailer,        \* a worker's next await, the day, the attempts made and the answer
    sent,          \* e-mails the provider accepted
    repeatable,    \* history: attempts after which the job may send what was accepted
    abandoned,     \* history: days whose claim or e-mail was dropped on the way
    reportFaults

runVars == <<linked, unreached, cut>>
tickVars == <<hour, reportHour, nextTick, stalledTicks, ticker, claimed, runVars>>
mailVars == <<mailTries, mailer, sent, repeatable>>
reportVars == <<tickVars, log, mailJob, mailVars, abandoned, reportFaults>>

Resting == [pc |-> "idle", now |-> 0]
NoMail == [pc |-> "idle", day |-> 0, made |-> 0, answer |-> "none"]

ReportInit ==
    /\ hour = 0 /\ reportHour = Off
    /\ nextTick = 0 /\ stalledTicks = 0 /\ ticker = [w \in Tickers |-> Resting]
    /\ claimed = {} /\ linked = {} /\ unreached = {} /\ cut = {}
    /\ log = [d \in Reported |-> "none"]
    /\ mailJob = [d \in Reported |-> "none"] /\ mailTries = [d \in Reported |-> 0]
    /\ mailer = [m \in Mailers |-> NoMail]
    /\ sent = [d \in Reported |-> 0] /\ repeatable = [d \in Reported |-> 0]
    /\ abandoned = {} /\ reportFaults = 0

DayOf(now) == now \div HoursPerDay
ReportFault == reportFaults < MaxReportFaults /\ reportFaults' = reportFaults + 1

-----------------------------------------------------------------------------
HourPasses ==
    /\ hour + 1 < Hours
    /\ hour' = hour + 1
    /\ UNCHANGED <<reportHour, nextTick, stalledTicks, ticker, claimed, runVars,
                   log, mailJob, mailVars, abandoned, reportFaults>>

\* update
SetPreference(h) ==
    /\ h # reportHour
    /\ reportHour' = h
    /\ UNCHANGED <<hour, nextTick, stalledTicks, ticker, claimed, runVars,
                   log, mailJob, mailVars, abandoned, reportFaults>>

\* A tick runs when a worker has time for it.  The scheduler then makes the next.
StartTick(w) ==
    /\ ticker[w].pc = "idle"
    /\ \/ nextTick <= hour /\ nextTick' = hour + 1 /\ UNCHANGED stalledTicks
       \/ stalledTicks > 0 /\ stalledTicks' = stalledTicks - 1 /\ UNCHANGED nextTick
    /\ ticker' = [ticker EXCEPT ![w] = [pc |-> "find", now |-> hour]]
    /\ UNCHANGED <<hour, reportHour, claimed, runVars,
                   log, mailJob, mailVars, abandoned, reportFaults>>

\* Only who wants a report at the hour taken for now is eligible.
FindEligible(w) ==
    /\ ticker[w].pc = "find"
    /\ ticker' = [ticker EXCEPT ![w] =
                    IF reportHour = @.now % HoursPerDay THEN [@ EXCEPT !.pc = "claim"] ELSE Resting]
    /\ UNCHANGED <<hour, reportHour, nextTick, stalledTicks, claimed, runVars,
                   log, mailJob, mailVars, abandoned, reportFaults>>

\* Mutant: the day is not unique, and every tick sends its report.
ClaimAgain(w) ==
    /\ ticker[w].pc = "claim"
    /\ claimed' = claimed \cup {DayOf(ticker[w].now)}
    /\ ticker' = [ticker EXCEPT ![w].pc = "recipient"]
    /\ UNCHANGED <<hour, reportHour, nextTick, stalledTicks, runVars,
                   log, mailJob, mailVars, abandoned, reportFaults>>

\* emailReportRun.create: a unique violation means that the day was dispatched.
Claim(w) ==
    LET day == DayOf(ticker[w].now) IN
    /\ ticker[w].pc = "claim"
    /\ claimed' = claimed \cup {day}
    /\ ticker' = [ticker EXCEPT ![w] = IF day \in claimed THEN Resting ELSE [@ EXCEPT !.pc = "recipient"]]
    /\ UNCHANGED <<hour, reportHour, nextTick, stalledTicks, runVars,
                   log, mailJob, mailVars, abandoned, reportFaults>>

\* dispatchForUser returns, with the day claimed, when the user is not active or has no
\* workspace any more.
FindRecipient(w, found) ==
    /\ ticker[w].pc = "recipient"
    /\ ticker' = [ticker EXCEPT ![w] = IF found THEN [@ EXCEPT !.pc = "queue"] ELSE Resting]
    /\ unreached' = IF found THEN unreached ELSE unreached \cup {DayOf(ticker[w].now)}
    /\ UNCHANGED <<hour, reportHour, nextTick, stalledTicks, claimed, linked, cut,
                   log, mailJob, mailVars, abandoned, reportFaults>>

\* queueEmail: a row that says SKIPPED, or a row and a job that Redis may refuse.
QueueEmail(w, enabled, accepted) ==
    LET day == DayOf(ticker[w].now) IN
    /\ ticker[w].pc = "queue"
    /\ log' = [log EXCEPT ![day] = IF enabled THEN "QUEUED" ELSE "SKIPPED"]
    /\ mailJob' = IF enabled /\ accepted THEN [mailJob EXCEPT ![day] = "waiting"] ELSE mailJob
    /\ abandoned' = IF enabled /\ ~accepted THEN abandoned \cup {day} ELSE abandoned
    /\ ticker' = [ticker EXCEPT ![w].pc = "link"]
    /\ UNCHANGED <<hour, reportHour, nextTick, stalledTicks, claimed, runVars,
                   mailVars, reportFaults>>

\* emailReportRun.update: the run's row names the e-mail's.
LinkLog(w) ==
    /\ ticker[w].pc = "link"
    /\ linked' = linked \cup {DayOf(ticker[w].now)}
    /\ ticker' = [ticker EXCEPT ![w] = Resting]
    /\ UNCHANGED <<hour, reportHour, nextTick, stalledTicks, claimed, unreached, cut,
                   log, mailJob, mailVars, abandoned, reportFaults>>

\* An await of dispatchForUser or runTick throws, or queueEmail swallows that and returns
\* null, with nothing to name: the user's dispatch is over and is not run again.
\* A worker that dies or stalls has its tick run again, at another hour perhaps.
TickFails(w, how) ==
    LET of(labels) == IF how # "stalls" /\ ticker[w].pc \in labels
                      THEN {DayOf(ticker[w].now)} ELSE {} IN
    /\ ticker[w].pc # "idle" /\ ReportFault
    /\ ticker' = IF how = "stalls" THEN ticker ELSE [ticker EXCEPT ![w] = Resting]
    /\ stalledTicks' = IF how = "throws" THEN stalledTicks ELSE stalledTicks + 1
    /\ abandoned' = abandoned \cup of({"recipient", "queue"})
    /\ cut' = cut \cup of({"recipient", "queue", "link"})
    /\ UNCHANGED <<hour, reportHour, nextTick, claimed, linked, unreached,
                   log, mailJob, mailVars>>

-----------------------------------------------------------------------------
\* The row is marked SENDING, whatever its status is.
StartMail(m, day) ==
    /\ mailer[m].pc = "idle" /\ mailJob[day] = "waiting"
    /\ mailJob' = [mailJob EXCEPT ![day] = "active"]
    /\ mailer' = [mailer EXCEPT ![m] = [NoMail EXCEPT !.pc = "send", !.day = day, !.made = mailTries[day]]]
    /\ log' = [log EXCEPT ![day] = "SENDING"]
    /\ UNCHANGED <<tickVars, mailTries, sent, repeatable, abandoned, reportFaults>>

\* The provider accepts the e-mail, refuses it for now or for good (as the one that stands
\* for disabled e-mail does), or accepts it and is not heard in time.
SendMail(m, answer) ==
    LET day == mailer[m].day IN
    /\ mailer[m].pc = "send"
    /\ IF answer = "unheard" THEN ReportFault ELSE UNCHANGED reportFaults
    /\ mailer' = [mailer EXCEPT ![m].pc = "record", ![m].answer = answer]
    /\ sent' = IF answer \in {"accepted", "unheard"} THEN [sent EXCEPT ![day] = @ + 1] ELSE sent
    /\ repeatable' = IF answer = "unheard" THEN [repeatable EXCEPT ![day] = @ + 1] ELSE repeatable
    /\ UNCHANGED <<tickVars, log, mailJob, mailTries, abandoned>>

\* A failed attempt goes back to the queue if there is one left, unless the queue has given
\* the job to somebody else.
GiveBack(day) ==
    IF mailJob[day] # "active" THEN UNCHANGED <<mailJob, mailTries, abandoned>>
    ELSE LET left == mailTries[day] + 1 < SendAttempts IN
         /\ mailTries' = [mailTries EXCEPT ![day] = @ + 1]
         /\ mailJob' = [mailJob EXCEPT ![day] = IF left THEN "waiting" ELSE "failed"]
         /\ abandoned' = IF left THEN abandoned ELSE abandoned \cup {day}

RecordOutcome(m) ==
    LET day == mailer[m].day
        terminal == mailer[m].answer = "rejected" \/ mailer[m].made + 1 >= SendAttempts IN
    /\ mailer[m].pc = "record"
    /\ \/ /\ mailer[m].answer = "accepted" \/ terminal
          /\ log' = [log EXCEPT ![day] = IF mailer[m].answer = "accepted" THEN "SENT" ELSE "FAILED"]
          /\ mailer' = [mailer EXCEPT ![m].pc = "note"]
          /\ UNCHANGED <<mailJob, mailTries, abandoned>>
       \/ /\ mailer[m].answer # "accepted" /\ ~terminal
          /\ log' = [log EXCEPT ![day] = "QUEUED"]
          /\ mailer' = [mailer EXCEPT ![m] = NoMail]
          /\ GiveBack(day)
    /\ UNCHANGED <<tickVars, sent, repeatable, reportFaults>>

\* recordSuccessfulSend, recordFailedSend
NoteOutcome(m) ==
    LET day == mailer[m].day IN
    /\ mailer[m].pc = "note"
    /\ mailer' = [mailer EXCEPT ![m] = NoMail]
    /\ mailJob' = IF mailJob[day] = "active" THEN [mailJob EXCEPT ![day] = "done"] ELSE mailJob
    /\ UNCHANGED <<tickVars, log, mailTries, sent, repeatable, abandoned, reportFaults>>

Repeats(day, accepted) == repeatable' = IF accepted THEN [repeatable EXCEPT ![day] = @ + 1] ELSE repeatable

MailThrows(m) ==
    /\ mailer[m].pc # "idle" /\ ReportFault
    /\ mailer' = [mailer EXCEPT ![m] = NoMail]
    /\ GiveBack(mailer[m].day)
    /\ Repeats(mailer[m].day, mailer[m].answer = "accepted")
    /\ UNCHANGED <<tickVars, log, sent>>

\* The job of a worker that died, or only seems dead, is given out again.
MailStalls(m, dead) ==
    LET day == mailer[m].day IN
    /\ mailer[m].pc # "idle" /\ mailJob[day] = "active" /\ ReportFault
    /\ mailJob' = [mailJob EXCEPT ![day] = "waiting"]
    /\ mailer' = IF dead THEN [mailer EXCEPT ![m] = NoMail] ELSE mailer
    /\ Repeats(day, ~dead \/ mailer[m].answer = "accepted")
    /\ UNCHANGED <<tickVars, log, mailTries, sent, abandoned>>

ReportNext ==
    \/ HourPasses
    \/ \E h \in {Off} \cup (0 .. HoursPerDay - 1) : SetPreference(h)
    \/ \E w \in Tickers :
         \/ StartTick(w)
         \/ FindEligible(w)
         \/ Claim(w)
         \/ \E found \in BOOLEAN : FindRecipient(w, found)
         \/ LinkLog(w)
         \/ \E enabled, accepted \in BOOLEAN : QueueEmail(w, enabled, accepted)
         \/ \E how \in {"throws", "dies", "stalls"} : TickFails(w, how)
    \/ \E m \in Mailers :
         \/ \E day \in Reported : StartMail(m, day)
         \/ \E answer \in {"accepted", "refused", "rejected", "unheard"} : SendMail(m, answer)
         \/ RecordOutcome(m)
         \/ NoteOutcome(m)
         \/ MailThrows(m)
         \/ \E dead \in BOOLEAN : MailStalls(m, dead)

ReportSpec == ReportInit /\ [][ReportNext]_reportVars

-----------------------------------------------------------------------------
Dispatching(w) == ticker[w].pc \in {"recipient", "queue"}
UnderWay(day) ==
    \/ \E w \in Tickers : (Dispatching(w) \/ ticker[w].pc = "link") /\ DayOf(ticker[w].now) = day
    \/ mailJob[day] \in {"waiting", "active"}
    \/ \E m \in Mailers : mailer[m].pc # "idle" /\ mailer[m].day = day

\* report-dispatch.service.ts:36-39 and EmailLog: ticks that are late, repeated or
\* concurrent and preferences that change claim a day once, and its report is sent once,
\* for an attempt more only if the job was run again after the provider may have accepted
\* it.  But for those, the row tells what became of it.  When nobody works on a day that
\* was claimed, either its tick found no active user or no workspace, and it has no row and
\* will never have one; or it was sent, refused or skipped, or dropped by a fault; and its
\* run names its row unless the tick failed.
ReportSentOnce ==
    \A day \in Reported :
        /\ sent[day] <= 1 + repeatable[day]
        /\ sent[day] > 0 \/ log[day] # "none" => day \in claimed
        /\ log[day] = "SENT" => sent[day] > 0
        /\ log[day] \in {"FAILED", "SKIPPED"} => sent[day] = 0 \/ repeatable[day] > 0
        /\ day \in unreached => day \in claimed /\ log[day] = "none" /\ ~UnderWay(day)
        /\ day \in linked => log[day] # "none"
        /\ day \in claimed \ unreached /\ ~UnderWay(day) =>
             /\ log[day] \in {"SENT", "FAILED", "SKIPPED"} \/ day \in abandoned \/ repeatable[day] > 0
             /\ day \in linked \/ day \in cut
=============================================================================
