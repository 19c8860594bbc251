---------------------------- MODULE ReportsProofs ----------------------------
(***************************************************************************)
(* ReportSentOnce for any number of workers, hours, attempts and faults.   *)
(* Every part of the invariant is about one day, since a step of a worker  *)
(* is about one day (DayOK).                                               *)
(***************************************************************************)
EXTENDS Reports, FiniteSetTheorems, TLAPS

Jobs == {"none", "waiting", "active", "done", "failed"}
Logs == {"none", "QUEUED", "SKIPPED", "SENDING", "SENT", "FAILED"}
Answers == {"none", "accepted", "refused", "rejected", "unheard"}
Ticks == [pc : {"idle", "find", "claim", "recipient", "queue", "link"}, now : Nat]
Mails == [pc : {"idle", "send", "record", "note"}, day : Nat, made : Nat, answer : Answers]

ReportTypes ==
    /\ hour \in Nat /\ ticker \in [Tickers -> Ticks]
    /\ log \in [Reported -> Logs]
    /\ mailJob \in [Reported -> Jobs] /\ mailTries \in [Reported -> Nat]
    /\ mailer \in [Mailers -> Mails]
    /\ \A m \in Mailers : mailer[m].pc # "idle" => mailer[m].day \in Reported
    /\ sent \in [Reported -> Nat] /\ repeatable \in [Reported -> Nat]

\* The ticks that have claimed a day and not queued its e-mail, the workers on the e-mail,
\* and those of them that have not been told that it was accepted.
Claiming(d) == {w \in Tickers : Dispatching(w) /\ DayOf(ticker[w].now) = d}
Linking(d) == {w \in Tickers : ticker[w].pc = "link" /\ DayOf(ticker[w].now) = d}
Busy(d) == {m \in Mailers : mailer[m].pc # "idle" /\ mailer[m].day = d}
Unheard(d) == {m \in Busy(d) : mailer[m].answer # "accepted"}
Waits(d) == IF mailJob[d] = "waiting" THEN 1 ELSE 0

\* The e-mails sent, and those a job or a worker may still send.
FewSent(d) == sent[d] + Waits(d) + Cardinality(Unheard(d)) <= 1 + repeatable[d]

ClaimedOnce(d) ==
    /\ Claiming(d) # {} => d \in claimed /\ mailJob[d] = "none" /\ log[d] = "none"
    /\ \A v, w \in Claiming(d) : v = w
    /\ log[d] # "none" \/ mailJob[d] # "none" => d \in claimed
    /\ d \in claimed /\ mailJob[d] = "none" =>
         Claiming(d) # {} \/ log[d] = "SKIPPED" \/ d \in abandoned \/ d \in unreached
    /\ d \in unreached => d \in claimed /\ mailJob[d] = "none" /\ log[d] = "none" /\ Claiming(d) = {}
    /\ mailJob[d] = "none" => sent[d] = 0 /\ Busy(d) = {} /\ log[d] \in {"none", "SKIPPED", "QUEUED"}
    /\ log[d] = "SKIPPED" => mailJob[d] = "none"
    /\ mailJob[d] = "failed" => d \in abandoned

AnswersKept(d) ==
    /\ \A m \in Busy(d) : /\ mailer[m].pc = "send" => mailer[m].answer # "accepted"
                          /\ mailer[m].answer = "accepted" => sent[d] > 0
    /\ log[d] = "SENT" => sent[d] > 0

\* As long as the job was not given out twice, one worker is on it, and the row is true.
OneAtATime(d) ==
    repeatable[d] = 0 =>
        /\ \A m, n \in Busy(d) : m = n
        /\ \A m \in Busy(d) : mailer[m].pc = "note" => log[d] \in {"SENT", "FAILED"}
        /\ log[d] = "FAILED" => sent[d] = 0 /\ \A m \in Busy(d) : mailer[m].pc = "note"
        /\ mailJob[d] = "done" => log[d] \in {"SENT", "FAILED"} /\ Busy(d) = {}

\* A run names the day's row once that exists, unless its tick failed or returned.
LinkedOnce(d) ==
    /\ d \in linked \/ Linking(d) # {} => log[d] # "none"
    /\ d \in claimed => Claiming(d) # {} \/ Linking(d) # {} \/ d \in linked \cup cut \cup unreached

DayOK(d) == FewSent(d) /\ ClaimedOnce(d) /\ AnswersKept(d) /\ OneAtATime(d)
ReportInv == ReportTypes /\ \A d \in Reported : DayOK(d)
LinksInv == \A d \in Reported : LinkedOnce(d)

-----------------------------------------------------------------------------
\* Sets of workers have a number of members, and one fewer without one of them.
LEMMA Counting ==
    ASSUME NEW S \in SUBSET Mailers
    PROVE  /\ IsFiniteSet(S) /\ Cardinality(S) \in Nat
           /\ S = {} => Cardinality(S) = 0
           /\ \A m \in S : Cardinality(S \ {m}) = Cardinality(S) - 1 /\ Cardinality(S) > 0
           /\ \A m \in Mailers \ S : Cardinality(S \cup {m}) = Cardinality(S) + 1
<1>1. IsFiniteSet(S)
  BY ReportConstants, FS_Subset
<1>2. Cardinality(S) \in Nat /\ (S = {} => Cardinality(S) = 0)
  BY <1>1, FS_CardinalityType, FS_EmptySet
<1>3. ASSUME NEW m \in S PROVE Cardinality(S \ {m}) = Cardinality(S) - 1 /\ Cardinality(S) > 0
  <2>1. Cardinality(S \ {m}) = Cardinality(S) - 1 /\ IsFiniteSet(S \ {m})
    BY <1>1, FS_RemoveElement
  <2>2. Cardinality(S \ {m}) \in Nat
    BY <2>1, FS_CardinalityType
  <2> QED
    BY <1>2, <2>1, <2>2
<1>4. ASSUME NEW m \in Mailers \ S PROVE Cardinality(S \cup {m}) = Cardinality(S) + 1
  BY <1>1, FS_AddElement
<1> QED
  BY <1>1, <1>2, <1>3, <1>4

LEMMA UnheardAreMailers == \A d : Unheard(d) \in SUBSET Mailers /\ Busy(d) \in SUBSET Mailers
BY DEF Unheard, Busy

LEMMA InitReport == ReportInit => ReportInv
<1> SUFFICES ASSUME ReportInit PROVE ReportInv
  OBVIOUS
<1>1. ReportTypes
  BY DEF ReportInit, ReportTypes, Resting, NoMail, Ticks, Mails, Answers, Jobs, Logs
<1>2. \A d : Claiming(d) = {} /\ Busy(d) = {} /\ Unheard(d) = {}
  BY DEF ReportInit, Claiming, Dispatching, Busy, Unheard, Resting, NoMail
<1>3. Cardinality({}) = 0
  BY FS_EmptySet
<1> SUFFICES ASSUME NEW d \in Reported PROVE DayOK(d)
  BY <1>1 DEF ReportInv
<1>4. FewSent(d)
  BY <1>2, <1>3 DEF ReportInit, FewSent, Waits
<1>5. ClaimedOnce(d) /\ AnswersKept(d) /\ OneAtATime(d)
  BY <1>2 DEF ReportInit, ClaimedOnce, AnswersKept, OneAtATime
<1> QED
  BY <1>4, <1>5 DEF DayOK

-----------------------------------------------------------------------------
\* A day that a step is not about.
SameMail(d) ==
    /\ log'[d] = log[d] /\ mailJob'[d] = mailJob[d]
    /\ sent'[d] = sent[d] /\ repeatable'[d] = repeatable[d]
    /\ Busy(d)' = Busy(d) /\ \A m \in Busy(d) : mailer'[m] = mailer[m]

LEMMA SameDay ==
    ASSUME NEW d, DayOK(d), SameMail(d), Claiming(d)' = Claiming(d),
           d \in claimed' <=> d \in claimed, d \in unreached' <=> d \in unreached,
           d \in abandoned => d \in abandoned'
    PROVE  DayOK(d)'
<1>1. Unheard(d)' = Unheard(d)
  BY DEF Unheard, SameMail
<1>2. FewSent(d)'
  BY <1>1 DEF DayOK, FewSent, Waits, SameMail
<1>3. ClaimedOnce(d)'
  BY DEF DayOK, ClaimedOnce, SameMail
<1>4. AnswersKept(d)' /\ OneAtATime(d)'
  BY DEF DayOK, AnswersKept, OneAtATime, SameMail
<1> QED
  BY <1>2, <1>3, <1>4 DEF DayOK

-----------------------------------------------------------------------------
LEMMA GiveBackTypes ==
    ASSUME ReportTypes, NEW d \in Reported, GiveBack(d)
    PROVE  mailJob' \in [Reported -> Jobs] /\ mailTries' \in [Reported -> Nat]
BY DEF ReportTypes, GiveBack, Jobs

LEMMA RepeatsTypes ==
    ASSUME ReportTypes, NEW d \in Reported, NEW b, Repeats(d, b)
    PROVE  repeatable' \in [Reported -> Nat]
BY DEF ReportTypes, Repeats

\* A worker that takes, keeps or leaves an e-mail.
LEMMA MailerTypes ==
    ASSUME ReportTypes, NEW m \in Mailers, NEW r \in Mails, r.pc # "idle" => r.day \in Reported,
           mailer' = [mailer EXCEPT ![m] = r]
    PROVE  /\ mailer' \in [Mailers -> Mails]
           /\ \A n \in Mailers : mailer'[n].pc # "idle" => mailer'[n].day \in Reported
BY DEF ReportTypes

LEMMA MailsTypes ==
    ASSUME ReportTypes, NEW m \in Mailers
    PROVE  /\ NoMail \in Mails /\ NoMail.pc = "idle"
           /\ mailer[m] \in Mails
           /\ \A a \in Answers : [mailer[m] EXCEPT !.pc = "record", !.answer = a] \in Mails
           /\ [mailer[m] EXCEPT !.pc = "note"] \in Mails
BY DEF ReportTypes, Mails, NoMail, Answers

LEMMA ReportStepTypes ==
    ASSUME ReportTypes, ReportNext
    PROVE  ReportTypes'
<1>1. CASE HourPasses
  BY <1>1 DEF ReportTypes, HourPasses, mailVars
<1>2. ASSUME NEW h, SetPreference(h) PROVE ReportTypes'
  BY <1>2 DEF ReportTypes, SetPreference, mailVars
<1>3. ASSUME NEW w \in Tickers,
             \/ StartTick(w) \/ FindEligible(w) \/ Claim(w) \/ LinkLog(w)
             \/ \E found \in BOOLEAN : FindRecipient(w, found)
             \/ \E how \in {"throws", "dies", "stalls"} : TickFails(w, how)
      PROVE  ReportTypes'
  <2>1. ticker[w] \in Ticks
    BY DEF ReportTypes
  <2>2. ticker' \in [Tickers -> Ticks]
    <3>1. \A a \in {"idle", "find", "claim", "recipient", "queue", "link"} : [ticker[w] EXCEPT !.pc = a] \in Ticks
      BY <2>1 DEF Ticks
    <3>2. Resting \in Ticks /\ [pc |-> "find", now |-> hour] \in Ticks
      BY DEF ReportTypes, Ticks, Resting
    <3> QED
      BY <1>3, <3>1, <3>2 DEF ReportTypes, StartTick, FindEligible, Claim, LinkLog, FindRecipient, TickFails
  <2> QED
    BY <1>3, <2>2 DEF ReportTypes, StartTick, FindEligible, Claim, LinkLog, FindRecipient,
                      TickFails, mailVars
<1>4. ASSUME NEW w \in Tickers, NEW enabled \in BOOLEAN, NEW accepted \in BOOLEAN,
             QueueEmail(w, enabled, accepted)
      PROVE  ReportTypes'
  <2>1. ticker' \in [Tickers -> Ticks]
    <3>1. [ticker[w] EXCEPT !.pc = "link"] \in Ticks
      BY DEF ReportTypes, Ticks
    <3> QED
      BY <1>4, <3>1 DEF QueueEmail, ReportTypes
  <2>2. log' \in [Reported -> Logs] /\ mailJob' \in [Reported -> Jobs]
    BY <1>4 DEF QueueEmail, ReportTypes, Logs, Jobs
  <2> QED
    BY <1>4, <2>1, <2>2 DEF QueueEmail, ReportTypes, mailVars
<1>5. ASSUME NEW m \in Mailers, NEW d \in Reported, StartMail(m, d) PROVE ReportTypes'
  <2> DEFINE r == [NoMail EXCEPT !.pc = "send", !.day = d, !.made = mailTries[d]]
  <2>1. d \in Nat
    BY DEF Reported
  <2>2. r \in Mails /\ r.day = d
    BY <2>1 DEF NoMail, Mails, Answers, ReportTypes
  <2>3. mailer' = [mailer EXCEPT ![m] = r]
    BY <1>5 DEF StartMail
  <2>4. log' \in [Reported -> Logs] /\ mailJob' \in [Reported -> Jobs]
    BY <1>5 DEF StartMail, ReportTypes, Logs, Jobs
  <2> HIDE DEF r
  <2> QED
    BY <1>5, <2>2, <2>3, <2>4, MailerTypes DEF StartMail, ReportTypes, tickVars, runVars
<1>6. ASSUME NEW m \in Mailers, NEW a \in {"accepted", "refused", "rejected", "unheard"}, SendMail(m, a)
      PROVE  ReportTypes'
  <2> DEFINE r == [mailer[m] EXCEPT !.pc = "record", !.answer = a]
  <2>1. r \in Mails /\ r.day = mailer[m].day /\ mailer[m].pc = "send" /\ mailer[m].day \in Reported
    <3>1. mailer[m] \in Mails /\ a \in Answers /\ mailer[m].pc = "send" /\ mailer[m].day \in Reported
      BY <1>6 DEF Answers, SendMail, ReportTypes
    <3>2. r \in Mails
      BY <3>1, MailsTypes
    <3>3. r.day = mailer[m].day
      BY <3>1 DEF Mails
    <3> QED
      BY <3>1, <3>2, <3>3
  <2>2. mailer' = [mailer EXCEPT ![m] = r]
    BY <1>6 DEF SendMail
  <2>3. sent' \in [Reported -> Nat] /\ repeatable' \in [Reported -> Nat]
    BY <1>6, <2>1 DEF SendMail, ReportTypes
  <2> HIDE DEF r
  <2> QED
    BY <1>6, <2>1, <2>2, <2>3, MailerTypes DEF SendMail, ReportTypes, tickVars, runVars
<1>7. ASSUME NEW m \in Mailers, RecordOutcome(m) \/ NoteOutcome(m) PROVE ReportTypes'
  <2> DEFINE d == mailer[m].day
  <2>1. d \in Reported
    BY <1>7 DEF RecordOutcome, NoteOutcome, ReportTypes
  <2>2. log' \in [Reported -> Logs]
    BY <1>7, <2>1 DEF RecordOutcome, NoteOutcome, ReportTypes, Logs
  <2>3. mailJob' \in [Reported -> Jobs] /\ mailTries' \in [Reported -> Nat]
    BY <1>7, <2>1, GiveBackTypes DEF RecordOutcome, NoteOutcome, ReportTypes, Jobs
  <2>4. /\ mailer' \in [Mailers -> Mails]
        /\ \A n \in Mailers : mailer'[n].pc # "idle" => mailer'[n].day \in Reported
    <3> DEFINE r == [mailer[m] EXCEPT !.pc = "note"]
    <3>1. r \in Mails /\ r.day = d
      BY MailsTypes DEF ReportTypes, Mails
    <3>2. mailer' = [mailer EXCEPT ![m] = r] \/ mailer' = [mailer EXCEPT ![m] = NoMail]
      BY <1>7 DEF RecordOutcome, NoteOutcome
    <3> HIDE DEF r
    <3> QED
      BY <2>1, <3>1, <3>2, MailerTypes, MailsTypes
  <2> QED
    BY <1>7, <2>2, <2>3, <2>4 DEF RecordOutcome, NoteOutcome, ReportTypes, tickVars, runVars
<1>8. ASSUME NEW m \in Mailers, MailThrows(m) PROVE ReportTypes'
  <2>1. mailer[m].day \in Reported
    BY <1>8 DEF MailThrows, ReportTypes
  <2>2. /\ mailer' \in [Mailers -> Mails]
        /\ \A n \in Mailers : mailer'[n].pc # "idle" => mailer'[n].day \in Reported
    BY <1>8, MailerTypes, MailsTypes DEF MailThrows
  <2>3. mailJob' \in [Reported -> Jobs] /\ mailTries' \in [Reported -> Nat]
    BY <1>8, <2>1, GiveBackTypes DEF MailThrows
  <2>4. repeatable' \in [Reported -> Nat]
    BY <1>8, <2>1, RepeatsTypes DEF MailThrows
  <2> QED
    BY <1>8, <2>2, <2>3, <2>4 DEF MailThrows, ReportTypes, tickVars, runVars
<1>9. ASSUME NEW m \in Mailers, NEW dead \in BOOLEAN, MailStalls(m, dead) PROVE ReportTypes'
  <2>1. mailer[m].day \in Reported
    BY <1>9 DEF MailStalls, ReportTypes
  <2>2. /\ mailer' \in [Mailers -> Mails]
        /\ \A n \in Mailers : mailer'[n].pc # "idle" => mailer'[n].day \in Reported
    BY <1>9, MailerTypes, MailsTypes DEF MailStalls, ReportTypes
  <2>3. mailJob' \in [Reported -> Jobs]
    BY <1>9, <2>1 DEF MailStalls, ReportTypes, Jobs
  <2>4. repeatable' \in [Reported -> Nat]
    BY <1>9, <2>1, RepeatsTypes DEF MailStalls
  <2> QED
    BY <1>9, <2>2, <2>3, <2>4 DEF MailStalls, ReportTypes, tickVars, runVars
<1> QED
  BY <1>1, <1>2, <1>3, <1>4, <1>5, <1>6, <1>7, <1>8, <1>9 DEF ReportNext

-----------------------------------------------------------------------------
(***************************************************************************)
(* The ticks.                                                              *)
(***************************************************************************)
LEMMA TickStep ==
    ASSUME ReportInv, UNCHANGED <<log, mailJob, mailVars, claimed, unreached, abandoned>>,
           \A d \in Reported : Claiming(d)' = Claiming(d)
    PROVE  \A d \in Reported : DayOK(d)'
<1> SUFFICES ASSUME NEW d \in Reported PROVE DayOK(d)'
  OBVIOUS
<1>1. SameMail(d)
  BY DEF SameMail, Busy, mailVars
<1> QED
  BY <1>1, SameDay DEF ReportInv

LEMMA ClaimStep ==
    ASSUME ReportInv, NEW w \in Tickers, Claim(w)
    PROVE  \A d \in Reported : DayOK(d)'
<1> DEFINE day == DayOf(ticker[w].now)
<1> SUFFICES ASSUME NEW d \in Reported PROVE DayOK(d)'
  OBVIOUS
<1>1. SameMail(d) /\ abandoned' = abandoned /\ unreached' = unreached
  BY DEF SameMail, Busy, Claim, mailVars, runVars
<1>2. /\ \A v \in Tickers \ {w} : ticker'[v] = ticker[v]
      /\ ticker[w].pc = "claim"
      /\ IF day \in claimed THEN ticker'[w].pc = "idle"
                            ELSE ticker'[w].pc = "recipient" /\ ticker'[w].now = ticker[w].now
  BY DEF Claim, ReportInv, ReportTypes, Ticks, Resting
<1>3. claimed' = claimed \cup {day}
  BY DEF Claim
<1>4. CASE d # day \/ day \in claimed
  <2>1. Claiming(d)' = Claiming(d)
    BY <1>2, <1>4 DEF Claiming, Dispatching
  <2>2. d \in claimed' <=> d \in claimed
    BY <1>3, <1>4
  <2> QED
    BY <1>1, <2>1, <2>2, SameDay DEF ReportInv
<1>5. CASE d = day /\ day \notin claimed
  <2>1. ClaimedOnce(d)
    BY DEF ReportInv, DayOK
  <2>2. Claiming(d) = {} /\ mailJob[d] = "none" /\ log[d] = "none"
    BY <1>5, <2>1 DEF ClaimedOnce
  <2>3. Claiming(d)' = {w}
    BY <1>2, <1>5, <2>2 DEF Claiming, Dispatching
  <2>4. ClaimedOnce(d)'
    BY <1>1, <1>3, <1>5, <2>1, <2>2, <2>3 DEF ClaimedOnce, SameMail
  <2>5. Unheard(d)' = Unheard(d)
    BY <1>1 DEF Unheard, SameMail
  <2>6. FewSent(d)'
    BY <1>1, <2>5 DEF ReportInv, DayOK, FewSent, Waits, SameMail
  <2>7. AnswersKept(d)' /\ OneAtATime(d)'
    BY <1>1 DEF ReportInv, DayOK, AnswersKept, OneAtATime, SameMail
  <2> QED
    BY <2>4, <2>6, <2>7 DEF DayOK
<1> QED
  BY <1>4, <1>5

LEMMA FindRecipientStep ==
    ASSUME ReportInv, NEW w \in Tickers, NEW found \in BOOLEAN, FindRecipient(w, found)
    PROVE  \A d \in Reported : DayOK(d)'
<1> DEFINE day == DayOf(ticker[w].now)
<1> SUFFICES ASSUME NEW d \in Reported PROVE DayOK(d)'
  OBVIOUS
<1>1. SameMail(d) /\ UNCHANGED <<claimed, abandoned>>
  BY DEF SameMail, Busy, FindRecipient, mailVars
<1>2. /\ \A v \in Tickers \ {w} : ticker'[v] = ticker[v]
      /\ ticker[w].pc = "recipient"
      /\ IF found THEN ticker'[w].pc = "queue" /\ ticker'[w].now = ticker[w].now
                  ELSE ticker'[w].pc = "idle"
  BY DEF FindRecipient, ReportInv, ReportTypes, Ticks, Resting
<1>3. unreached' = IF found THEN unreached ELSE unreached \cup {day}
  BY DEF FindRecipient
<1>4. CASE d # day \/ found
  <2>1. Claiming(d)' = Claiming(d)
    BY <1>2, <1>4 DEF Claiming, Dispatching
  <2>2. d \in unreached' <=> d \in unreached
    BY <1>3, <1>4
  <2> QED
    BY <1>1, <2>1, <2>2, SameDay DEF ReportInv
<1>5. CASE d = day /\ ~found
  <2>1. ClaimedOnce(d) /\ w \in Claiming(d)
    BY <1>2, <1>5 DEF ReportInv, DayOK, Claiming, Dispatching
  <2>2. Claiming(d) = {w} /\ d \in claimed /\ mailJob[d] = "none" /\ log[d] = "none"
    BY <2>1 DEF ClaimedOnce
  <2>3. Claiming(d)' = {}
    BY <1>2, <1>5, <2>2 DEF Claiming, Dispatching
  <2>4. ClaimedOnce(d)'
    BY <1>1, <1>3, <1>5, <2>1, <2>2, <2>3 DEF ClaimedOnce, SameMail
  <2>5. Unheard(d)' = Unheard(d)
    BY <1>1 DEF Unheard, SameMail
  <2>6. FewSent(d)'
    BY <1>1, <2>5 DEF ReportInv, DayOK, FewSent, Waits, SameMail
  <2>7. AnswersKept(d)' /\ OneAtATime(d)'
    BY <1>1 DEF ReportInv, DayOK, AnswersKept, OneAtATime, SameMail
  <2> QED
    BY <2>4, <2>6, <2>7 DEF DayOK
<1> QED
  BY <1>4, <1>5

LEMMA QueueStep ==
    ASSUME ReportInv, ReportTypes', NEW w \in Tickers, NEW enabled \in BOOLEAN, NEW accepted \in BOOLEAN,
           QueueEmail(w, enabled, accepted)
    PROVE  \A d \in Reported : DayOK(d)'
<1> DEFINE day == DayOf(ticker[w].now)
<1> SUFFICES ASSUME NEW d \in Reported PROVE DayOK(d)'
  OBVIOUS
<1>1. Busy(d)' = Busy(d) /\ UNCHANGED <<mailer, sent, repeatable, claimed, unreached>>
  BY DEF QueueEmail, mailVars, runVars, Busy
<1>2. Claiming(d)' = Claiming(d) \ {w} /\ (w \in Claiming(d) <=> d = day)
  <2>1. /\ ticker[w].pc = "queue" /\ ticker'[w].pc = "link"
        /\ \A v \in Tickers \ {w} : ticker'[v] = ticker[v]
    BY DEF QueueEmail, ReportInv, ReportTypes, Ticks
  <2> QED
    BY <2>1 DEF Claiming, Dispatching
<1>3. CASE d # day
  <2>1. log'[d] = log[d] /\ mailJob'[d] = mailJob[d] /\ (d \in abandoned' <=> d \in abandoned)
    BY <1>3 DEF QueueEmail, ReportInv, ReportTypes
  <2>2. SameMail(d) /\ Claiming(d)' = Claiming(d)
    BY <1>1, <1>2, <1>3, <2>1 DEF SameMail
  <2> QED
    BY <1>1, <2>1, <2>2, SameDay DEF ReportInv
<1>4. CASE d = day
  <2>1. FewSent(d) /\ ClaimedOnce(d) /\ sent[d] \in Nat /\ repeatable[d] \in Nat
    BY DEF ReportInv, DayOK, ReportTypes
  <2>2. /\ d \in claimed /\ d \notin unreached /\ mailJob[d] = "none"
        /\ sent[d] = 0 /\ Busy(d) = {} /\ Claiming(d)' = {}
    BY <1>2, <1>4, <2>1 DEF ClaimedOnce
  <2>3. /\ log'[d] = IF enabled THEN "QUEUED" ELSE "SKIPPED"
        /\ mailJob'[d] = IF enabled /\ accepted THEN "waiting" ELSE "none"
        /\ enabled /\ ~accepted => d \in abandoned'
    BY <1>4, <2>2 DEF QueueEmail, ReportInv, ReportTypes
  <2>4. Cardinality(Unheard(d)') = 0
    <3>1. Unheard(d)' = {}
      BY <1>1, <2>2 DEF Unheard
    <3> QED
      BY <3>1, FS_EmptySet
  <2>5. FewSent(d)'
    BY <1>1, <2>1, <2>2, <2>4 DEF FewSent, Waits
  <2>6. d \in claimed' /\ d \notin unreached' /\ sent'[d] = 0 /\ Busy(d)' = {}
    BY <1>1, <2>2 DEF QueueEmail
  <2>7. ClaimedOnce(d)'
    BY <2>2, <2>3, <2>6 DEF ClaimedOnce
  <2>8. AnswersKept(d)' /\ OneAtATime(d)'
    BY <1>1, <2>2, <2>3 DEF AnswersKept, OneAtATime
  <2> QED
    BY <2>5, <2>7, <2>8 DEF DayOK
<1> QED
  BY <1>3, <1>4

LEMMA TickFailsStep ==
    ASSUME ReportInv, NEW w \in Tickers, NEW how, TickFails(w, how)
    PROVE  \A d \in Reported : DayOK(d)'
<1> SUFFICES ASSUME NEW d \in Reported PROVE DayOK(d)'
  OBVIOUS
<1>1. SameMail(d) /\ UNCHANGED <<claimed, unreached>> /\ (d \in abandoned => d \in abandoned')
  BY DEF SameMail, Busy, TickFails, mailVars
<1>2. CASE how = "stalls"
  <2>1. Claiming(d)' = Claiming(d)
    BY <1>2 DEF TickFails, Claiming, Dispatching
  <2> QED
    BY <1>1, <2>1, SameDay DEF ReportInv
<1>3. CASE how # "stalls"
  <2>1. \A v \in Tickers : ticker'[v] = IF v = w THEN Resting ELSE ticker[v]
    BY <1>3 DEF TickFails, ReportInv, ReportTypes
  <2>2. Claiming(d)' = Claiming(d) \ {w}
    BY <2>1 DEF Claiming, Dispatching, Resting
  <2>3. w \in Claiming(d) => d \in abandoned'
    <3>1. SUFFICES ASSUME w \in Claiming(d) PROVE d \in abandoned'
      OBVIOUS
    <3>2. ticker[w].pc \in {"recipient", "queue"} /\ DayOf(ticker[w].now) = d
      BY <3>1 DEF Claiming, Dispatching
    <3>3. abandoned' = abandoned \cup {DayOf(ticker[w].now)}
      BY <1>3, <3>2 DEF TickFails
    <3> QED
      BY <3>2, <3>3
  <2>4. CASE w \notin Claiming(d)
    <3>1. Claiming(d)' = Claiming(d)
      BY <2>2, <2>4
    <3> QED
      BY <1>1, <3>1, SameDay DEF ReportInv
  <2>5. CASE w \in Claiming(d)
    <3>1. ClaimedOnce(d)'
      BY <1>1, <2>2, <2>3, <2>5 DEF ReportInv, DayOK, ClaimedOnce, SameMail
    <3>2. Unheard(d)' = Unheard(d)
      BY <1>1 DEF Unheard, SameMail
    <3>3. FewSent(d)'
      BY <1>1, <3>2 DEF ReportInv, DayOK, FewSent, Waits, SameMail
    <3>4. AnswersKept(d)' /\ OneAtATime(d)'
      BY <1>1 DEF ReportInv, DayOK, AnswersKept, OneAtATime, SameMail
    <3> QED
      BY <3>1, <3>3, <3>4 DEF DayOK
  <2> QED
    BY <2>4, <2>5
<1> QED
  BY <1>2, <1>3

-----------------------------------------------------------------------------
(***************************************************************************)
(* The workers of the e-mail queue.  A step of worker m is about day d.    *)
(***************************************************************************)
About(m, d) ==
    /\ \A n \in Mailers \ {m} : mailer'[n] = mailer[n]
    /\ mailer[m].pc # "idle" => mailer[m].day = d
    /\ mailer'[m].pc # "idle" => mailer'[m].day = d
    /\ \A e \in Reported \ {d} : /\ log'[e] = log[e] /\ mailJob'[e] = mailJob[e]
                                /\ sent'[e] = sent[e] /\ repeatable'[e] = repeatable[e]
    /\ UNCHANGED <<ticker, claimed, unreached>> /\ abandoned \subseteq abandoned'

LEMMA OtherDays ==
    ASSUME ReportInv, NEW m \in Mailers, NEW d \in Reported, About(m, d), DayOK(d)'
    PROVE  \A e \in Reported : DayOK(e)'
<1> SUFFICES ASSUME NEW e \in Reported \ {d} PROVE DayOK(e)'
  OBVIOUS
<1>1. SameMail(e)
  BY DEF About, SameMail, Busy
<1>2. Claiming(e)' = Claiming(e)
  BY DEF About, Claiming, Dispatching
<1> QED
  BY <1>1, <1>2, SameDay DEF About, ReportInv

LEMMA WorkersOf ==
    ASSUME NEW m \in Mailers, NEW d \in Reported, About(m, d)
    PROVE  /\ Busy(d)' = IF mailer'[m].pc = "idle" THEN Busy(d) \ {m} ELSE Busy(d) \cup {m}
           /\ Unheard(d)' = IF mailer'[m].pc = "idle" \/ mailer'[m].answer = "accepted"
                            THEN Unheard(d) \ {m} ELSE Unheard(d) \cup {m}
BY DEF About, Busy, Unheard

\* While a worker is on a day's e-mail, its job exists.
LEMMA JobExists ==
    ASSUME ReportInv, NEW m \in Mailers, mailer[m].pc # "idle"
    PROVE  LET d == mailer[m].day IN
           /\ d \in Reported /\ m \in Busy(d) /\ DayOK(d)
           /\ mailJob[d] # "none" /\ d \in claimed /\ Claiming(d) = {}
           /\ repeatable[d] = 0 => Busy(d) = {m}
           /\ sent[d] \in Nat /\ repeatable[d] \in Nat
           /\ Waits(d) \in {0, 1} /\ Cardinality(Unheard(d)) \in Nat
           /\ mailer[m].answer # "accepted" => m \in Unheard(d)
<1> DEFINE d == mailer[m].day
<1>1. d \in Reported /\ m \in Busy(d)
  BY DEF ReportInv, ReportTypes, Busy
<1>2. DayOK(d)
  BY <1>1 DEF ReportInv
<1>3. mailJob[d] # "none"
  BY <1>1, <1>2 DEF DayOK, ClaimedOnce
<1>4. d \in claimed /\ Claiming(d) = {}
  BY <1>2, <1>3 DEF DayOK, ClaimedOnce
<1>5. repeatable[d] = 0 => Busy(d) = {m}
  BY <1>1, <1>2 DEF DayOK, OneAtATime
<1>6. sent[d] \in Nat /\ repeatable[d] \in Nat /\ Waits(d) \in {0, 1}
  BY <1>1 DEF ReportInv, ReportTypes, Waits
<1>7. Cardinality(Unheard(d)) \in Nat
  BY Counting, UnheardAreMailers
<1>8. mailer[m].answer # "accepted" => m \in Unheard(d)
  BY <1>1 DEF Unheard
<1> HIDE DEF d
<1> QED
  BY <1>1, <1>2, <1>3, <1>4, <1>5, <1>6, <1>7, <1>8 DEF d

LEMMA StartMailStep ==
    ASSUME ReportInv, ReportTypes', NEW m \in Mailers, NEW d \in Reported, StartMail(m, d)
    PROVE  \A e \in Reported : DayOK(e)'
<1>1. /\ \A n \in Mailers \ {m} : mailer'[n] = mailer[n]
      /\ mailer[m].pc = "idle" /\ mailer'[m].pc = "send" /\ mailer'[m].day = d
      /\ mailer'[m].answer = "none"
  BY DEF StartMail, ReportInv, ReportTypes, NoMail
<1>2. /\ mailJob[d] = "waiting" /\ mailJob'[d] = "active" /\ log'[d] = "SENDING"
      /\ UNCHANGED <<sent, repeatable, ticker, claimed, unreached, abandoned>>
  BY DEF StartMail, ReportInv, ReportTypes, tickVars, runVars
<1>3. About(m, d)
  BY <1>1, <1>2 DEF About, StartMail, ReportInv, ReportTypes
<1>4. Busy(d)' = Busy(d) \cup {m} /\ Unheard(d)' = Unheard(d) \cup {m} /\ m \notin Busy(d)
  BY <1>1, <1>3, WorkersOf DEF Busy
<1>5. DayOK(d) /\ sent[d] \in Nat /\ repeatable[d] \in Nat /\ Cardinality(Unheard(d)) \in Nat
  BY Counting, UnheardAreMailers DEF ReportInv, ReportTypes
<1>6. Cardinality(Unheard(d)') = Cardinality(Unheard(d)) + 1
  BY <1>4, Counting, UnheardAreMailers DEF Unheard
<1>7. FewSent(d)'
  BY <1>2, <1>5, <1>6 DEF DayOK, FewSent, Waits
<1>8. repeatable[d] = 0 => Busy(d) = {}
  <2> SUFFICES ASSUME repeatable[d] = 0, NEW n \in Busy(d) PROVE FALSE
    OBVIOUS
  <2>1. sent[d] = 0 /\ Cardinality(Unheard(d)) = 0
    BY <1>2, <1>5 DEF DayOK, FewSent, Waits
  <2>2. n \in Unheard(d)
    BY <1>5, <2>1 DEF DayOK, AnswersKept, Unheard
  <2>3. Unheard(d) \in SUBSET Mailers
    BY UnheardAreMailers
  <2>4. Cardinality(Unheard(d)) > 0
    BY <2>2, <2>3, Counting
  <2> QED
    BY <2>1, <2>4
<1>9. Claiming(d)' = Claiming(d)
  BY <1>2 DEF Claiming, Dispatching
<1>10. ClaimedOnce(d)'
  BY <1>2, <1>5, <1>9 DEF DayOK, ClaimedOnce
<1>11. AnswersKept(d)'
  BY <1>1, <1>2, <1>4, <1>5 DEF DayOK, AnswersKept, Busy
<1>12. OneAtATime(d)'
  BY <1>1, <1>2, <1>4, <1>8 DEF OneAtATime
<1> QED
  BY <1>3, <1>7, <1>10, <1>11, <1>12, OtherDays DEF DayOK

LEMMA SendMailStep ==
    ASSUME ReportInv, ReportTypes', NEW m \in Mailers,
           NEW a \in {"accepted", "refused", "rejected", "unheard"}, SendMail(m, a)
    PROVE  \A e \in Reported : DayOK(e)'
<1> PICK d \in Reported : d = mailer[m].day
  BY DEF SendMail, ReportInv, ReportTypes
<1>1. /\ mailer[m].pc = "send" /\ mailer'[m].pc = "record" /\ mailer'[m].day = d
      /\ mailer'[m].answer = a /\ \A n \in Mailers \ {m} : mailer'[n] = mailer[n]
  BY DEF SendMail, ReportInv, ReportTypes, Mails
<1>2. d \in Reported /\ m \in Busy(d) /\ DayOK(d) /\ mailJob[d] # "none"
      /\ sent[d] \in Nat /\ repeatable[d] \in Nat /\ Cardinality(Unheard(d)) \in Nat
      /\ Waits(d) \in {0, 1} /\ Claiming(d) = {}
  BY <1>1, JobExists
<1>3. m \in Unheard(d)
  BY <1>1, <1>2 DEF DayOK, AnswersKept, Unheard
<1>4. /\ sent'[d] = IF a \in {"accepted", "unheard"} THEN sent[d] + 1 ELSE sent[d]
      /\ repeatable'[d] = IF a = "unheard" THEN repeatable[d] + 1 ELSE repeatable[d]
      /\ UNCHANGED <<log, mailJob, ticker, claimed, unreached, abandoned>>
  BY <1>2 DEF SendMail, ReportInv, ReportTypes, tickVars, runVars
<1>5. About(m, d)
  BY <1>1, <1>4 DEF About, SendMail, ReportInv, ReportTypes
<1>6. Busy(d)' = Busy(d) /\ Unheard(d)' = IF a = "accepted" THEN Unheard(d) \ {m} ELSE Unheard(d)
  BY <1>1, <1>2, <1>3, <1>5, WorkersOf
<1>7. FewSent(d)'
  <2>1. Cardinality(Unheard(d) \ {m}) = Cardinality(Unheard(d)) - 1
    BY <1>3, Counting, UnheardAreMailers
  <2>2. Waits(d)' = Waits(d)
    BY <1>4 DEF Waits
  <2> QED
    BY <1>2, <1>4, <1>6, <2>1, <2>2 DEF DayOK, FewSent
<1>8. Claiming(d)' = {}
  BY <1>2, <1>4 DEF Claiming, Dispatching
<1>9. ClaimedOnce(d)'
  BY <1>2, <1>4, <1>8 DEF DayOK, ClaimedOnce
<1>10. AnswersKept(d)'
  BY <1>1, <1>2, <1>4, <1>6 DEF DayOK, AnswersKept, Busy
<1>11. OneAtATime(d)'
  <2>1. repeatable'[d] = 0 => repeatable[d] = 0
    BY <1>2, <1>4
  <2>2. repeatable[d] = 0 => log[d] # "FAILED" /\ mailJob[d] # "done"
    BY <1>1, <1>2 DEF DayOK, OneAtATime
  <2> QED
    BY <1>1, <1>2, <1>4, <1>6, <2>1, <2>2 DEF DayOK, OneAtATime, Busy
<1> QED
  BY <1>2, <1>5, <1>7, <1>9, <1>10, <1>11, OtherDays DEF DayOK

\* A failed attempt, after which the worker leaves.
LEMMA LeaveStep ==
    ASSUME ReportInv, ReportTypes', NEW m \in Mailers, NEW d \in Reported, d = mailer[m].day,
           mailer[m].pc # "idle", mailer' = [mailer EXCEPT ![m] = NoMail],
           GiveBack(d), Repeats(d, mailer[m].answer = "accepted"),
           log'[d] \in {log[d], "QUEUED"}, \A e \in Reported \ {d} : log'[e] = log[e],
           UNCHANGED <<tickVars, sent>>
    PROVE  \A e \in Reported : DayOK(e)'
<1>1. mailer'[m].pc = "idle" /\ \A n \in Mailers \ {m} : mailer'[n] = mailer[n]
  BY DEF ReportInv, ReportTypes, NoMail
<1>2. /\ mailJob'[d] \in {mailJob[d], "waiting", "failed"}
      /\ mailJob'[d] = "failed" => mailJob[d] = "failed" \/ d \in abandoned'
      /\ mailJob[d] # "none" => mailJob'[d] # "none"
      /\ mailJob'[d] = "waiting" => mailJob[d] = "waiting" \/ mailJob[d] = "active"
      /\ \A e \in Reported \ {d} : mailJob'[e] = mailJob[e]
      /\ abandoned \subseteq abandoned'
  BY DEF GiveBack, ReportInv, ReportTypes
<1>3. /\ repeatable'[d] = IF mailer[m].answer = "accepted" THEN repeatable[d] + 1 ELSE repeatable[d]
      /\ \A e \in Reported \ {d} : repeatable'[e] = repeatable[e]
  BY DEF Repeats, ReportInv, ReportTypes
<1>4. About(m, d)
  BY <1>1, <1>2, <1>3 DEF About, tickVars, runVars
<1>5. DayOK(d) /\ mailJob[d] # "none" /\ d \in claimed /\ Claiming(d) = {}
      /\ (repeatable[d] = 0 => Busy(d) = {m}) /\ sent[d] \in Nat /\ repeatable[d] \in Nat
      /\ Waits(d) \in {0, 1} /\ Cardinality(Unheard(d)) \in Nat
      /\ (mailer[m].answer # "accepted" => m \in Unheard(d))
  BY JobExists
<1>6. Busy(d)' = Busy(d) \ {m} /\ Unheard(d)' = Unheard(d) \ {m}
  BY <1>1, <1>4, WorkersOf
<1>7. FewSent(d)'
  <2>1. Unheard(d) \in SUBSET Mailers
    BY UnheardAreMailers
  <2>2. /\ m \in Unheard(d) => Cardinality(Unheard(d)') = Cardinality(Unheard(d)) - 1
        /\ m \notin Unheard(d) => Unheard(d)' = Unheard(d)
    BY <1>6, <2>1, Counting
  <2>3. Waits(d)' <= Waits(d) + 1 /\ Waits(d)' \in {0, 1}
    BY DEF Waits
  <2>4. CASE m \in Unheard(d)
    <3>1. mailer[m].answer # "accepted"
      BY <2>4 DEF Unheard
    <3> QED
      BY <1>3, <1>5, <2>2, <2>3, <2>4, <3>1 DEF DayOK, FewSent, tickVars, runVars
  <2>5. CASE m \notin Unheard(d)
    BY <1>3, <1>5, <2>2, <2>3, <2>5 DEF DayOK, FewSent, tickVars, runVars
  <2> QED
    BY <2>4, <2>5
<1>8. Claiming(d)' = {}
  BY <1>5 DEF Claiming, Dispatching, tickVars, runVars
<1>9. ClaimedOnce(d)'
  BY <1>2, <1>5, <1>8 DEF DayOK, ClaimedOnce, tickVars, runVars
<1>10. AnswersKept(d)'
  BY <1>1, <1>5, <1>6 DEF DayOK, AnswersKept
<1>11. OneAtATime(d)'
  <2> SUFFICES ASSUME repeatable'[d] = 0
               PROVE  /\ Busy(d)' = {} /\ mailJob'[d] # "done"
                      /\ log'[d] = "FAILED" => sent'[d] = 0
    BY DEF OneAtATime
  <2>1. repeatable[d] = 0 /\ Busy(d)' = {}
    BY <1>3, <1>5, <1>6
  <2>2. mailJob[d] # "done"
    BY <1>5, <2>1 DEF DayOK, OneAtATime
  <2> QED
    BY <1>2, <1>5, <2>1, <2>2 DEF DayOK, OneAtATime
<1> QED
  BY <1>4, <1>7, <1>9, <1>10, <1>11, OtherDays DEF DayOK

LEMMA RecordOutcomeStep ==
    ASSUME ReportInv, ReportTypes', NEW m \in Mailers, RecordOutcome(m)
    PROVE  \A e \in Reported : DayOK(e)'
<1> PICK d \in Reported : d = mailer[m].day
  BY DEF RecordOutcome, ReportInv, ReportTypes
<1>1. mailer[m].pc = "record" /\ UNCHANGED <<tickVars, sent, repeatable>>
  BY DEF RecordOutcome
<1>2. CASE mailer' = [mailer EXCEPT ![m] = NoMail]
  <2>1. /\ mailer[m].answer # "accepted" /\ log' = [log EXCEPT ![d] = "QUEUED"] /\ GiveBack(d)
    <3>1. ~(mailer' = [mailer EXCEPT ![m].pc = "note"])
      BY <1>2 DEF ReportInv, ReportTypes, NoMail, Mails
    <3> QED
      BY <3>1 DEF RecordOutcome
  <2>2. Repeats(d, mailer[m].answer = "accepted")
    BY <1>1, <2>1 DEF Repeats
  <2>3. log'[d] = "QUEUED" /\ \A e \in Reported \ {d} : log'[e] = log[e]
    BY <2>1 DEF ReportInv, ReportTypes
  <2> QED
    BY <1>1, <1>2, <2>1, <2>2, <2>3, LeaveStep
<1>3. CASE mailer' = [mailer EXCEPT ![m].pc = "note"]
  <2>1. /\ log' = [log EXCEPT ![d] = IF mailer[m].answer = "accepted" THEN "SENT" ELSE "FAILED"]
        /\ UNCHANGED <<mailJob, mailTries, abandoned>>
    <3>1. ~(mailer' = [mailer EXCEPT ![m] = NoMail])
      BY <1>3 DEF ReportInv, ReportTypes, NoMail, Mails
    <3> QED
      BY <3>1 DEF RecordOutcome
  <2>2. /\ mailer'[m].pc = "note" /\ mailer'[m].day = d /\ mailer'[m].answer = mailer[m].answer
        /\ \A n \in Mailers \ {m} : mailer'[n] = mailer[n]
    BY <1>3 DEF ReportInv, ReportTypes, Mails
  <2>3. /\ log'[d] = IF mailer[m].answer = "accepted" THEN "SENT" ELSE "FAILED"
        /\ \A e \in Reported \ {d} : log'[e] = log[e]
    BY <2>1 DEF ReportInv, ReportTypes
  <2>4. About(m, d)
    BY <1>1, <2>1, <2>2, <2>3 DEF About, tickVars, runVars
  <2>5. DayOK(d) /\ mailJob[d] # "none" /\ d \in claimed /\ Claiming(d) = {} /\ m \in Busy(d)
        /\ (repeatable[d] = 0 => Busy(d) = {m}) /\ sent[d] \in Nat /\ repeatable[d] \in Nat
        /\ Waits(d) \in {0, 1} /\ Cardinality(Unheard(d)) \in Nat
        /\ (mailer[m].answer # "accepted" => m \in Unheard(d))
    BY <1>1, JobExists
  <2>6. Busy(d)' = Busy(d) /\ Unheard(d)' = Unheard(d)
    <3>1. m \in Unheard(d) <=> mailer[m].answer # "accepted"
      BY <2>5 DEF Unheard
    <3> QED
      BY <2>2, <2>4, <2>5, <3>1, WorkersOf
  <2>7. FewSent(d)'
    BY <1>1, <2>1, <2>5, <2>6 DEF DayOK, FewSent, Waits
  <2>8. ClaimedOnce(d)'
    <3>1. Claiming(d)' = {}
      BY <1>1, <2>5 DEF Claiming, Dispatching, tickVars, runVars
    <3> QED
      BY <1>1, <2>1, <2>3, <2>5, <3>1 DEF DayOK, ClaimedOnce, tickVars, runVars
  <2>9. AnswersKept(d)'
    <3>1. Busy(d) \subseteq Mailers
      BY DEF Busy
    <3>2. mailer[m].answer = "accepted" => sent[d] > 0
      BY <2>5 DEF DayOK, AnswersKept
    <3>3. \A n \in Busy(d) : /\ mailer'[n].pc = "send" => mailer'[n].answer # "accepted"
                             /\ mailer'[n].answer = "accepted" => sent[d] > 0
      BY <2>2, <2>5, <3>1, <3>2 DEF DayOK, AnswersKept
    <3>4. log'[d] = "SENT" => sent[d] > 0
      BY <2>3, <3>2
    <3> QED
      BY <1>1, <2>6, <3>3, <3>4 DEF AnswersKept
  <2>10. OneAtATime(d)'
    <3> SUFFICES ASSUME repeatable[d] = 0
                 PROVE  /\ Busy(d)' = {m} /\ mailer'[m].pc = "note" /\ log'[d] \in {"SENT", "FAILED"}
                        /\ log'[d] = "FAILED" => sent[d] = 0
                        /\ mailJob[d] # "done"
      BY <1>1, <2>1 DEF OneAtATime
    <3>1. log'[d] = "FAILED" => sent[d] = 0
      <4> SUFFICES ASSUME log'[d] = "FAILED" PROVE sent[d] = 0
        OBVIOUS
      <4>1. m \in Unheard(d) /\ Unheard(d) \in SUBSET Mailers
        BY <2>3, <2>5, UnheardAreMailers
      <4>2. Cardinality(Unheard(d)) > 0
        BY <4>1, Counting
      <4> QED
        BY <2>5, <4>2 DEF DayOK, FewSent
    <3> QED
      BY <2>2, <2>3, <2>5, <2>6, <3>1 DEF DayOK, OneAtATime
  <2> QED
    BY <2>4, <2>7, <2>8, <2>9, <2>10, OtherDays DEF DayOK
<1> QED
  BY <1>2, <1>3 DEF RecordOutcome

LEMMA NoteOutcomeStep ==
    ASSUME ReportInv, ReportTypes', NEW m \in Mailers, NoteOutcome(m)
    PROVE  \A e \in Reported : DayOK(e)'
<1> PICK d \in Reported : d = mailer[m].day
  BY DEF NoteOutcome, ReportInv, ReportTypes
<1>1. mailer[m].pc = "note" /\ UNCHANGED <<tickVars, log, sent, repeatable, abandoned>>
  BY DEF NoteOutcome
<1>2. mailer'[m].pc = "idle" /\ \A n \in Mailers \ {m} : mailer'[n] = mailer[n]
  BY DEF NoteOutcome, ReportInv, ReportTypes, NoMail
<1>3. /\ mailJob'[d] \in {mailJob[d], "done"} /\ (mailJob[d] = "waiting" => mailJob'[d] = "waiting")
      /\ \A e \in Reported \ {d} : mailJob'[e] = mailJob[e]
  BY DEF NoteOutcome, ReportInv, ReportTypes
<1>4. About(m, d)
  BY <1>1, <1>2, <1>3 DEF About, tickVars, runVars
<1>5. DayOK(d) /\ mailJob[d] # "none" /\ d \in claimed /\ Claiming(d) = {} /\ m \in Busy(d)
      /\ (repeatable[d] = 0 => Busy(d) = {m}) /\ sent[d] \in Nat /\ repeatable[d] \in Nat
      /\ Waits(d) \in {0, 1} /\ Cardinality(Unheard(d)) \in Nat
  BY <1>1, JobExists
<1>6. Busy(d)' = Busy(d) \ {m} /\ Unheard(d)' = Unheard(d) \ {m}
  BY <1>2, <1>4, WorkersOf
<1>7. FewSent(d)'
  <2>1. Unheard(d) \in SUBSET Mailers
    BY UnheardAreMailers
  <2>2. Cardinality(Unheard(d)') <= Cardinality(Unheard(d)) /\ Cardinality(Unheard(d)') \in Nat
    <3>1. m \in Unheard(d) => Cardinality(Unheard(d)') = Cardinality(Unheard(d)) - 1 /\ Cardinality(Unheard(d)) > 0
      BY <1>6, <2>1, Counting
    <3>2. m \notin Unheard(d) => Unheard(d)' = Unheard(d)
      BY <1>6
    <3> QED
      BY <1>5, <3>1, <3>2
  <2>3. Waits(d)' = Waits(d)
    BY <1>3 DEF Waits
  <2> QED
    BY <1>1, <1>5, <2>2, <2>3 DEF DayOK, FewSent
<1>8. ClaimedOnce(d)'
  <2>1. Claiming(d)' = {}
    BY <1>1, <1>5 DEF Claiming, Dispatching, tickVars, runVars
  <2> QED
    BY <1>1, <1>3, <1>5, <2>1 DEF DayOK, ClaimedOnce, tickVars, runVars
<1>9. AnswersKept(d)'
  <2>1. \A n \in Busy(d)' : n \in Busy(d) /\ mailer'[n] = mailer[n]
    BY <1>2, <1>6 DEF Busy
  <2> QED
    BY <1>1, <1>5, <2>1 DEF DayOK, AnswersKept
<1>10. OneAtATime(d)'
  <2> SUFFICES ASSUME repeatable[d] = 0
               PROVE  Busy(d)' = {} /\ log[d] \in {"SENT", "FAILED"} /\ (log[d] = "FAILED" => sent[d] = 0)
    BY <1>1 DEF OneAtATime
  <2> QED
    BY <1>1, <1>5, <1>6 DEF DayOK, OneAtATime
<1> QED
  BY <1>4, <1>7, <1>8, <1>9, <1>10, OtherDays DEF DayOK

LEMMA MailStallsStep ==
    ASSUME ReportInv, ReportTypes', NEW m \in Mailers, NEW dead \in BOOLEAN, MailStalls(m, dead)
    PROVE  \A e \in Reported : DayOK(e)'
<1> PICK d \in Reported : d = mailer[m].day
  BY DEF MailStalls, ReportInv, ReportTypes
<1>1. mailer[m].pc # "idle" /\ UNCHANGED <<tickVars, log, sent, abandoned>>
  BY DEF MailStalls
<1>2. /\ dead => mailer'[m].pc = "idle"
      /\ ~dead => mailer'[m] = mailer[m]
      /\ \A n \in Mailers \ {m} : mailer'[n] = mailer[n]
  BY DEF MailStalls, ReportInv, ReportTypes, NoMail
<1>3. /\ mailJob[d] = "active" /\ mailJob'[d] = "waiting"
      /\ \A e \in Reported \ {d} : mailJob'[e] = mailJob[e]
  BY DEF MailStalls, ReportInv, ReportTypes
<1>4. /\ repeatable'[d] = IF ~dead \/ mailer[m].answer = "accepted" THEN repeatable[d] + 1 ELSE repeatable[d]
      /\ \A e \in Reported \ {d} : repeatable'[e] = repeatable[e]
  BY DEF MailStalls, Repeats, ReportInv, ReportTypes
<1>5. About(m, d)
  BY <1>1, <1>2, <1>3, <1>4 DEF About, tickVars, runVars
<1>6. DayOK(d) /\ mailJob[d] # "none" /\ d \in claimed /\ Claiming(d) = {} /\ m \in Busy(d)
      /\ (repeatable[d] = 0 => Busy(d) = {m}) /\ sent[d] \in Nat /\ repeatable[d] \in Nat
      /\ Cardinality(Unheard(d)) \in Nat /\ (mailer[m].answer # "accepted" => m \in Unheard(d))
  BY <1>1, JobExists
<1>7. /\ dead => Busy(d)' = Busy(d) \ {m} /\ Unheard(d)' = Unheard(d) \ {m}
      /\ ~dead => Busy(d)' = Busy(d) /\ Unheard(d)' = Unheard(d)
  <2>1. CASE dead
    BY <1>2, <1>5, <2>1, WorkersOf
  <2>2. CASE ~dead
    BY <1>2, <2>2 DEF Busy, Unheard
  <2> QED
    BY <2>1, <2>2
<1>8. FewSent(d)'
  <2>1. Waits(d) = 0 /\ Waits(d)' = 1
    BY <1>3 DEF Waits
  <2>2. CASE dead /\ m \in Unheard(d)
    <3>1. Cardinality(Unheard(d)') = Cardinality(Unheard(d)) - 1
      BY <1>7, <2>2, Counting, UnheardAreMailers
    <3>2. repeatable'[d] >= repeatable[d]
      BY <1>4, <1>6
    <3> QED
      BY <1>1, <1>4, <1>6, <2>1, <3>1, <3>2 DEF DayOK, FewSent
  <2>3. CASE dead /\ m \notin Unheard(d)
    <3>1. Unheard(d)' = Unheard(d) /\ repeatable'[d] = repeatable[d] + 1
      BY <1>4, <1>6, <1>7, <2>3
    <3> QED
      BY <1>1, <1>6, <2>1, <3>1 DEF DayOK, FewSent
  <2>4. CASE ~dead
    BY <1>1, <1>4, <1>6, <1>7, <2>1, <2>4 DEF DayOK, FewSent
  <2> QED
    BY <2>2, <2>3, <2>4
<1>9. ClaimedOnce(d)'
  <2>1. Claiming(d)' = {}
    BY <1>1, <1>6 DEF Claiming, Dispatching, tickVars, runVars
  <2> QED
    BY <1>1, <1>3, <1>6, <2>1 DEF DayOK, ClaimedOnce, tickVars, runVars
<1>10. AnswersKept(d)'
  <2>1. \A n \in Busy(d)' : n \in Busy(d) /\ mailer'[n] = mailer[n]
    BY <1>2, <1>7 DEF Busy
  <2> QED
    BY <1>1, <1>6, <2>1 DEF DayOK, AnswersKept
<1>11. OneAtATime(d)'
  <2> SUFFICES ASSUME repeatable'[d] = 0
               PROVE  Busy(d)' = {} /\ (log[d] = "FAILED" => sent[d] = 0)
    BY <1>1, <1>3 DEF OneAtATime
  <2>1. dead /\ repeatable[d] = 0
    BY <1>4, <1>6
  <2> QED
    BY <1>6, <1>7, <2>1 DEF DayOK, OneAtATime
<1> QED
  BY <1>5, <1>8, <1>9, <1>10, <1>11, OtherDays DEF DayOK

-----------------------------------------------------------------------------
\* The rows of runs and of e-mails name each other.
LEMMA SameLinks ==
    ASSUME LinksInv, \A d \in Reported : log[d] # "none" => log'[d] # "none",
           UNCHANGED <<ticker, claimed, runVars>>
    PROVE  LinksInv'
BY DEF LinksInv, LinkedOnce, Claiming, Linking, Dispatching, runVars

\* A ticker that neither claims nor queues nor links, before or after its step.
LEMMA OtherTick ==
    ASSUME LinksInv, NEW w \in Tickers, \A v \in Tickers \ {w} : ticker'[v] = ticker[v],
           ticker[w].pc \in {"idle", "find"}, ticker'[w].pc \in {"idle", "find", "claim"},
           UNCHANGED <<log, claimed, runVars>>
    PROVE  LinksInv'
<1>1. \A d : Claiming(d)' = Claiming(d) /\ Linking(d)' = Linking(d)
  BY DEF Claiming, Linking, Dispatching
<1> QED
  BY <1>1 DEF LinksInv, LinkedOnce, runVars

LEMMA LinksStep ==
    ASSUME ReportInv, LinksInv, ReportNext
    PROVE  LinksInv'
<1>1. CASE HourPasses
  BY <1>1, SameLinks DEF HourPasses
<1>2. ASSUME NEW h, SetPreference(h) PROVE LinksInv'
  BY <1>2, SameLinks DEF SetPreference
<1>3. ASSUME NEW w \in Tickers, StartTick(w) \/ FindEligible(w) PROVE LinksInv'
  <2>1. /\ \A v \in Tickers \ {w} : ticker'[v] = ticker[v]
        /\ ticker[w].pc \in {"idle", "find"} /\ ticker'[w].pc \in {"idle", "find", "claim"}
    BY <1>3 DEF StartTick, FindEligible, ReportInv, ReportTypes, Ticks, Resting
  <2>2. UNCHANGED <<log, claimed, runVars>>
    BY <1>3 DEF StartTick, FindEligible
  <2> QED
    BY <2>1, <2>2, OtherTick
<1>4. ASSUME NEW w \in Tickers, Claim(w) PROVE LinksInv'
  <2> DEFINE day == DayOf(ticker[w].now)
  <2>1. /\ \A v \in Tickers \ {w} : ticker'[v] = ticker[v]
        /\ ticker[w].pc = "claim"
        /\ IF day \in claimed THEN ticker'[w].pc = "idle"
                              ELSE ticker'[w].pc = "recipient" /\ ticker'[w].now = ticker[w].now
    BY <1>4 DEF Claim, ReportInv, ReportTypes, Ticks, Resting
  <2>2. claimed' = claimed \cup {day} /\ UNCHANGED <<log, runVars>>
    BY <1>4 DEF Claim
  <2>3. ASSUME NEW d \in Reported PROVE LinkedOnce(d)'
    <3>1. Linking(d)' = Linking(d) /\ Claiming(d) \subseteq Claiming(d)'
      BY <2>1 DEF Linking, Claiming, Dispatching
    <3>2. d \in claimed' => d \in claimed \/ w \in Claiming(d)'
      BY <2>1, <2>2 DEF Claiming, Dispatching
    <3> QED
      BY <2>2, <3>1, <3>2 DEF LinksInv, LinkedOnce, runVars
  <2> QED
    BY <2>3 DEF LinksInv
<1>5. ASSUME NEW w \in Tickers, NEW found \in BOOLEAN, FindRecipient(w, found) PROVE LinksInv'
  <2> DEFINE day == DayOf(ticker[w].now)
  <2>1. /\ \A v \in Tickers \ {w} : ticker'[v] = ticker[v]
        /\ ticker[w].pc = "recipient"
        /\ IF found THEN ticker'[w].pc = "queue" /\ ticker'[w].now = ticker[w].now
                    ELSE ticker'[w].pc = "idle"
    BY <1>5 DEF FindRecipient, ReportInv, ReportTypes, Ticks, Resting
  <2>2. /\ unreached' = IF found THEN unreached ELSE unreached \cup {day}
        /\ UNCHANGED <<log, claimed, linked, cut>>
    BY <1>5 DEF FindRecipient
  <2>3. ASSUME NEW d \in Reported PROVE LinkedOnce(d)'
    <3>1. Linking(d)' = Linking(d)
      BY <2>1 DEF Linking
    <3>2. Claiming(d) = {} \/ Claiming(d)' # {} \/ d \in unreached'
      BY <2>1, <2>2 DEF Claiming, Dispatching
    <3> QED
      BY <2>2, <3>1, <3>2 DEF LinksInv, LinkedOnce
  <2> QED
    BY <2>3 DEF LinksInv
<1>6. ASSUME NEW w \in Tickers, NEW enabled \in BOOLEAN, NEW accepted \in BOOLEAN,
             QueueEmail(w, enabled, accepted)
      PROVE  LinksInv'
  <2> DEFINE day == DayOf(ticker[w].now)
  <2>1. /\ \A v \in Tickers \ {w} : ticker'[v] = ticker[v]
        /\ ticker[w].pc = "queue" /\ ticker'[w].pc = "link" /\ ticker'[w].now = ticker[w].now
    BY <1>6 DEF QueueEmail, ReportInv, ReportTypes, Ticks
  <2>2. /\ \A d \in Reported : log'[d] = IF d = day THEN IF enabled THEN "QUEUED" ELSE "SKIPPED" ELSE log[d]
        /\ UNCHANGED <<claimed, runVars>>
    BY <1>6 DEF QueueEmail, ReportInv, ReportTypes
  <2>3. ASSUME NEW d \in Reported PROVE LinkedOnce(d)'
    <3>1. Linking(d) \subseteq Linking(d)' /\ (Linking(d)' # {} => Linking(d) # {} \/ d = day)
      BY <2>1 DEF Linking
    <3>2. Claiming(d) = {} \/ Claiming(d)' # {} \/ Linking(d)' # {}
      BY <2>1 DEF Claiming, Dispatching, Linking
    <3> QED
      BY <2>2, <3>1, <3>2 DEF LinksInv, LinkedOnce, runVars
  <2> QED
    BY <2>3 DEF LinksInv
<1>7. ASSUME NEW w \in Tickers, LinkLog(w) PROVE LinksInv'
  <2> DEFINE day == DayOf(ticker[w].now)
  <2>1. /\ \A v \in Tickers \ {w} : ticker'[v] = ticker[v]
        /\ ticker[w].pc = "link" /\ ticker'[w].pc = "idle"
    BY <1>7 DEF LinkLog, ReportInv, ReportTypes, Resting
  <2>2. linked' = linked \cup {day} /\ UNCHANGED <<log, claimed, unreached, cut>>
    BY <1>7 DEF LinkLog
  <2>3. ASSUME NEW d \in Reported PROVE LinkedOnce(d)'
    <3>1. Claiming(d)' = Claiming(d) /\ Linking(d)' \subseteq Linking(d)
      BY <2>1 DEF Claiming, Dispatching, Linking
    <3>2. d \in linked' => d \in linked \/ Linking(d) # {}
      BY <2>1, <2>2 DEF Linking
    <3>3. Linking(d) = {} \/ Linking(d)' # {} \/ d \in linked'
      BY <2>1, <2>2 DEF Linking
    <3> QED
      BY <2>2, <3>1, <3>2, <3>3 DEF LinksInv, LinkedOnce
  <2> QED
    BY <2>3 DEF LinksInv
<1>8. ASSUME NEW w \in Tickers, NEW how, TickFails(w, how) PROVE LinksInv'
  <2>1. UNCHANGED <<log, claimed, linked, unreached>> /\ cut \subseteq cut'
    BY <1>8 DEF TickFails
  <2>2. CASE how = "stalls"
    BY <1>8, <2>1, <2>2 DEF TickFails, LinksInv, LinkedOnce, Claiming, Linking, Dispatching
  <2>3. CASE how # "stalls"
    <3>1. /\ \A v \in Tickers \ {w} : ticker'[v] = ticker[v]
          /\ ticker'[w].pc = "idle"
          /\ Dispatching(w) \/ ticker[w].pc = "link" => DayOf(ticker[w].now) \in cut'
      BY <1>8, <2>3 DEF TickFails, ReportInv, ReportTypes, Resting, Dispatching
    <3>2. ASSUME NEW d \in Reported PROVE LinkedOnce(d)'
      <4>1. Linking(d)' \subseteq Linking(d)
        BY <3>1 DEF Linking
      <4>2. Claiming(d) # {} \/ Linking(d) # {} =>
              Claiming(d)' # {} \/ Linking(d)' # {} \/ d \in cut'
        BY <3>1 DEF Claiming, Dispatching, Linking
      <4> QED
        BY <2>1, <4>1, <4>2 DEF LinksInv, LinkedOnce
    <3> QED
      BY <3>2 DEF LinksInv
  <2> QED
    BY <2>2, <2>3
<1>9. ASSUME NEW m \in Mailers,
             \/ \E d \in Reported : StartMail(m, d)
             \/ \E a \in {"accepted", "refused", "rejected", "unheard"} : SendMail(m, a)
             \/ RecordOutcome(m) \/ NoteOutcome(m) \/ MailThrows(m)
             \/ \E dead \in BOOLEAN : MailStalls(m, dead)
      PROVE  LinksInv'
  <2>1. UNCHANGED <<ticker, claimed, runVars>>
    BY <1>9 DEF StartMail, SendMail, RecordOutcome, NoteOutcome, MailThrows, MailStalls, tickVars
  <2>2. \A d \in Reported : log[d] # "none" => log'[d] # "none"
    BY <1>9 DEF StartMail, SendMail, RecordOutcome, NoteOutcome, MailThrows, MailStalls,
                ReportInv, ReportTypes
  <2> QED
    BY <2>1, <2>2, SameLinks
<1> QED
  BY <1>1, <1>2, <1>3, <1>4, <1>5, <1>6, <1>7, <1>8, <1>9 DEF ReportNext

LEMMA ReportStep ==
    ASSUME ReportInv, ReportNext
    PROVE  ReportInv'
<1>t. ReportTypes'
  BY ReportStepTypes DEF ReportInv
<1>1. CASE HourPasses
  BY <1>1, <1>t, TickStep DEF ReportInv, HourPasses, Claiming, Dispatching, mailVars, runVars
<1>2. ASSUME NEW h, SetPreference(h) PROVE ReportInv'
  BY <1>2, <1>t, TickStep DEF ReportInv, SetPreference, Claiming, Dispatching, mailVars, runVars
<1>3. ASSUME NEW w \in Tickers, StartTick(w) \/ FindEligible(w) \/ LinkLog(w) PROVE ReportInv'
  <2>1. /\ \A v \in Tickers \ {w} : ticker'[v] = ticker[v]
        /\ ticker[w].pc \in {"idle", "find", "link"} /\ ticker'[w].pc \in {"idle", "find", "claim"}
    BY <1>3 DEF StartTick, FindEligible, LinkLog, ReportInv, ReportTypes, Ticks, Resting
  <2>2. \A d \in Reported : Claiming(d)' = Claiming(d)
    BY <2>1 DEF Claiming, Dispatching
  <2>3. UNCHANGED <<log, mailJob, mailVars, claimed, unreached, abandoned>>
    BY <1>3 DEF StartTick, FindEligible, LinkLog, runVars
  <2> QED
    BY <1>t, <2>2, <2>3, TickStep DEF ReportInv
<1>4. ASSUME NEW w \in Tickers, Claim(w) PROVE ReportInv'
  BY <1>4, <1>t, ClaimStep DEF ReportInv
<1>13. ASSUME NEW w \in Tickers, NEW found \in BOOLEAN, FindRecipient(w, found) PROVE ReportInv'
  BY <1>13, <1>t, FindRecipientStep DEF ReportInv
<1>5. ASSUME NEW w \in Tickers, NEW enabled \in BOOLEAN, NEW accepted \in BOOLEAN,
             QueueEmail(w, enabled, accepted)
      PROVE  ReportInv'
  BY <1>5, <1>t, QueueStep DEF ReportInv
<1>6. ASSUME NEW w \in Tickers, NEW how, TickFails(w, how) PROVE ReportInv'
  BY <1>6, <1>t, TickFailsStep DEF ReportInv
<1>7. ASSUME NEW m \in Mailers, NEW d \in Reported, StartMail(m, d) PROVE ReportInv'
  BY <1>7, <1>t, StartMailStep DEF ReportInv
<1>8. ASSUME NEW m \in Mailers, NEW a \in {"accepted", "refused", "rejected", "unheard"}, SendMail(m, a)
      PROVE  ReportInv'
  BY <1>8, <1>t, SendMailStep DEF ReportInv
<1>9. ASSUME NEW m \in Mailers, RecordOutcome(m) PROVE ReportInv'
  BY <1>9, <1>t, RecordOutcomeStep DEF ReportInv
<1>10. ASSUME NEW m \in Mailers, NoteOutcome(m) PROVE ReportInv'
  BY <1>10, <1>t, NoteOutcomeStep DEF ReportInv
<1>11. ASSUME NEW m \in Mailers, MailThrows(m) PROVE ReportInv'
  <2> PICK d \in Reported : d = mailer[m].day
    BY <1>11 DEF MailThrows, ReportInv, ReportTypes
  <2>1. log' = log
    BY <1>11 DEF MailThrows
  <2> QED
    BY <1>11, <1>t, <2>1, LeaveStep DEF MailThrows, ReportInv
<1>12. ASSUME NEW m \in Mailers, NEW dead \in BOOLEAN, MailStalls(m, dead) PROVE ReportInv'
  BY <1>12, <1>t, MailStallsStep DEF ReportInv
<1> QED
  BY <1>1, <1>2, <1>3, <1>4, <1>5, <1>6, <1>7, <1>8, <1>9, <1>10, <1>11, <1>12, <1>13
  DEF ReportNext

LEMMA ReportConsequence ==
    ASSUME ReportInv, LinksInv
    PROVE  ReportSentOnce
<1> SUFFICES ASSUME NEW d \in Reported
             PROVE  /\ sent[d] <= 1 + repeatable[d]
                    /\ sent[d] > 0 \/ log[d] # "none" => d \in claimed
                    /\ log[d] = "SENT" => sent[d] > 0
                    /\ log[d] \in {"FAILED", "SKIPPED"} => sent[d] = 0 \/ repeatable[d] > 0
                    /\ d \in unreached => d \in claimed /\ log[d] = "none" /\ ~UnderWay(d)
                    /\ d \in linked => log[d] # "none"
                    /\ d \in claimed \ unreached /\ ~UnderWay(d) =>
                         /\ log[d] \in {"SENT", "FAILED", "SKIPPED"} \/ d \in abandoned \/ repeatable[d] > 0
                         /\ d \in linked \/ d \in cut
  BY DEF ReportSentOnce
<1>1. /\ DayOK(d) /\ LinkedOnce(d) /\ sent[d] \in Nat /\ repeatable[d] \in Nat
      /\ Waits(d) \in {0, 1} /\ Cardinality(Unheard(d)) \in Nat /\ mailJob[d] \in Jobs
  BY Counting, UnheardAreMailers DEF ReportInv, LinksInv, ReportTypes, Waits
<1>2. sent[d] <= 1 + repeatable[d]
  BY <1>1 DEF DayOK, FewSent
<1>3. sent[d] > 0 \/ log[d] # "none" => d \in claimed
  BY <1>1 DEF DayOK, ClaimedOnce
<1>4. log[d] \in {"FAILED", "SKIPPED"} => sent[d] = 0 \/ repeatable[d] > 0
  BY <1>1 DEF DayOK, ClaimedOnce, OneAtATime
<1>5. d \in linked => log[d] # "none"
  BY <1>1 DEF LinkedOnce
<1>6. ASSUME d \in unreached PROVE d \in claimed /\ log[d] = "none" /\ ~UnderWay(d)
  <2>1. d \in claimed /\ log[d] = "none" /\ mailJob[d] = "none" /\ Claiming(d) = {} /\ Busy(d) = {}
    BY <1>1, <1>6 DEF DayOK, ClaimedOnce
  <2>2. Linking(d) = {}
    BY <1>1, <2>1 DEF LinkedOnce
  <2> QED
    BY <2>1, <2>2 DEF UnderWay, Claiming, Linking, Busy
<1>7. ASSUME d \in claimed \ unreached, ~UnderWay(d)
      PROVE  /\ log[d] \in {"SENT", "FAILED", "SKIPPED"} \/ d \in abandoned \/ repeatable[d] > 0
             /\ d \in linked \/ d \in cut
  <2>1. Claiming(d) = {} /\ Linking(d) = {} /\ mailJob[d] \in {"none", "done", "failed"}
    BY <1>1, <1>7 DEF UnderWay, Claiming, Linking, Jobs
  <2>2. log[d] \in {"SENT", "FAILED", "SKIPPED"} \/ d \in abandoned \/ repeatable[d] > 0
    BY <1>1, <1>7, <2>1 DEF DayOK, ClaimedOnce, OneAtATime
  <2>3. d \in linked \/ d \in cut
    BY <1>1, <1>7, <2>1 DEF LinkedOnce
  <2> QED
    BY <2>2, <2>3
<1> QED
  BY <1>1, <1>2, <1>3, <1>4, <1>5, <1>6, <1>7 DEF DayOK, AnswersKept

\* report-dispatch.service.ts:36-39: for any number of ticks, workers, hours, attempts and
\* faults, a day is claimed once and its report sent once, but for jobs that were run again
\* after the provider may have accepted it, and the rows tell what became of it; a day whose
\* tick found no active user or no workspace has no e-mail, and no later tick sends one.
THEOREM ReportsAreSentOnce == ReportSpec => []ReportSentOnce
<1> DEFINE Inv == ReportInv /\ LinksInv
<1>1. ReportInit => Inv
  <2> SUFFICES ASSUME ReportInit PROVE LinksInv
    BY InitReport
  <2> QED
    BY DEF ReportInit, LinksInv, LinkedOnce, Linking, Resting
<1>2. Inv /\ [ReportNext]_reportVars => Inv'
  <2> SUFFICES ASSUME ReportInv, LinksInv, [ReportNext]_reportVars PROVE Inv'
    OBVIOUS
  <2>1. CASE ReportNext
    BY <2>1, ReportStep, LinksStep
  <2>2. CASE UNCHANGED reportVars
    <3>1. ReportTypes'
      BY <2>2 DEF ReportInv, ReportTypes, reportVars, tickVars, mailVars
    <3>2. ReportInv'
      BY <2>2, <3>1, TickStep DEF ReportInv, reportVars, tickVars, runVars, mailVars, Claiming, Dispatching
    <3>3. LinksInv'
      BY <2>2, SameLinks DEF reportVars, tickVars
    <3> QED
      BY <3>2, <3>3
  <2> QED
    BY <2>1, <2>2
<1>3. Inv => ReportSentOnce
  BY ReportConsequence
<1> HIDE DEF Inv
<1> QED
  BY <1>1, <1>2, <1>3, PTL DEF ReportSpec
=============================================================================
