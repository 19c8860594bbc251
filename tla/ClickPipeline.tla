------------------------------ MODULE ClickPipeline ------------------------------
(***************************************************************************)
(* Clicks of one link on one day, from the redirect to the row, the daily  *)
(* counter and link.clicked (ClickEventProducer, ClickEventProcessor).  A  *)
(* click's classification and attribution are left out; they are pure, but *)
(* for one read.  What link.clicked sets off is in WebhookDelivery.        *)
(***************************************************************************)
EXTENDS Integers, FiniteSets

CONSTANTS
    Clicks, ClickWorkers, NoClick,
    NativeUpsert,      \* does the database client turn upsert into ON CONFLICT, or into a
                       \* read and then an insert?
    ClickAttempts,     \* attempts of the queue's jobs
    MaxClickFaults     \* bound: exceptions, deaths and stalls

ASSUME ClickConstants ==
    /\ NoClick \notin Clicks
    /\ NativeUpsert \in BOOLEAN
    /\ IsFiniteSet(ClickWorkers)
    /\ ClickAttempts \in Nat \ {0} /\ MaxClickFaults \in Nat

VARIABLES
    clickJob,      \* the job of a click in the queue
    tries,         \* its failed attempts
    clickWorker,   \* the next await, the click, and whether the day had a counter when read
    rows,          \* ClickEvent rows
    stat,          \* LinkDailyStat.totalClicks, 0 if there is no row
    told,          \* link.clicked events of a click
    dropped,       \* history: clicks refused because of the counter's row
    clickFaults

clickVars == <<clickJob, tries, clickWorker, rows, stat, told, dropped, clickFaults>>

Unemployed == [pc |-> "idle", click |-> NoClick, counted |-> FALSE]

ClickInit ==
    /\ clickJob = [c \in Clicks |-> "none"] /\ tries = [c \in Clicks |-> 0]
    /\ clickWorker = [w \in ClickWorkers |-> Unemployed]
    /\ rows = {} /\ stat = 0 /\ told = [c \in Clicks |-> 0]
    /\ dropped = {} /\ clickFaults = 0

-----------------------------------------------------------------------------
\* enqueue, in a redirect that does not wait for it; accepted is false if Redis fails.
Redirected(c, accepted) ==
    /\ clickJob[c] = "none"
    /\ clickJob' = [clickJob EXCEPT ![c] = IF accepted THEN "waiting" ELSE "refused"]
    /\ UNCHANGED <<tries, clickWorker, rows, stat, told, dropped, clickFaults>>

StartClick(w, c) ==
    /\ clickWorker[w].pc = "idle" /\ clickJob[c] = "waiting"
    /\ clickJob' = [clickJob EXCEPT ![c] = "active"]
    /\ clickWorker' = [clickWorker EXCEPT ![w] = [Unemployed EXCEPT !.pc = "open", !.click = c]]
    /\ UNCHANGED <<tries, rows, stat, told, dropped, clickFaults>>

\* The transaction begins and looks for the day's counter.
OpenTransaction(w) ==
    /\ clickWorker[w].pc = "open"
    /\ clickWorker' = [clickWorker EXCEPT ![w].pc = "commit", ![w].counted = stat > 0]
    /\ UNCHANGED <<clickJob, tries, rows, stat, told, dropped, clickFaults>>

\* The job has ended well, unless the queue has given it to somebody else meanwhile.
Complete(w) ==
    LET c == clickWorker[w].click IN
    /\ clickWorker' = [clickWorker EXCEPT ![w] = Unemployed]
    /\ clickJob' = IF clickJob[c] = "active" THEN [clickJob EXCEPT ![c] = "done"] ELSE clickJob

\* Mutant: the row exists already, and the day is counted again.
CommitAgain(w) ==
    LET c == clickWorker[w].click IN
    /\ clickWorker[w].pc = "commit"
    /\ rows' = rows \cup {c}
    /\ stat' = stat + 1
    /\ clickWorker' = [clickWorker EXCEPT ![w].pc = "tell"]
    /\ UNCHANGED <<clickJob, tries, told, dropped, clickFaults>>

\* A row with the click's id, or else a counter that was not there when it was looked for,
\* is a unique violation: both are taken for a click that was already recorded.
Commit(w) ==
    LET c == clickWorker[w].click
        recorded == c \in rows
        collides == ~NativeUpsert /\ ~clickWorker[w].counted /\ stat > 0 IN
    /\ clickWorker[w].pc = "commit"
    /\ IF recorded \/ collides
       THEN /\ Complete(w)
            /\ dropped' = IF recorded THEN dropped ELSE dropped \cup {c}
            /\ UNCHANGED <<rows, stat>>
       ELSE /\ rows' = rows \cup {c}
            /\ stat' = stat + 1
            /\ clickWorker' = [clickWorker EXCEPT ![w].pc = "tell"]
            /\ UNCHANGED <<clickJob, dropped>>
    /\ UNCHANGED <<tries, told, clickFaults>>

\* webhookEvents.emit
Tell(w) ==
    /\ clickWorker[w].pc = "tell"
    /\ told' = [told EXCEPT ![clickWorker[w].click] = @ + 1]
    /\ Complete(w)
    /\ UNCHANGED <<tries, rows, stat, dropped, clickFaults>>

\* An await throws: the queue tries again, up to ClickAttempts times.
Throws(w) ==
    LET c == clickWorker[w].click IN
    /\ clickWorker[w].pc # "idle" /\ clickFaults < MaxClickFaults
    /\ clickFaults' = clickFaults + 1
    /\ clickWorker' = [clickWorker EXCEPT ![w] = Unemployed]
    /\ tries' = [tries EXCEPT ![c] = @ + 1]
    /\ clickJob' = IF clickJob[c] # "active" THEN clickJob
                   ELSE [clickJob EXCEPT ![c] = IF tries[c] + 1 < ClickAttempts THEN "waiting" ELSE "failed"]
    /\ UNCHANGED <<rows, stat, told, dropped>>

\* A worker dies, or only seems dead: its job is given out again while it goes on.
Stalls(w, dead) ==
    LET c == clickWorker[w].click IN
    /\ clickWorker[w].pc # "idle" /\ clickJob[c] = "active" /\ clickFaults < MaxClickFaults
    /\ clickFaults' = clickFaults + 1
    /\ clickWorker' = IF dead THEN [clickWorker EXCEPT ![w] = Unemployed] ELSE clickWorker
    /\ clickJob' = [clickJob EXCEPT ![c] = "waiting"]
    /\ UNCHANGED <<tries, rows, stat, told, dropped>>

ClickNext ==
    \/ \E c \in Clicks, accepted \in BOOLEAN : Redirected(c, accepted)
    \/ \E w \in ClickWorkers :
         \/ \E c \in Clicks : StartClick(w, c)
         \/ OpenTransaction(w)
         \/ Commit(w)
         \/ Tell(w)
         \/ Throws(w)
         \/ \E dead \in BOOLEAN : Stalls(w, dead)

ClickSpec == ClickInit /\ [][ClickNext]_clickVars

-----------------------------------------------------------------------------
\* click-event.processor.ts:34: whatever is run again or twice at a time, a click has one
\* row and is counted and told of at most once, and a job that ended well has recorded its
\* click.  Only on the day's first clicks can one be taken for recorded that is not, when
\* two workers look for the counter before either has made it: one less than the workers.
ClicksCountedOnce ==
    /\ stat = Cardinality(rows)
    /\ \A c \in Clicks :
         /\ told[c] <= IF c \in rows THEN 1 ELSE 0
         /\ clickJob[c] = "done" => c \in rows \cup dropped
    /\ NativeUpsert => dropped = {}
    /\ dropped # {} => Cardinality(dropped) < Cardinality(ClickWorkers)
=============================================================================
