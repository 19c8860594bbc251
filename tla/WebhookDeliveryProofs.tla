------------------------- MODULE WebhookDeliveryProofs -------------------------
(***************************************************************************)
(* The safety properties of WebhookDelivery for any endpoints, events and  *)
(* requests, any finite numbers of jobs and workers, and any number of     *)
(* attempts, retries and faults.                                           *)
(***************************************************************************)
EXTENDS WebhookDelivery, FiniteSetTheorems, TLAPS

AtWork == {"load", "refuse", "mark", "post", "succeed", "fail", "count", "disable", "complete"}
Asking == {"pause", "activate", "delete", "check", "reset", "enqueue"}

EndpointRows == [status: {"ACTIVE", "PAUSED", "DISABLED"}, deleted: BOOLEAN, failures: Nat]
DeliveryRows == [status: Statuses, attempts: Nat, refused: BOOLEAN]
JobRows == [state: {"free", "waiting", "active", "delayed"},
            of: Deliveries \cup {Nobody}, made: Nat, max: Nat, stalled: BOOLEAN]
Locals == [job: Jobs \cup {NoJob}, at: Endpoints \cup {Nobody}, of: Deliveries \cup {Nobody},
           outcome: {"none", "success", "retryable", "permanent"}]

\* A job is of a delivery and has attempts left, or its slot is free.
JobOK(j) == \/ job[j] = FreeJob
            \/ /\ job[j].state # "free" /\ job[j].of \in Deliveries
               /\ job[j].made < job[j].max /\ job[j].max <= MaxAttempts

\* A worker has the active job it was given, which is of the delivery it is at.
WorkerOK(w) ==
    /\ pc[w] \in AtWork \cup {"idle"}
    /\ pc[w] # "idle" =>
         /\ local[w].job \in Jobs /\ local[w].of \in Deliveries /\ local[w].at = local[w].of[1]
         /\ job[local[w].job].state = "active" /\ job[local[w].job].of = local[w].of

RequestOK(q) ==
    /\ pc[q] \in Asking \cup {"idle"}
    /\ pc[q] # "idle" => local[q].at \in Endpoints
    /\ pc[q] \in {"check", "reset", "enqueue"} => local[q].of \in Deliveries

\* Nobody else has that job.
OneWorkerPerJob ==
    \A v, w \in Workers :
        pc[v] # "idle" /\ pc[w] # "idle" /\ local[v].job = local[w].job => v = w

Held ==
    /\ TypeOK
    /\ \A j \in Jobs : JobOK(j)
    /\ \A w \in Workers : WorkerOK(w)
    /\ \A q \in Requests : RequestOK(q)
    /\ OneWorkerPerJob

-----------------------------------------------------------------------------
LEMMA DeliveryOf == \A d \in Deliveries : d[1] \in Endpoints
BY DEF Deliveries

LEMMA HeldInit == Init => Held
<1> SUFFICES ASSUME Init PROVE Held
  OBVIOUS
<1>1. TypeOK
  BY WebhookBounds DEF Init, TypeOK, NoDelivery, Statuses, FreeJob, NoLocal
<1>2. ASSUME NEW j \in Jobs PROVE JobOK(j)
  BY DEF Init, JobOK
<1>3. ASSUME NEW h \in Handlers PROVE pc[h] = "idle"
  BY DEF Init
<1> QED
  BY <1>1, <1>2, <1>3 DEF Held, WorkerOK, RequestOK, OneWorkerPerJob, Handlers

\* Where a step leaves the handlers.
LEMMA GotoStep ==
    ASSUME TypeOK, NEW h \in Handlers, NEW label, NEW l, Goto(h, label, l)
    PROVE  /\ pc'[h] = label /\ local'[h] = l
           /\ \A g \in Handlers \ {h} : pc'[g] = pc[g] /\ local'[g] = local[g]
           /\ label \in AtWork \cup Asking \cup {"idle"} /\ l \in Locals =>
                /\ pc' \in [Handlers -> AtWork \cup Asking \cup {"idle"}]
                /\ local' \in [Handlers -> Locals]
BY DEF TypeOK, Goto, Locals, AtWork, Asking

\* The types, part by part.
LEMMA Types ==
    TypeOK <=> /\ endpoint \in [Endpoints -> EndpointRows]
               /\ delivery \in [Deliveries -> DeliveryRows]
               /\ emit \in [Events -> [state: {"new", "fanout"}, to: SUBSET Endpoints]]
               /\ job \in [Jobs -> JobRows]
               /\ pc \in [Handlers -> AtWork \cup Asking \cup {"idle"}]
               /\ local \in [Handlers -> Locals]
               /\ accepted \in SUBSET Deliveries /\ stranded \in SUBSET Deliveries
               /\ exhausted \in [Endpoints -> Nat]
               /\ retries \in Nat /\ faults \in 0..MaxFaults
BY DEF TypeOK, EndpointRows, DeliveryRows, JobRows, Locals, AtWork, Asking

LEMMA TypesNext ==
    ASSUME endpoint' \in [Endpoints -> EndpointRows], delivery' \in [Deliveries -> DeliveryRows],
           emit' \in [Events -> [state: {"new", "fanout"}, to: SUBSET Endpoints]],
           job' \in [Jobs -> JobRows],
           pc' \in [Handlers -> AtWork \cup Asking \cup {"idle"}], local' \in [Handlers -> Locals],
           accepted' \in SUBSET Deliveries, stranded' \in SUBSET Deliveries,
           exhausted' \in [Endpoints -> Nat], retries' \in Nat, faults' \in 0..MaxFaults
    PROVE  TypeOK'
BY DEF TypeOK, EndpointRows, DeliveryRows, JobRows, Locals, AtWork, Asking

\* A worker that moves on with its job.
LEMMA WorkerMoves ==
    ASSUME Held, NEW w \in Workers, pc[w] # "idle", NEW label \in AtWork \cup {"idle"}, NEW l \in Locals,
           Goto(w, label, l), label # "idle" => l.job = local[w].job /\ l.of = local[w].of /\ l.at = local[w].at,
           \A j \in Jobs : JobOK(j)', \A j \in Jobs \ {local[w].job} : job'[j] = job[j],
           label # "idle" => job' = job
    PROVE  /\ \A v \in Workers : WorkerOK(v)'
           /\ \A q \in Requests : RequestOK(q)'
           /\ OneWorkerPerJob'
<1>1. /\ pc'[w] = label /\ local'[w] = l
      /\ \A g \in Handlers \ {w} : pc'[g] = pc[g] /\ local'[g] = local[g]
  BY GotoStep DEF Held, Handlers
<1>2. \A q \in Requests : q \in Handlers \ {w}
  BY WebhookNames DEF Handlers
<1>3. \A q \in Requests : RequestOK(q)'
  BY <1>1, <1>2 DEF Held, RequestOK
<1>4. ASSUME NEW v \in Workers PROVE WorkerOK(v)'
  <2>1. CASE v = w
    BY <1>1, <2>1 DEF Held, WorkerOK
  <2>2. CASE v # w
    <3>1. pc'[v] = pc[v] /\ local'[v] = local[v]
      BY <1>1, <2>2 DEF Handlers
    <3>2. pc[v] # "idle" => local[v].job # local[w].job
      BY <2>2 DEF Held, OneWorkerPerJob
    <3> QED
      BY <3>1, <3>2 DEF Held, WorkerOK
  <2> QED
    BY <2>1, <2>2
<1>5. OneWorkerPerJob'
  BY <1>1 DEF Held, OneWorkerPerJob, Handlers
<1> QED
  BY <1>3, <1>4, <1>5

\* A request that moves on.
LEMMA RequestMoves ==
    ASSUME Held, NEW q \in Requests, NEW label \in Asking \cup {"idle"}, NEW l \in Locals,
           Goto(q, label, l), label # "idle" => l.at \in Endpoints,
           label \in {"check", "reset", "enqueue"} => l.of \in Deliveries,
           \A j \in Jobs : job[j] # FreeJob => job'[j] = job[j]
    PROVE  /\ \A w \in Workers : WorkerOK(w)'
           /\ \A r \in Requests : RequestOK(r)'
           /\ OneWorkerPerJob'
<1>1. /\ pc'[q] = label /\ local'[q] = l
      /\ \A g \in Handlers \ {q} : pc'[g] = pc[g] /\ local'[g] = local[g]
  BY GotoStep DEF Held, Handlers
<1>2. ASSUME NEW w \in Workers PROVE pc'[w] = pc[w] /\ local'[w] = local[w]
  BY <1>1, WebhookNames DEF Handlers
<1>3. \A r \in Requests : RequestOK(r)'
  BY <1>1 DEF Held, RequestOK, Handlers
<1>4. ASSUME NEW w \in Workers PROVE WorkerOK(w)'
  <2>1. pc[w] # "idle" => job[local[w].job] # FreeJob
    BY DEF Held, WorkerOK, FreeJob
  <2> QED
    BY <1>2, <2>1 DEF Held, WorkerOK
<1>5. OneWorkerPerJob'
  BY <1>2 DEF Held, OneWorkerPerJob
<1> QED
  BY <1>3, <1>4, <1>5

\* Nobody moves, and jobs that are had stay as they are.
LEMMA NobodyMoves ==
    ASSUME Held, UNCHANGED <<pc, local>>,
           \A j \in Jobs : job[j].state = "active" => job'[j] = job[j]
    PROVE  /\ \A w \in Workers : WorkerOK(w)'
           /\ \A r \in Requests : RequestOK(r)'
           /\ OneWorkerPerJob'
<1>1. \A w \in Workers : WorkerOK(w)'
  BY DEF Held, WorkerOK
<1>2. \A r \in Requests : RequestOK(r)'
  BY DEF Held, RequestOK
<1>3. OneWorkerPerJob'
  BY DEF Held, OneWorkerPerJob
<1> QED
  BY <1>1, <1>2, <1>3

\* Queue.add
LEMMA AddStep ==
    ASSUME Held, NEW d \in Deliveries, NEW max \in 1..MaxAttempts, Add(d, max) \/ AddFails(d)
    PROVE  /\ job' \in [Jobs -> JobRows] /\ \A j \in Jobs : JobOK(j)'
           /\ \A j \in Jobs : job[j] # FreeJob => job'[j] = job[j]
           /\ stranded' \in SUBSET Deliveries /\ faults' \in 0..MaxFaults /\ faults' >= faults
           /\ \/ /\ stranded' = stranded \cup {d} /\ job' = job /\ faults' = faults + 1
              \/ /\ stranded' = stranded /\ faults' = faults
                 /\ \E i \in Jobs : /\ job[i] = FreeJob
                                    /\ job'[i] = [state |-> "waiting", of |-> d, made |-> 0,
                                                  max |-> max, stalled |-> FALSE]
                                    /\ \A j \in Jobs \ {i} : job'[j] = job[j]
<1>t. max \in Nat /\ 0 < max /\ max <= MaxAttempts
  BY WebhookBounds
<1>1. CASE AddFails(d)
  <2>1. job' = job /\ stranded' = stranded \cup {d} /\ faults' = faults + 1 /\ faults' \in 0..MaxFaults
    BY <1>1, WebhookBounds DEF AddFails, Held, TypeOK
  <2>2. \A j \in Jobs : JobOK(j)'
    BY <2>1 DEF Held, JobOK
  <2> QED
    BY <2>1, <2>2, Types DEF Held
<1>2. CASE Add(d, max)
  <2> DEFINE i == CHOOSE j \in FreeJobs : TRUE
             new == [state |-> "waiting", of |-> d, made |-> 0, max |-> max, stalled |-> FALSE]
  <2>1. i \in Jobs /\ job[i].state = "free"
    BY <1>2 DEF Add, FreeJobs
  <2>2. job[i] = FreeJob
    BY <2>1 DEF Held, JobOK
  <2>3. job' = [job EXCEPT ![i] = new] /\ UNCHANGED <<stranded, faults>>
    BY <1>2 DEF Add
  <2>4. new \in JobRows /\ job \in [Jobs -> JobRows]
    BY <1>t, Types DEF JobRows, Held
  <2> HIDE DEF i
  <2>5. job'[i] = new /\ \A j \in Jobs \ {i} : job'[j] = job[j]
    BY <2>1, <2>3, <2>4
  <2>6. job' \in [Jobs -> JobRows]
    BY <2>3, <2>4
  <2>7. \A j \in Jobs : JobOK(j)'
    BY <1>t, <2>5 DEF Held, JobOK
  <2>8. stranded' \in SUBSET Deliveries /\ faults' \in 0..MaxFaults /\ faults' >= faults
    BY <2>3, WebhookBounds DEF Held, TypeOK
  <2> QED
    BY <2>1, <2>2, <2>3, <2>5, <2>6, <2>7, <2>8
<1> QED
  BY <1>1, <1>2

\* What a job becomes whose processor threw.
LEMMA FailedStep ==
    ASSUME Held, NEW j \in Jobs, job[j] # FreeJob, job' = [job EXCEPT ![j] = Failed(j)]
    PROVE  /\ job' \in [Jobs -> JobRows] /\ \A i \in Jobs : JobOK(i)'
           /\ \A i \in Jobs \ {j} : job'[i] = job[i]
           /\ \/ /\ Failed(j) = FreeJob /\ job'[j] = FreeJob
              \/ /\ Failed(j) # FreeJob /\ job'[j].state = "delayed" /\ job'[j].of = job[j].of
                 /\ job'[j].max = job[j].max /\ job'[j].made = job[j].made + 1
           /\ Failed(j) = FreeJob <=> job[j].made + 1 >= job[j].max
<1>1. job \in [Jobs -> JobRows] /\ job[j] \in JobRows /\ JobOK(j)
  BY Types DEF Held
<1>2. CASE job[j].made + 1 < job[j].max
  <2>1. Failed(j) = [job[j] EXCEPT !.state = "delayed", !.made = @ + 1]
    BY <1>2 DEF Failed
  <2>2. Failed(j) \in JobRows /\ Failed(j).state = "delayed" /\ Failed(j).of = job[j].of
        /\ Failed(j).max = job[j].max /\ Failed(j).made = job[j].made + 1
    <3>1. ASSUME NEW r \in JobRows
          PROVE  LET f == [r EXCEPT !.state = "delayed", !.made = @ + 1]
                 IN  /\ f \in JobRows /\ f.state = "delayed" /\ f.of = r.of
                     /\ f.max = r.max /\ f.made = r.made + 1
      <4>1. r.made + 1 \in Nat
        BY DEF JobRows
      <4> QED
        BY <4>1 DEF JobRows
    <3> QED
      BY <1>1, <2>1, <3>1
  <2>3. Failed(j) # FreeJob
    BY <2>2 DEF FreeJob
  <2>4. job'[j] = Failed(j) /\ \A i \in Jobs \ {j} : job'[i] = job[i]
    BY <1>1
  <2>5. job' \in [Jobs -> JobRows]
    BY <1>1, <2>2
  <2>6. job[j].of \in Deliveries /\ job[j].max <= MaxAttempts
    BY <1>1 DEF JobOK
  <2>7. \A i \in Jobs : JobOK(i)'
    BY <1>2, <2>2, <2>4, <2>6 DEF Held, JobOK
  <2> QED
    BY <1>1, <1>2, <2>2, <2>3, <2>4, <2>5, <2>7 DEF JobRows
<1>3. CASE ~(job[j].made + 1 < job[j].max)
  <2>1. Failed(j) = FreeJob /\ FreeJob \in JobRows
    BY <1>3 DEF Failed, FreeJob, JobRows
  <2>2. job'[j] = FreeJob /\ \A i \in Jobs \ {j} : job'[i] = job[i]
    BY <1>1, <2>1
  <2>3. job' \in [Jobs -> JobRows]
    BY <1>1, <2>1
  <2>4. \A i \in Jobs : JobOK(i)'
    BY <2>2 DEF Held, JobOK
  <2> QED
    BY <1>1, <1>3, <2>1, <2>2, <2>3, <2>4 DEF JobRows
<1> QED
  BY <1>2, <1>3

-----------------------------------------------------------------------------
LEMMA JobsKept ==
    ASSUME Held, UNCHANGED job
    PROVE  \A j \in Jobs : JobOK(j)'
BY DEF Held, JobOK

LEMMA HeldStutter ==
    ASSUME Held, UNCHANGED vars
    PROVE  Held'
<1>1. TypeOK'
  BY DEF Held, TypeOK, vars, rows
<1> QED
  BY <1>1, JobsKept, NobodyMoves DEF Held, vars, rows

\* emit and test events
LEMMA HeldEmit ==
    ASSUME Held, NEW v \in Events,
           \/ FindEndpoints(v) \/ EmitThrows(v)
           \/ \E e \in Endpoints : SendTestEvent(v, e) \/ FanOut(v, e)
    PROVE  Held'
<1> USE Types DEF Held
<1>1. CASE FindEndpoints(v) \/ EmitThrows(v) \/ \E e \in Endpoints : SendTestEvent(v, e)
  <2>1. UNCHANGED <<endpoint, delivery, job, accepted, exhausted, stranded, retries, pc, local>>
    BY <1>1 DEF FindEndpoints, EmitThrows, SendTestEvent
  <2>2. faults' \in 0..MaxFaults
    BY <1>1, WebhookBounds DEF FindEndpoints, EmitThrows, SendTestEvent
  <2>3. emit' \in [Events -> [state: {"new", "fanout"}, to: SUBSET Endpoints]]
    BY <1>1 DEF FindEndpoints, EmitThrows, SendTestEvent
  <2> QED
    <3>1. TypeOK'
      BY <2>1, <2>2, <2>3, TypesNext
    <3> QED
      BY <2>1, <3>1, JobsKept, NobodyMoves
<1>2. ASSUME NEW e \in Endpoints, FanOut(v, e) PROVE Held'
  <2>1. <<e, v>> \in Deliveries
    BY DEF Deliveries
  <2>2. MaxAttempts \in 1..MaxAttempts
    BY WebhookBounds
  <2>3. /\ job' \in [Jobs -> JobRows] /\ \A j \in Jobs : JobOK(j)'
        /\ \A j \in Jobs : job[j] # FreeJob => job'[j] = job[j]
        /\ stranded' \in SUBSET Deliveries /\ faults' \in 0..MaxFaults
    BY <1>2, <2>1, <2>2, AddStep DEF FanOut
  <2>4. \A j \in Jobs : job[j].state = "active" => job'[j] = job[j]
    BY <2>3 DEF FreeJob
  <2>5. emit' \in [Events -> [state: {"new", "fanout"}, to: SUBSET Endpoints]]
    BY <1>2 DEF FanOut
  <2>6. delivery' \in [Deliveries -> DeliveryRows]
    <3>1. [delivery[<<e, v>>] EXCEPT !.status = "PENDING"] \in DeliveryRows
      BY <2>1 DEF DeliveryRows, Statuses
    <3> QED
      BY <1>2, <2>1, <3>1 DEF FanOut
  <2>7. UNCHANGED <<endpoint, accepted, exhausted, retries, pc, local>>
    BY <1>2 DEF FanOut
  <2> QED
    <3>1. TypeOK'
      BY <2>3, <2>5, <2>6, <2>7, TypesNext
    <3> QED
      BY <2>3, <2>4, <2>7, <3>1, NobodyMoves
<1> QED
  BY <1>1, <1>2

LEMMA HeldTake ==
    ASSUME Held, NEW w \in Handlers, NEW j \in Jobs, Take(w, j)
    PROVE  Held'
<1> USE DEF Held
<1> DEFINE l == [NoLocal EXCEPT !.job = j, !.of = job[j].of, !.at = job[j].of[1]]
<1>1. w \in Workers /\ pc[w] = "idle" /\ job[j].state = "waiting" /\ job[j] \in JobRows
      /\ job' = [job EXCEPT ![j].state = "active"] /\ Goto(w, "load", l)
  BY Types DEF Take
<1>2. job[j].of \in Deliveries /\ job[j].made < job[j].max /\ job[j].max <= MaxAttempts
  BY <1>1 DEF JobOK, FreeJob
<1>3. l \in Locals /\ l.job = j /\ l.of = job[j].of /\ l.at = job[j].of[1]
  BY <1>2, DeliveryOf DEF NoLocal, Locals
<1> HIDE DEF l
<1>4. /\ pc'[w] = "load" /\ local'[w] = l
      /\ \A g \in Handlers \ {w} : pc'[g] = pc[g] /\ local'[g] = local[g]
      /\ pc' \in [Handlers -> AtWork \cup Asking \cup {"idle"}] /\ local' \in [Handlers -> Locals]
  BY <1>1, <1>3, GotoStep DEF AtWork
<1>5. /\ job' \in [Jobs -> JobRows] /\ \A i \in Jobs \ {j} : job'[i] = job[i]
      /\ job'[j].state = "active" /\ job'[j].of = job[j].of
      /\ job'[j].made = job[j].made /\ job'[j].max = job[j].max
  BY <1>1, Types DEF JobRows
<1>6. \A i \in Jobs : JobOK(i)'
  BY <1>2, <1>5 DEF JobOK
<1>7. \A v \in Workers : pc[v] # "idle" => local[v].job # j
  BY <1>1 DEF WorkerOK
<1>8. ASSUME NEW v \in Workers PROVE WorkerOK(v)'
  <2>1. CASE v = w
    BY <1>2, <1>3, <1>4, <1>5, <2>1 DEF WorkerOK, AtWork
  <2>2. CASE v # w
    <3>1. pc'[v] = pc[v] /\ local'[v] = local[v]
      BY <1>4, <2>2 DEF Handlers
    <3> QED
      BY <1>5, <1>7, <3>1 DEF WorkerOK
  <2> QED
    BY <2>1, <2>2
<1>9. \A q \in Requests : RequestOK(q)'
  BY <1>1, <1>4, WebhookNames DEF RequestOK, Handlers
<1>10. OneWorkerPerJob'
  BY <1>3, <1>4, <1>7 DEF OneWorkerPerJob, Handlers
<1>11. TypeOK'
  BY <1>4, <1>5, Types, TypesNext DEF Take
<1> QED
  BY <1>6, <1>8, <1>9, <1>10, <1>11

LEMMA HeldBackoff ==
    ASSUME Held, NEW j \in Jobs, BackoffEnds(j)
    PROVE  Held'
<1> USE DEF Held
<1>1. /\ job[j] \in JobRows /\ job[j].state = "delayed" /\ job \in [Jobs -> JobRows]
      /\ job' = [job EXCEPT ![j].state = "waiting"]
  BY Types DEF BackoffEnds
<1>2. /\ job' \in [Jobs -> JobRows] /\ \A i \in Jobs \ {j} : job'[i] = job[i]
      /\ job'[j].state = "waiting" /\ job'[j].of = job[j].of
      /\ job'[j].made = job[j].made /\ job'[j].max = job[j].max
  BY <1>1 DEF JobRows
<1>3. \A i \in Jobs : JobOK(i)'
  <2>1. job[j].of \in Deliveries /\ job[j].made < job[j].max /\ job[j].max <= MaxAttempts
    BY <1>1 DEF JobOK, FreeJob
  <2> QED
    BY <1>2, <2>1 DEF JobOK
<1>4. \A i \in Jobs : job[i].state = "active" => job'[i] = job[i]
  BY <1>1, <1>2
<1>5. TypeOK'
  BY <1>2, Types, TypesNext DEF BackoffEnds
<1> QED
  BY <1>3, <1>4, <1>5, NobodyMoves DEF BackoffEnds

\* A worker at its job: between two awaits it changes rows, not jobs.
LEMMA HeldWork ==
    ASSUME Held, NEW w \in Handlers,
           \/ Load(w) \/ Refuse(w) \/ MarkProcessing(w) \/ Post(w)
           \/ FinalizeSuccess(w) \/ FinalizeFailure(w) \/ CountFailure(w) \/ Disable(w)
    PROVE  Held'
<1> USE DEF Held
<1>1. pc[w] \in AtWork \ {"complete"} /\ w \in Workers
  <2>1. pc[w] \in AtWork \ {"complete"}
    BY DEF Load, Refuse, MarkProcessing, Post, FinalizeSuccess, FinalizeFailure, CountFailure, Disable, AtWork
  <2> QED
    BY <2>1 DEF RequestOK, Handlers, AtWork, Asking
<1>2. PICK label \in AtWork, outcome \in {"none", "success", "retryable", "permanent"} :
         Goto(w, label, [local[w] EXCEPT !.outcome = outcome])
  <2>1. local[w] \in Locals
    BY Types
  <2>2. local[w].outcome \in {"none", "success", "retryable", "permanent"}
        /\ local[w] = [local[w] EXCEPT !.outcome = local[w].outcome]
    BY <2>1 DEF Locals
  <2>3. CASE Post(w)
    BY <2>3 DEF Post, AtWork
  <2>4. CASE Load(w) \/ Refuse(w) \/ MarkProcessing(w) \/ FinalizeSuccess(w) \/ FinalizeFailure(w)
             \/ CountFailure(w) \/ Disable(w)
    <3>1. \E label \in AtWork : Goto(w, label, local[w])
      BY <2>4 DEF Load, Refuse, MarkProcessing, FinalizeSuccess, FinalizeFailure, CountFailure, Disable, AtWork
    <3> QED
      BY <2>2, <3>1
  <2> QED
    BY <2>3, <2>4
<1> DEFINE l == [local[w] EXCEPT !.outcome = outcome]
<1>3. l \in Locals /\ l.job = local[w].job /\ l.of = local[w].of /\ l.at = local[w].at
  <2>1. local[w] \in Locals
    BY Types
  <2> QED
    BY <2>1 DEF Locals
<1> HIDE DEF l
<1>4. job' = job /\ label # "idle" /\ label \in AtWork \cup Asking \cup {"idle"}
  BY DEF Load, Refuse, MarkProcessing, Post, FinalizeSuccess, FinalizeFailure, CountFailure, Disable,
         rows, AtWork
<1>5. Goto(w, label, l)
  BY <1>2 DEF l
<1>6. /\ \A v \in Workers : WorkerOK(v)'
      /\ \A q \in Requests : RequestOK(q)'
      /\ OneWorkerPerJob'
  <2>1. pc[w] # "idle"
    BY <1>1 DEF AtWork
  <2> QED
    BY <1>1, <1>3, <1>4, <1>5, <2>1, JobsKept, WorkerMoves
<1>7. pc' \in [Handlers -> AtWork \cup Asking \cup {"idle"}] /\ local' \in [Handlers -> Locals]
  BY <1>3, <1>4, <1>5, GotoStep
<1>8. local[w].of \in Deliveries /\ local[w].at \in Endpoints
  BY <1>1, DeliveryOf DEF WorkerOK, AtWork
<1>9. UNCHANGED <<emit, job, stranded, retries, faults>>
  BY DEF Load, Refuse, MarkProcessing, Post, FinalizeSuccess, FinalizeFailure, CountFailure, Disable, rows
<1>10. delivery' \in [Deliveries -> DeliveryRows]
  <2>1. delivery \in [Deliveries -> DeliveryRows] /\ delivery[local[w].of].attempts + 1 \in Nat
    BY <1>8, Types DEF DeliveryRows
  <2>2. CASE FinalizeSuccess(w)
    BY <1>8, <2>1, <2>2 DEF FinalizeSuccess, DeliveryRows, Statuses
  <2>3. CASE FinalizeFailure(w)
    <3> DEFINE row == [status |-> IF IsTerminal(w) THEN "EXHAUSTED" ELSE "FAILED",
                       attempts |-> delivery[local[w].of].attempts + 1, refused |-> FALSE]
    <3>1. row \in DeliveryRows
      BY <2>1 DEF DeliveryRows, Statuses
    <3>2. delivery' = [delivery EXCEPT ![local[w].of] = row]
      BY <2>3 DEF FinalizeFailure
    <3> QED
      BY <2>1, <3>1, <3>2
  <2>4. CASE Refuse(w)
    <3>1. [delivery[local[w].of] EXCEPT !.status = "FAILED", !.refused = TRUE] \in DeliveryRows
      BY <1>8, <2>1 DEF DeliveryRows, Statuses
    <3>2. delivery' = [delivery EXCEPT ![local[w].of] =
                         [delivery[local[w].of] EXCEPT !.status = "FAILED", !.refused = TRUE]]
      BY <1>8, <2>1, <2>4 DEF Refuse
    <3> QED
      BY <2>1, <3>1, <3>2
  <2>5. CASE MarkProcessing(w)
    <3>1. [delivery[local[w].of] EXCEPT !.status = "PROCESSING"] \in DeliveryRows
      BY <1>8, <2>1 DEF DeliveryRows, Statuses
    <3> QED
      BY <2>1, <2>5, <3>1 DEF MarkProcessing
  <2>6. CASE Load(w) \/ Post(w) \/ CountFailure(w) \/ Disable(w)
    BY <2>1, <2>6 DEF Load, Post, CountFailure, Disable, rows
  <2> QED
    BY <2>2, <2>3, <2>4, <2>5, <2>6
<1>11. endpoint' \in [Endpoints -> EndpointRows]
  <2>1. endpoint \in [Endpoints -> EndpointRows] /\ endpoint[local[w].at].failures + 1 \in Nat
    BY <1>8, Types DEF EndpointRows
  <2>2. \A n \in Nat : [endpoint[local[w].at] EXCEPT !.failures = n] \in EndpointRows
    BY <1>8, <2>1 DEF EndpointRows
  <2>3. [endpoint[local[w].at] EXCEPT !.status = "DISABLED"] \in EndpointRows
    BY <1>8, <2>1 DEF EndpointRows
  <2>4. CASE FinalizeSuccess(w)
    BY <2>1, <2>2, <2>4 DEF FinalizeSuccess
  <2>5. CASE CountFailure(w)
    BY <2>1, <2>2, <2>5 DEF CountFailure
  <2>6. CASE Disable(w)
    BY <2>1, <2>3, <2>6 DEF Disable
  <2>7. CASE Load(w) \/ Post(w) \/ FinalizeFailure(w) \/ Refuse(w) \/ MarkProcessing(w)
    BY <2>1, <2>7 DEF Load, Post, FinalizeFailure, Refuse, MarkProcessing, rows
  <2> QED
    BY <2>4, <2>5, <2>6, <2>7
<1>12. accepted' \in SUBSET Deliveries
  BY <1>8, Types DEF Load, Refuse, MarkProcessing, Post, FinalizeSuccess, FinalizeFailure, CountFailure,
                     Disable, rows
<1>13. exhausted' \in [Endpoints -> Nat]
  <2>1. exhausted \in [Endpoints -> Nat] /\ exhausted[local[w].at] + 1 \in Nat
        /\ exhausted[local[w].at] + 0 \in Nat
    BY <1>8, Types
  <2>2. CASE FinalizeFailure(w)
    BY <2>1, <2>2 DEF FinalizeFailure
  <2>3. CASE ~FinalizeFailure(w)
    BY <2>1, <2>3 DEF Load, Refuse, MarkProcessing, Post, FinalizeSuccess, CountFailure, Disable, rows
  <2> QED
    BY <2>2, <2>3
<1>14. TypeOK'
  BY <1>7, <1>9, <1>10, <1>11, <1>12, <1>13, Types, TypesNext
<1> QED
  BY <1>6, <1>9, <1>14, JobsKept

\* A worker whose attempt ends, or is cut short.
LEMMA HeldEnd ==
    ASSUME Held, NEW w \in Handlers, Complete(w) \/ Throw(w) \/ Crash(w)
    PROVE  Held'
<1> USE DEF Held
<1>1. w \in Workers /\ pc[w] # "idle"
  BY DEF Complete, Throw, Crash, RequestOK, Handlers, Asking
<1> DEFINE j == local[w].job
<1>2. j \in Jobs /\ job[j].state = "active" /\ job[j].of \in Deliveries /\ job[j] # FreeJob
      /\ local[w].of = job[j].of /\ job[j].made < job[j].max /\ job[j].max <= MaxAttempts
  BY <1>1 DEF WorkerOK, JobOK, FreeJob
<1>3. /\ job' \in [Jobs -> JobRows] /\ \A i \in Jobs : JobOK(i)'
      /\ \A i \in Jobs \ {j} : job'[i] = job[i]
  <2>1. CASE job' = [job EXCEPT ![j] = Failed(j)]
    BY <1>2, <2>1, FailedStep
  <2>2. CASE job' = [job EXCEPT ![j] = FreeJob]
    <3>1. job \in [Jobs -> JobRows] /\ FreeJob \in JobRows
      BY Types DEF FreeJob, JobRows
    <3> QED
      BY <1>2, <2>2, <3>1 DEF JobOK
  <2>3. CASE job' = [job EXCEPT ![j].state = "waiting", ![j].stalled = TRUE]
    <3>1. job \in [Jobs -> JobRows] /\ job[j] \in JobRows
      BY <1>2, Types
    <3>2. /\ job' \in [Jobs -> JobRows] /\ \A i \in Jobs \ {j} : job'[i] = job[i]
          /\ job'[j].state = "waiting" /\ job'[j].of = job[j].of
          /\ job'[j].made = job[j].made /\ job'[j].max = job[j].max
      BY <1>2, <2>3, <3>1 DEF JobRows
    <3> QED
      BY <1>2, <3>2 DEF JobOK
  <2> QED
    BY <2>1, <2>2, <2>3 DEF Complete, Throw, Crash
<1>4. Goto(w, "idle", NoLocal) /\ NoLocal \in Locals
  BY DEF Complete, Throw, Crash, Return, NoLocal, Locals
<1>5. /\ \A v \in Workers : WorkerOK(v)'
      /\ \A q \in Requests : RequestOK(q)'
      /\ OneWorkerPerJob'
  BY <1>1, <1>3, <1>4, WorkerMoves
<1>6. pc' \in [Handlers -> AtWork \cup Asking \cup {"idle"}] /\ local' \in [Handlers -> Locals]
  BY <1>4, GotoStep
<1>7. stranded' \in SUBSET Deliveries /\ faults' \in 0..MaxFaults
  BY <1>2, Types, WebhookBounds DEF Complete, Throw, Crash
<1>8. UNCHANGED <<endpoint, delivery, emit, accepted, exhausted, retries>>
  BY DEF Complete, Throw, Crash
<1>9. TypeOK'
  BY <1>3, <1>6, <1>7, <1>8, Types, TypesNext
<1> QED
  BY <1>3, <1>5, <1>9

\* A request
LEMMA HeldAsk ==
    ASSUME Held, NEW q \in Handlers,
           \/ \E e \in Endpoints : AskPause(q, e) \/ AskActivate(q, e) \/ AskDelete(q, e)
           \/ \E d \in Deliveries : AskRetry(q, d)
    PROVE  Held'
<1> USE DEF Held
<1>1. PICK label \in Asking, e \in Endpoints, d \in Deliveries \cup {Nobody} :
         Found(q, e, label, d) /\ (label \in {"check", "reset", "enqueue"} => d \in Deliveries)
  BY DeliveryOf DEF AskPause, AskActivate, AskDelete, AskRetry, Asking
<1> DEFINE l == [NoLocal EXCEPT !.at = e, !.of = d]
<1>2. l \in Locals /\ l.at = e /\ l.of = d
  BY DEF NoLocal, Locals
<1>3. q \in Requests /\ Goto(q, label, l) /\ UNCHANGED <<rows, faults>>
  BY <1>1 DEF Found
<1> HIDE DEF l
<1>4. /\ \A w \in Workers : WorkerOK(w)'
      /\ \A r \in Requests : RequestOK(r)'
      /\ OneWorkerPerJob'
  BY <1>1, <1>2, <1>3, RequestMoves DEF rows
<1>5. pc' \in [Handlers -> AtWork \cup Asking \cup {"idle"}] /\ local' \in [Handlers -> Locals]
  BY <1>2, <1>3, GotoStep
<1>6. TypeOK'
  BY <1>3, <1>5, Types, TypesNext DEF rows
<1> QED
  BY <1>3, <1>4, <1>6, JobsKept DEF rows

LEMMA HeldRequest ==
    ASSUME Held, NEW q \in Handlers,
           \/ Pause(q) \/ Activate(q) \/ SoftDelete(q)
           \/ CheckRetryable(q) \/ ResetDelivery(q) \/ EnqueueRetry(q)
    PROVE  Held'
<1> USE DEF Held
<1>1. q \in Requests /\ pc[q] \in Asking /\ local[q].at \in Endpoints /\ local[q] \in Locals
      /\ (pc[q] \in {"check", "reset", "enqueue"} => local[q].of \in Deliveries)
  <2>1. pc[q] \in Asking
    BY DEF Pause, Activate, SoftDelete, CheckRetryable, ResetDelivery, EnqueueRetry, Asking
  <2>2. q \in Requests
    BY <2>1 DEF WorkerOK, Handlers, AtWork, Asking
  <2> QED
    BY <2>1, <2>2, Types DEF RequestOK, Asking
<1>2. PICK label \in Asking \cup {"idle"}, l \in Locals :
         /\ Goto(q, label, l) /\ (label # "idle" => l.at \in Endpoints)
         /\ (label \in {"check", "reset", "enqueue"} => l.of \in Deliveries)
  <2>1. NoLocal \in Locals
    BY DEF NoLocal, Locals
  <2>2. CASE Goto(q, "idle", NoLocal)
    BY <2>1, <2>2
  <2>3. CASE pc[q] \in {"check", "reset"} /\ \E label \in {"reset", "enqueue"} : Goto(q, label, local[q])
    BY <1>1, <2>3 DEF Asking
  <2> QED
    BY <2>2, <2>3 DEF Pause, Activate, SoftDelete, SetEndpoint, CheckRetryable, ResetDelivery, EnqueueRetry, Return
<1>3. /\ job' \in [Jobs -> JobRows] /\ \A j \in Jobs : JobOK(j)'
      /\ \A j \in Jobs : job[j] # FreeJob => job'[j] = job[j]
      /\ stranded' \in SUBSET Deliveries /\ faults' \in 0..MaxFaults
  <2>1. CASE EnqueueRetry(q)
    <3>1. 1 \in 1..MaxAttempts /\ local[q].of \in Deliveries
      BY <1>1, <2>1, WebhookBounds DEF EnqueueRetry
    <3> QED
      BY <2>1, <3>1, AddStep DEF EnqueueRetry
  <2>2. CASE ~EnqueueRetry(q)
    <3>1. UNCHANGED <<job, stranded, faults>>
      BY <2>2 DEF Pause, Activate, SoftDelete, SetEndpoint, CheckRetryable, ResetDelivery, rows
    <3> QED
      BY <3>1, Types, JobsKept
  <2> QED
    BY <2>1, <2>2
<1>4. /\ \A w \in Workers : WorkerOK(w)'
      /\ \A r \in Requests : RequestOK(r)'
      /\ OneWorkerPerJob'
  BY <1>1, <1>2, <1>3, RequestMoves
<1>5. pc' \in [Handlers -> AtWork \cup Asking \cup {"idle"}] /\ local' \in [Handlers -> Locals]
  BY <1>2, GotoStep
<1>6. endpoint' \in [Endpoints -> EndpointRows]
  <2>1. endpoint \in [Endpoints -> EndpointRows] /\ endpoint[local[q].at] \in EndpointRows
    BY <1>1, Types
  <2>2. \A r \in EndpointRows : /\ [r EXCEPT !.status = "PAUSED"] \in EndpointRows
                                /\ [r EXCEPT !.status = "ACTIVE", !.failures = 0] \in EndpointRows
                                /\ [r EXCEPT !.deleted = TRUE] \in EndpointRows
    BY DEF EndpointRows
  <2> QED
    BY <2>1, <2>2 DEF Pause, Activate, SoftDelete, SetEndpoint, CheckRetryable, ResetDelivery, EnqueueRetry, rows
<1>7. delivery' \in [Deliveries -> DeliveryRows]
  <2>1. \A r \in DeliveryRows : [r EXCEPT !.status = "PENDING"] \in DeliveryRows
    BY DEF DeliveryRows, Statuses
  <2>2. delivery \in [Deliveries -> DeliveryRows]
    BY Types
  <2> QED
    BY <1>1, <2>1, <2>2 DEF Pause, Activate, SoftDelete, SetEndpoint, CheckRetryable, ResetDelivery, EnqueueRetry, rows
<1>8. UNCHANGED <<emit, accepted, exhausted>> /\ retries' \in Nat
  BY Types DEF Pause, Activate, SoftDelete, SetEndpoint, CheckRetryable, ResetDelivery, EnqueueRetry, rows
<1>9. TypeOK'
  BY <1>3, <1>5, <1>6, <1>7, <1>8, TypesNext, Types
<1> QED
  BY <1>3, <1>4, <1>9

LEMMA HeldStep == Held /\ [Next]_vars => Held'
BY HeldStutter, HeldEmit, HeldTake, HeldBackoff, HeldWork, HeldEnd, HeldAsk, HeldRequest DEF Next, Continue

LEMMA AlwaysHeld == Spec => []Held
BY HeldInit, HeldStep, PTL DEF Spec

\* Rows, jobs and handlers are of their kind, however many requests retry at once.
THEOREM TypeCorrect == Spec => []TypeOK
<1>1. Held => TypeOK
  BY DEF Held
<1> QED
  BY <1>1, AlwaysHeld, PTL

-----------------------------------------------------------------------------
(***************************************************************************)
(* What an attempt reports of the answer it got.                           *)
(***************************************************************************)
Truthful ==
    /\ \A w \in Workers : pc[w] = "succeed" => local[w].of \in accepted
    /\ DeliveredWasAccepted

LEMMA TruthfulInit == Init => Truthful
BY DEF Init, Truthful, DeliveredWasAccepted, NoDelivery, Handlers

\* No worker comes to report a success, and no row to say so.
LEMMA NothingClaimed ==
    ASSUME Truthful, accepted \subseteq accepted',
           \A w \in Workers : pc'[w] = "succeed" => pc[w] = "succeed" /\ local'[w] = local[w],
           \A d \in Deliveries : delivery'[d].status = "DELIVERED" => delivery[d].status = "DELIVERED"
    PROVE  Truthful'
BY DEF Truthful, DeliveredWasAccepted

\* Where a handler goes that does not post.
LEMMA NotToSucceed ==
    ASSUME Held, NEW h \in Handlers, NEW label, NEW l, Goto(h, label, l), label # "succeed"
    PROVE  \A w \in Workers : pc'[w] = "succeed" => pc[w] = "succeed" /\ local'[w] = local[w]
BY GotoStep DEF Held, Handlers

\* A row that is written, and by whom it says DELIVERED.
LEMMA RowWritten ==
    ASSUME Held, NEW d \in Deliveries, NEW r,
           delivery' = [delivery EXCEPT ![d] = r]
    PROVE  /\ delivery'[d] = r /\ \A c \in Deliveries \ {d} : delivery'[c] = delivery[c]
BY DEF Held, TypeOK

LEMMA TruthfulStep == Held /\ Truthful /\ [Next]_vars => Truthful'
<1> SUFFICES ASSUME Held, Truthful, [Next]_vars PROVE Truthful'
  OBVIOUS
<1>1. CASE UNCHANGED vars
  BY <1>1, NothingClaimed DEF vars, rows
<1>2. ASSUME NEW v \in Events, FindEndpoints(v) \/ EmitThrows(v) \/ \E e \in Endpoints : SendTestEvent(v, e)
      PROVE  Truthful'
  BY <1>2, NothingClaimed DEF FindEndpoints, EmitThrows, SendTestEvent
<1>3. ASSUME NEW v \in Events, NEW e \in Endpoints, FanOut(v, e) PROVE Truthful'
  <2>1. <<e, v>> \in Deliveries
    BY DEF Deliveries
  <2>2. \A d \in Deliveries : delivery'[d].status = "DELIVERED" => delivery[d].status = "DELIVERED"
    <3>1. delivery' = [delivery EXCEPT ![<<e, v>>] = [delivery[<<e, v>>] EXCEPT !.status = "PENDING"]]
      BY <1>3, <2>1 DEF FanOut
    <3>2. [delivery[<<e, v>>] EXCEPT !.status = "PENDING"].status = "PENDING"
      BY <2>1, Types DEF Held, DeliveryRows
    <3> QED
      BY <2>1, <3>1, <3>2, RowWritten
  <2> QED
    BY <1>3, <2>2, NothingClaimed DEF FanOut
<1>4. ASSUME NEW h \in Handlers, NEW j \in Jobs, Take(h, j) PROVE Truthful'
  BY <1>4, NotToSucceed, NothingClaimed DEF Take
<1>5. ASSUME NEW j \in Jobs, BackoffEnds(j) PROVE Truthful'
  BY <1>5, NothingClaimed DEF BackoffEnds
<1>6. ASSUME NEW h \in Handlers, Complete(h) \/ Throw(h) \/ Crash(h) PROVE Truthful'
  BY <1>6, NotToSucceed, NothingClaimed DEF Complete, Throw, Crash, Return
<1>7. ASSUME NEW h \in Handlers,
             \/ \E e \in Endpoints : AskPause(h, e) \/ AskActivate(h, e) \/ AskDelete(h, e)
             \/ \E d \in Deliveries : AskRetry(h, d)
      PROVE  Truthful'
  <2>1. PICK label \in Asking, e \in Endpoints, d \in Deliveries \cup {Nobody} : Found(h, e, label, d)
    BY <1>7, DeliveryOf DEF AskPause, AskActivate, AskDelete, AskRetry, Asking
  <2>2. UNCHANGED rows /\ Goto(h, label, [NoLocal EXCEPT !.at = e, !.of = d]) /\ label # "succeed"
    BY <2>1 DEF Found, Asking
  <2> QED
    BY <2>2, NotToSucceed, NothingClaimed DEF rows
<1>8. ASSUME NEW h \in Handlers,
             Pause(h) \/ Activate(h) \/ SoftDelete(h) \/ CheckRetryable(h) \/ EnqueueRetry(h)
      PROVE  Truthful'
  <2>1. UNCHANGED <<delivery, accepted>> /\ \E label, l : Goto(h, label, l) /\ label # "succeed"
    BY <1>8 DEF Pause, Activate, SoftDelete, SetEndpoint, CheckRetryable, EnqueueRetry, Return, rows
  <2> QED
    BY <2>1, NotToSucceed, NothingClaimed
<1>9. ASSUME NEW h \in Handlers, Load(h) \/ CountFailure(h) \/ Disable(h) PROVE Truthful'
  <2>1. UNCHANGED <<delivery, accepted>> /\ \E label, l : Goto(h, label, l) /\ label # "succeed"
    BY <1>9 DEF Load, CountFailure, Disable, rows
  <2> QED
    BY <2>1, NotToSucceed, NothingClaimed
<1>10. ASSUME NEW h \in Handlers, Refuse(h) \/ MarkProcessing(h) \/ FinalizeFailure(h) \/ ResetDelivery(h)
       PROVE  Truthful'
  <2>1. local[h].of \in Deliveries /\ accepted' = accepted
    BY <1>10 DEF Refuse, MarkProcessing, FinalizeFailure, ResetDelivery, Held, WorkerOK, RequestOK, Handlers,
                 AtWork, Asking
  <2>2. \E label, l : Goto(h, label, l) /\ label # "succeed"
    BY <1>10 DEF Refuse, MarkProcessing, FinalizeFailure, ResetDelivery
  <2>3. delivery \in [Deliveries -> DeliveryRows] /\ delivery[local[h].of] \in DeliveryRows
    BY <2>1, Types DEF Held
  <2>4. /\ delivery'[local[h].of].status # "DELIVERED"
        /\ \A d \in Deliveries \ {local[h].of} : delivery'[d] = delivery[d]
    <3>1. CASE Refuse(h)
      BY <2>1, <2>3, <3>1 DEF Refuse, DeliveryRows
    <3>2. CASE MarkProcessing(h)
      BY <2>1, <2>3, <3>2 DEF MarkProcessing, DeliveryRows
    <3>3. CASE FinalizeFailure(h)
      BY <2>1, <2>3, <3>3 DEF FinalizeFailure
    <3>4. CASE ResetDelivery(h)
      BY <2>1, <2>3, <3>4 DEF ResetDelivery, DeliveryRows
    <3> QED
      BY <1>10, <3>1, <3>2, <3>3, <3>4
  <2> QED
    BY <2>1, <2>2, <2>4, NotToSucceed, NothingClaimed
<1>11. ASSUME NEW h \in Handlers, Post(h) PROVE Truthful'
  <2>1. PICK outcome \in {"success", "retryable", "permanent"} :
          /\ Goto(h, IF outcome = "success" THEN "succeed" ELSE "fail", [local[h] EXCEPT !.outcome = outcome])
          /\ accepted' = IF outcome = "success" THEN accepted \cup {local[h].of} ELSE accepted
    BY <1>11 DEF Post
  <2>2. delivery' = delivery
    BY <1>11 DEF Post
  <2>3. [local[h] EXCEPT !.outcome = outcome].of = local[h].of
    BY Types DEF Held, Locals
  <2>4. ASSUME NEW w \in Workers, pc'[w] = "succeed" PROVE local'[w].of \in accepted'
    <3>1. CASE w = h
      <4>1. outcome = "success" /\ local'[w].of = local[h].of
        BY <2>1, <2>3, <2>4, <3>1, GotoStep DEF Held
      <4> QED
        BY <2>1, <4>1, <3>1
    <3>2. CASE w # h
      <4>1. pc'[w] = pc[w] /\ local'[w] = local[w]
        BY <2>1, <3>2, GotoStep DEF Held, Handlers
      <4> QED
        BY <2>1, <2>4, <4>1 DEF Truthful
    <3> QED
      BY <3>1, <3>2
  <2> QED
    BY <2>1, <2>2, <2>4 DEF Truthful, DeliveredWasAccepted
<1>12. ASSUME NEW h \in Handlers, FinalizeSuccess(h) PROVE Truthful'
  <2>1. h \in Workers /\ local[h].of \in Deliveries /\ local[h].of \in accepted
    BY <1>12 DEF FinalizeSuccess, Held, WorkerOK, RequestOK, Handlers, Asking, Truthful
  <2>2. \A d \in Deliveries : delivery'[d].status = "DELIVERED" =>
           d = local[h].of \/ delivery[d].status = "DELIVERED"
    BY <1>12, <2>1, RowWritten DEF FinalizeSuccess
  <2>3. accepted' = accepted /\ \A w \in Workers : pc'[w] = "succeed" => pc[w] = "succeed" /\ local'[w] = local[w]
    BY <1>12, NotToSucceed DEF FinalizeSuccess
  <2> QED
    BY <2>1, <2>2, <2>3 DEF Truthful, DeliveredWasAccepted
<1> QED
  BY <1>1, <1>2, <1>3, <1>4, <1>5, <1>6, <1>7, <1>8, <1>9, <1>10, <1>11, <1>12 DEF Next, Continue

\* webhook-delivery.processor.ts, finalizeSuccess: however attempts, crashes and manual
\* retries of a delivery overlap, its row says DELIVERED only if a receiver answered with a 2xx.
THEOREM DeliveredMeansAccepted == Spec => []DeliveredWasAccepted
<1>1. Truthful => DeliveredWasAccepted
  BY DEF Truthful
<1> QED
  BY <1>1, AlwaysHeld, TruthfulInit, TruthfulStep, PTL DEF Spec

-----------------------------------------------------------------------------
(***************************************************************************)
(* AutoDisableNotMissed needs no strengthening: an endpoint is ACTIVE at   *)
(* or above the threshold from the count until the statement after it.     *)
(***************************************************************************)
\* The endpoint is as it was, or not ACTIVE, or below the threshold.
LEMMA StillWatched ==
    ASSUME Held, Held', AutoDisableNotMissed, faults' >= faults,
           \A e \in Endpoints : \/ endpoint'[e].status = endpoint[e].status
                                   /\ endpoint'[e].failures = endpoint[e].failures
                                \/ endpoint'[e].status # "ACTIVE"
                                \/ endpoint'[e].failures < Threshold,
           \/ faults' > 0
           \/ \A w \in Workers : pc[w] = "disable" =>
                 \/ pc'[w] = "disable" /\ local'[w] = local[w]
                 \/ endpoint'[local[w].at].status = "DISABLED"
    PROVE  AutoDisableNotMissed'
<1> SUFFICES ASSUME NEW e \in Endpoints, endpoint'[e].status = "ACTIVE", endpoint'[e].failures >= Threshold
             PROVE  faults' > 0 \/ \E w \in Workers : pc'[w] = "disable" /\ local'[w].at = e
  BY DEF AutoDisableNotMissed
<1>1. endpoint[e].status = "ACTIVE" /\ endpoint[e].failures >= Threshold
  <2>1. endpoint'[e].failures \in Nat
    BY DEF Held, TypeOK
  <2> QED
    BY <2>1, WebhookBounds
<1>2. faults > 0 \/ \E w \in Workers : pc[w] = "disable" /\ local[w].at = e
  BY <1>1 DEF AutoDisableNotMissed
<1>3. faults > 0 => faults' > 0
  BY DEF Held, TypeOK
<1> QED
  BY <1>2, <1>3

LEMMA NotFromDisable ==
    ASSUME Held, NEW h \in Handlers, NEW label, NEW l, Goto(h, label, l), pc[h] # "disable"
    PROVE  \A w \in Workers : pc[w] = "disable" => pc'[w] = "disable" /\ local'[w] = local[w]
BY GotoStep DEF Held, Handlers

LEMMA WatchedStep == Held /\ AutoDisableNotMissed /\ [Next]_vars => AutoDisableNotMissed'
<1> SUFFICES ASSUME Held, AutoDisableNotMissed, [Next]_vars PROVE AutoDisableNotMissed'
  OBVIOUS
<1>n. Held' /\ faults \in Nat /\ Threshold \in Nat \ {0}
  BY HeldStep, WebhookBounds DEF Held, TypeOK
<1>1. CASE UNCHANGED vars
  BY <1>1, <1>n, StillWatched DEF vars, rows
<1>2. ASSUME NEW v \in Events, FindEndpoints(v) \/ EmitThrows(v) \/ \E e \in Endpoints : SendTestEvent(v, e)
      PROVE  AutoDisableNotMissed'
  BY <1>2, <1>n, StillWatched DEF FindEndpoints, EmitThrows, SendTestEvent
<1>3. ASSUME NEW v \in Events, NEW e \in Endpoints, FanOut(v, e) PROVE AutoDisableNotMissed'
  BY <1>3, <1>n, StillWatched DEF FanOut, Add, AddFails
<1>4. ASSUME NEW h \in Handlers, NEW j \in Jobs, Take(h, j) PROVE AutoDisableNotMissed'
  <2>1. pc[h] # "disable" /\ UNCHANGED <<endpoint, faults>> /\ \E label, l : Goto(h, label, l)
    BY <1>4 DEF Take
  <2> QED
    BY <1>n, <2>1, NotFromDisable, StillWatched
<1>5. ASSUME NEW j \in Jobs, BackoffEnds(j) PROVE AutoDisableNotMissed'
  BY <1>5, <1>n, StillWatched DEF BackoffEnds
<1>6. ASSUME NEW h \in Handlers, Throw(h) \/ Crash(h) PROVE AutoDisableNotMissed'
  <2>1. faults' = faults + 1 /\ endpoint' = endpoint
    BY <1>6 DEF Throw, Crash
  <2> QED
    BY <1>n, <2>1, StillWatched
<1>7. ASSUME NEW h \in Handlers,
             \/ \E e \in Endpoints : AskPause(h, e) \/ AskActivate(h, e) \/ AskDelete(h, e)
             \/ \E d \in Deliveries : AskRetry(h, d)
      PROVE  AutoDisableNotMissed'
  <2>1. pc[h] # "disable" /\ UNCHANGED <<rows, faults>> /\ \E label, l : Goto(h, label, l)
    BY <1>7 DEF AskPause, AskActivate, AskDelete, AskRetry, Found
  <2> QED
    BY <1>n, <2>1, NotFromDisable, StillWatched DEF rows
<1>8. ASSUME NEW h \in Handlers, Load(h) \/ Refuse(h) \/ MarkProcessing(h) \/ Post(h) \/ FinalizeFailure(h)
             \/ Complete(h) \/ CheckRetryable(h) \/ ResetDelivery(h)
      PROVE  AutoDisableNotMissed'
  <2>1. pc[h] # "disable" /\ UNCHANGED <<endpoint, faults>> /\ \E label, l : Goto(h, label, l)
    BY <1>8 DEF Load, Refuse, MarkProcessing, Post, FinalizeFailure, Complete, CheckRetryable, ResetDelivery,
                Return, rows
  <2> QED
    BY <1>n, <2>1, NotFromDisable, StillWatched
<1>9. ASSUME NEW h \in Handlers, EnqueueRetry(h) PROVE AutoDisableNotMissed'
  <2>1. pc[h] # "disable" /\ endpoint' = endpoint /\ (faults' = faults \/ faults' = faults + 1)
        /\ \E label, l : Goto(h, label, l)
    BY <1>9 DEF EnqueueRetry, Add, AddFails, Return
  <2> QED
    BY <1>n, <2>1, NotFromDisable, StillWatched
<1>10. ASSUME NEW h \in Handlers, Pause(h) \/ Activate(h) \/ SoftDelete(h) \/ FinalizeSuccess(h)
       PROVE  AutoDisableNotMissed'
  <2>1. pc[h] # "disable" /\ faults' = faults /\ \E label, l : Goto(h, label, l)
    BY <1>10 DEF Pause, Activate, SoftDelete, SetEndpoint, FinalizeSuccess, Return
  <2>2. endpoint \in [Endpoints -> EndpointRows] /\ local[h].at \in Endpoints
    BY <1>10, Types, DeliveryOf DEF Held, WorkerOK, RequestOK, Handlers, Pause, Activate, SoftDelete, FinalizeSuccess
  <2>3. \A e \in Endpoints : \/ endpoint'[e].status = endpoint[e].status
                               /\ endpoint'[e].failures = endpoint[e].failures
                            \/ endpoint'[e].status # "ACTIVE"
                            \/ endpoint'[e].failures < Threshold
    <3>1. \A e \in Endpoints \ {local[h].at} : endpoint'[e] = endpoint[e]
      BY <1>10, <2>2 DEF Pause, Activate, SoftDelete, SetEndpoint, FinalizeSuccess
    <3>2. \/ endpoint'[local[h].at].status = endpoint[local[h].at].status
             /\ endpoint'[local[h].at].failures = endpoint[local[h].at].failures
          \/ endpoint'[local[h].at].status # "ACTIVE"
          \/ endpoint'[local[h].at].failures = 0
      <4>1. CASE Pause(h)
        BY <2>2, <4>1 DEF Pause, SetEndpoint, EndpointRows
      <4>2. CASE Activate(h)
        BY <2>2, <4>2 DEF Activate, SetEndpoint, EndpointRows
      <4>3. CASE SoftDelete(h)
        BY <2>2, <4>3 DEF SoftDelete, SetEndpoint, EndpointRows
      <4>4. CASE FinalizeSuccess(h)
        BY <2>2, <4>4 DEF FinalizeSuccess, EndpointRows
      <4> QED
        BY <1>10, <4>1, <4>2, <4>3, <4>4
    <3> QED
      BY <1>n, <3>1, <3>2
  <2> QED
    BY <1>n, <2>1, <2>3, NotFromDisable, StillWatched
<1>11. ASSUME NEW h \in Handlers, CountFailure(h) \/ Disable(h) PROVE AutoDisableNotMissed'
  <2>1. h \in Workers /\ local[h].at \in Endpoints /\ faults' = faults
        /\ endpoint \in [Endpoints -> EndpointRows]
    BY <1>11, Types, DeliveryOf DEF Held, WorkerOK, RequestOK, Handlers, CountFailure, Disable, Asking
  <2>2. CASE Disable(h)
    <3>1. \A e \in Endpoints \ {local[h].at} : endpoint'[e] = endpoint[e]
      BY <2>1, <2>2 DEF Disable
    <3>2. endpoint'[local[h].at].status = "DISABLED"
      BY <2>1, <2>2 DEF Disable, EndpointRows
    <3>3. \A w \in Workers \ {h} : pc'[w] = pc[w] /\ local'[w] = local[w]
      BY <2>2, GotoStep DEF Disable, Held, Handlers
    <3> QED
      BY <1>n, <2>1, <3>1, <3>2, <3>3, StillWatched
  <2>3. CASE CountFailure(h)
    <3> DEFINE e == local[h].at
    <3>1. \A f \in Endpoints \ {e} : endpoint'[f] = endpoint[f]
      BY <2>1, <2>3 DEF CountFailure
    <3>2. endpoint'[e].status = endpoint[e].status
      BY <2>1, <2>3 DEF CountFailure, EndpointRows
    <3>3. /\ \A w \in Workers \ {h} : pc'[w] = pc[w] /\ local'[w] = local[w]
          /\ pc[h] = "count" /\ local'[h] = local[h]
          /\ endpoint'[e].failures >= Threshold /\ endpoint[e].status = "ACTIVE" => pc'[h] = "disable"
      BY <2>3, GotoStep DEF CountFailure, Held, Handlers
    <3> QED
      BY <1>n, <2>1, <3>1, <3>2, <3>3 DEF AutoDisableNotMissed
  <2> QED
    BY <1>11, <2>2, <2>3
<1> QED
  BY <1>1, <1>2, <1>3, <1>4, <1>5, <1>6, <1>7, <1>8, <1>9, <1>10, <1>11 DEF Next, Continue

\* webhook-delivery.processor.ts, finalizeFailure: no interleaving of failures, pauses and
\* reactivations lets an endpoint slip past the threshold, short of a fault.
THEOREM ThresholdDisables == Spec => []AutoDisableNotMissed
<1>1. Init => AutoDisableNotMissed
  BY WebhookBounds DEF Init, AutoDisableNotMissed
<1> QED
  BY <1>1, AlwaysHeld, WatchedStep, PTL DEF Spec

-----------------------------------------------------------------------------
(***************************************************************************)
(* A terminal failure is in the row before it is in the endpoint's         *)
(* counter: the workers between the two statements make up the difference. *)
(***************************************************************************)
Counting(e) == {w \in Workers : pc[w] = "count" /\ local[w].at = e}

Counted(e) ==
    /\ endpoint[e].failures + Cardinality(Counting(e)) <= exhausted[e]
    /\ endpoint[e].status = "DISABLED" => exhausted[e] >= Threshold
    /\ \A w \in Workers : pc[w] = "disable" /\ local[w].at = e => exhausted[e] >= Threshold

AllCounted == \A e \in Endpoints : Counted(e)

LEMMA CountingWorkers ==
    ASSUME NEW S \in SUBSET Workers
    PROVE  /\ IsFiniteSet(S) /\ Cardinality(S) \in Nat
           /\ \A T \in SUBSET S : Cardinality(T) \in Nat /\ Cardinality(T) <= Cardinality(S)
           /\ \A w \in S : Cardinality(S \ {w}) = Cardinality(S) - 1
           /\ \A w \in Workers \ S : Cardinality(S \cup {w}) = Cardinality(S) + 1
<1>1. IsFiniteSet(S)
  BY WebhookNames, FS_Subset
<1> QED
  BY <1>1, FS_Subset, FS_CardinalityType, FS_RemoveElement, FS_AddElement

LEMMA CountedInit == Init => AllCounted
<1> SUFFICES ASSUME Init, NEW e \in Endpoints PROVE Counted(e)
  BY DEF AllCounted
<1>1. Counting(e) = {}
  BY DEF Init, Counting, Handlers
<1>2. endpoint[e].failures = 0 /\ endpoint[e].status = "ACTIVE" /\ exhausted[e] = 0
  BY DEF Init
<1> QED
  BY <1>1, <1>2, FS_EmptySet DEF Init, Counted, Handlers

\* No failure is counted, and nobody comes to disable anything.
LEMMA NothingCounted ==
    ASSUME Held, Held', NEW e \in Endpoints, Counted(e), exhausted'[e] = exhausted[e],
           \/ endpoint'[e].failures = endpoint[e].failures \/ endpoint'[e].failures = 0,
           endpoint'[e].status = "DISABLED" => endpoint[e].status = "DISABLED",
           \A w \in Workers : pc'[w] \in {"count", "disable"} => pc'[w] = pc[w] /\ local'[w] = local[w]
    PROVE  Counted(e)'
<1>1. Counting(e)' \in SUBSET Counting(e) /\ Counting(e) \in SUBSET Workers
  BY DEF Counting
<1>2. Cardinality(Counting(e)') <= Cardinality(Counting(e))
      /\ Cardinality(Counting(e)') \in Nat /\ Cardinality(Counting(e)) \in Nat
  BY <1>1, CountingWorkers
<1>3. endpoint[e].failures \in Nat /\ exhausted[e] \in Nat
  BY DEF Held, TypeOK
<1> QED
  BY <1>2, <1>3 DEF Counted

\* Where a handler goes that has nothing to count.
LEMMA NotToCount ==
    ASSUME Held, NEW h \in Handlers, NEW label, NEW l, Goto(h, label, l), label \notin {"count", "disable"}
    PROVE  \A w \in Workers : pc'[w] \in {"count", "disable"} => pc'[w] = pc[w] /\ local'[w] = local[w]
BY GotoStep DEF Held, Handlers

LEMMA CountedStep == Held /\ AllCounted /\ [Next]_vars => AllCounted'
<1> SUFFICES ASSUME Held, AllCounted, [Next]_vars PROVE AllCounted'
  OBVIOUS
<1>n. Held' /\ Threshold \in Nat \ {0} /\ \A e \in Endpoints : Counted(e)
  BY HeldStep, WebhookBounds DEF AllCounted
<1>q. ASSUME UNCHANGED <<endpoint, exhausted>>,
             \A w \in Workers : pc'[w] \in {"count", "disable"} => pc'[w] = pc[w] /\ local'[w] = local[w]
      PROVE  AllCounted'
  BY <1>n, <1>q, NothingCounted DEF AllCounted
<1>1. CASE UNCHANGED vars
  BY <1>1, <1>q DEF vars, rows
<1>2. ASSUME NEW v \in Events, \/ FindEndpoints(v) \/ EmitThrows(v)
                              \/ \E e \in Endpoints : SendTestEvent(v, e) \/ FanOut(v, e)
      PROVE  AllCounted'
  BY <1>2, <1>q DEF FindEndpoints, EmitThrows, SendTestEvent, FanOut
<1>3. ASSUME NEW h \in Handlers, NEW j \in Jobs, Take(h, j) PROVE AllCounted'
  <2>1. \A w \in Workers : pc'[w] \in {"count", "disable"} => pc'[w] = pc[w] /\ local'[w] = local[w]
    BY <1>3, NotToCount DEF Take
  <2> QED
    BY <1>3, <1>q, <2>1 DEF Take
<1>4. ASSUME NEW j \in Jobs, BackoffEnds(j) PROVE AllCounted'
  BY <1>4, <1>q DEF BackoffEnds
<1>5. ASSUME NEW h \in Handlers, Complete(h) \/ Throw(h) \/ Crash(h) \/ EnqueueRetry(h) PROVE AllCounted'
  <2>1. \A w \in Workers : pc'[w] \in {"count", "disable"} => pc'[w] = pc[w] /\ local'[w] = local[w]
    BY <1>5, NotToCount DEF Complete, Throw, Crash, EnqueueRetry, Return
  <2> QED
    BY <1>5, <1>q, <2>1 DEF Complete, Throw, Crash, EnqueueRetry
<1>6. ASSUME NEW h \in Handlers,
             \/ \E e \in Endpoints : AskPause(h, e) \/ AskActivate(h, e) \/ AskDelete(h, e)
             \/ \E d \in Deliveries : AskRetry(h, d)
      PROVE  AllCounted'
  <2>1. PICK label \in Asking, e \in Endpoints, d \in Deliveries \cup {Nobody} : Found(h, e, label, d)
    BY <1>6, DeliveryOf DEF AskPause, AskActivate, AskDelete, AskRetry, Asking
  <2>2. UNCHANGED rows /\ Goto(h, label, [NoLocal EXCEPT !.at = e, !.of = d])
        /\ label \notin {"count", "disable"}
    BY <2>1 DEF Found, Asking
  <2> QED
    BY <1>q, <2>2, NotToCount DEF rows
<1>7. ASSUME NEW h \in Handlers, Load(h) \/ Refuse(h) \/ MarkProcessing(h) \/ CheckRetryable(h) \/ ResetDelivery(h)
      PROVE  AllCounted'
  <2>1. UNCHANGED <<endpoint, exhausted>>
        /\ \E label, l : Goto(h, label, l) /\ label \notin {"count", "disable"}
    BY <1>7 DEF Load, Refuse, MarkProcessing, CheckRetryable, ResetDelivery, Return, rows
  <2> QED
    BY <1>q, <2>1, NotToCount
<1>8. ASSUME NEW h \in Handlers, Post(h) PROVE AllCounted'
  <2>1. PICK outcome \in {"success", "retryable", "permanent"} :
          Goto(h, IF outcome = "success" THEN "succeed" ELSE "fail", [local[h] EXCEPT !.outcome = outcome])
    BY <1>8 DEF Post
  <2>2. UNCHANGED <<endpoint, exhausted>>
    BY <1>8 DEF Post
  <2> QED
    BY <1>q, <2>1, <2>2, NotToCount
<1>9. ASSUME NEW h \in Handlers, Pause(h) \/ Activate(h) \/ SoftDelete(h) \/ FinalizeSuccess(h)
      PROVE  AllCounted'
  <2>1. endpoint \in [Endpoints -> EndpointRows] /\ local[h].at \in Endpoints
    BY <1>9, Types, DeliveryOf DEF Held, WorkerOK, RequestOK, Handlers, Pause, Activate, SoftDelete, FinalizeSuccess
  <2>2. \A e \in Endpoints \ {local[h].at} : endpoint'[e] = endpoint[e]
    BY <1>9, <2>1 DEF Pause, Activate, SoftDelete, SetEndpoint, FinalizeSuccess
  <2>3. /\ \/ endpoint'[local[h].at].failures = endpoint[local[h].at].failures
           \/ endpoint'[local[h].at].failures = 0
        /\ endpoint'[local[h].at].status = "DISABLED" => endpoint[local[h].at].status = "DISABLED"
    <3>1. CASE Pause(h)
      BY <2>1, <3>1 DEF Pause, SetEndpoint, EndpointRows
    <3>2. CASE Activate(h)
      BY <2>1, <3>2 DEF Activate, SetEndpoint, EndpointRows
    <3>3. CASE SoftDelete(h)
      BY <2>1, <3>3 DEF SoftDelete, SetEndpoint, EndpointRows
    <3>4. CASE FinalizeSuccess(h)
      BY <2>1, <3>4 DEF FinalizeSuccess, EndpointRows
    <3> QED
      BY <1>9, <3>1, <3>2, <3>3, <3>4
  <2>4. exhausted' = exhausted /\ \E label, l : Goto(h, label, l) /\ label \notin {"count", "disable"}
    BY <1>9 DEF Pause, Activate, SoftDelete, SetEndpoint, FinalizeSuccess, Return
  <2>5. \A w \in Workers : pc'[w] \in {"count", "disable"} => pc'[w] = pc[w] /\ local'[w] = local[w]
    BY <2>4, NotToCount
  <2> QED
    BY <1>n, <2>2, <2>3, <2>4, <2>5, NothingCounted DEF AllCounted
<1>10. ASSUME NEW h \in Handlers, FinalizeFailure(h) \/ CountFailure(h) \/ Disable(h) PROVE AllCounted'
  <2>0. h \in Workers /\ local[h].at \in Endpoints
    BY <1>10, DeliveryOf DEF Held, WorkerOK, RequestOK, Handlers, FinalizeFailure, CountFailure, Disable, Asking
  <2> PICK f \in Endpoints : f = local[h].at
    BY <2>0
  <2>1. h \in Workers /\ endpoint \in [Endpoints -> EndpointRows]
        /\ endpoint[f].failures \in Nat /\ exhausted \in [Endpoints -> Nat]
    BY <2>0, Types DEF Held, EndpointRows
  <2>2. \A w \in Workers \ {h} : pc'[w] = pc[w] /\ local'[w] = local[w]
    BY <1>10, GotoStep DEF FinalizeFailure, CountFailure, Disable, Held, Handlers
  <2>3. local'[h] = local[h] /\ pc'[h] \in {"complete", "count", "disable"}
    BY <1>10, GotoStep DEF FinalizeFailure, CountFailure, Disable, Held
  <2>4. Counted(f) /\ Cardinality(Counting(f)) \in Nat /\ Counting(f) \in SUBSET Workers
    BY <1>n, <2>1, CountingWorkers DEF Counting
  <2>5. ASSUME NEW e \in Endpoints \ {f} PROVE Counted(e)'
    <3>1. endpoint'[e] = endpoint[e] /\ exhausted'[e] = exhausted[e]
      BY <1>10, <2>1 DEF FinalizeFailure, CountFailure, Disable
    <3>2. Counting(e)' = Counting(e)
      BY <2>2, <2>3 DEF Counting
    <3>3. \A w \in Workers : pc'[w] = "disable" /\ local'[w].at = e => pc[w] = "disable" /\ local[w].at = e
      BY <2>2, <2>3
    <3> QED
      BY <1>n, <3>1, <3>2, <3>3 DEF Counted
  <2>6. Counted(f)'
    <3>1. CASE FinalizeFailure(h)
      <4>1. endpoint' = endpoint /\ pc[h] = "fail" /\ h \notin Counting(f) /\ exhausted[f] \in Nat
        BY <2>1, <3>1 DEF FinalizeFailure, Counting
      <4>2. CASE IsTerminal(h)
        <5>1. exhausted'[f] = exhausted[f] + 1 /\ pc'[h] = "count"
          BY <2>1, <3>1, <4>2, GotoStep DEF FinalizeFailure, Held
        <5>2. Counting(f)' = Counting(f) \cup {h}
          BY <2>1, <2>2, <2>3, <5>1 DEF Counting
        <5>3. Cardinality(Counting(f)') = Cardinality(Counting(f)) + 1
          BY <2>1, <2>4, <4>1, <5>2, CountingWorkers
        <5> QED
          BY <1>n, <2>1, <2>2, <2>4, <4>1, <5>1, <5>3 DEF Counted
      <4>3. CASE ~IsTerminal(h)
        <5>1. exhausted'[f] = exhausted[f] /\ pc'[h] = "complete"
          BY <2>1, <3>1, <4>3, GotoStep DEF FinalizeFailure, Held
        <5>2. Counting(f)' = Counting(f)
          BY <2>2, <4>1, <5>1 DEF Counting
        <5> QED
          BY <2>2, <2>4, <4>1, <5>1, <5>2 DEF Counted
      <4> QED
        BY <4>2, <4>3
    <3>2. CASE CountFailure(h)
      <4>1. /\ endpoint'[f].failures = endpoint[f].failures + 1
            /\ endpoint'[f].status = endpoint[f].status /\ exhausted' = exhausted
        BY <2>1, <3>2 DEF CountFailure, EndpointRows
      <4>2. h \in Counting(f) /\ pc'[h] # "count"
        BY <2>1, <3>2, GotoStep DEF CountFailure, Counting, Held
      <4>3. Counting(f)' = Counting(f) \ {h}
        BY <2>2, <4>2 DEF Counting
      <4>4. Cardinality(Counting(f)') = Cardinality(Counting(f)) - 1 /\ Cardinality(Counting(f)') \in Nat
        <5>1. Counting(f)' \in SUBSET Counting(f)
          BY <4>3
        <5> QED
          BY <2>4, <4>2, <4>3, <5>1, CountingWorkers
      <4>5. pc'[h] = "disable" => endpoint'[f].failures >= Threshold
        BY <2>1, <3>2, GotoStep DEF CountFailure, Held
      <4> QED
        BY <1>n, <2>1, <2>2, <2>4, <4>1, <4>4, <4>5 DEF Counted
    <3>3. CASE Disable(h)
      <4>1. endpoint'[f].failures = endpoint[f].failures /\ exhausted' = exhausted
        BY <2>1, <3>3 DEF Disable, EndpointRows
      <4>2. exhausted[f] >= Threshold /\ pc[h] = "disable"
        BY <2>1, <2>4, <3>3 DEF Disable, Counted
      <4>3. Counting(f)' = Counting(f)
        <5>1. pc'[h] = "complete"
          BY <3>3, GotoStep DEF Disable, Held
        <5> QED
          BY <2>2, <4>2, <5>1 DEF Counting
      <4> QED
        BY <2>4, <4>1, <4>2, <4>3 DEF Counted
    <3> QED
      BY <1>10, <3>1, <3>2, <3>3
  <2> QED
    BY <2>5, <2>6 DEF AllCounted
<1> QED
  BY <1>1, <1>2, <1>3, <1>4, <1>5, <1>6, <1>7, <1>8, <1>9, <1>10 DEF Next, Continue

\* webhook-delivery.processor.ts, finalizeFailure: no endpoint is disabled before Threshold
\* of its deliveries failed for good, whoever counts at the same time.
THEOREM DisablingIsEarned == Spec => []DisabledOnlyAfterFailures
<1>1. Held /\ AllCounted => DisabledOnlyAfterFailures
  <2> SUFFICES ASSUME Held, NEW e \in Endpoints, Counted(e)
               PROVE  /\ endpoint[e].failures <= exhausted[e]
                      /\ endpoint[e].status = "DISABLED" => exhausted[e] >= Threshold
    BY DEF AllCounted, DisabledOnlyAfterFailures
  <2>1. Counting(e) \in SUBSET Workers
    BY DEF Counting
  <2>2. Cardinality(Counting(e)) \in Nat /\ endpoint[e].failures \in Nat /\ exhausted[e] \in Nat
    BY <2>1, CountingWorkers DEF Held, TypeOK
  <2> QED
    BY <2>2 DEF Counted
<1> QED
  BY <1>1, AlwaysHeld, CountedInit, CountedStep, PTL DEF Spec

-----------------------------------------------------------------------------
(***************************************************************************)
(* A row that is not settled is owed to by a job with an attempt to come,  *)
(* or by a manual retry about to make one.                                 *)
(***************************************************************************)
AtIt == {"load", "refuse", "mark", "post", "succeed", "fail"}
Retrying(w) == pc[w] = "complete" /\ local[w].outcome = "retryable" /\ ~IsTerminal(w)

Owes(j, d) ==
    /\ job[j].of = d
    /\ \/ job[j].state \in {"waiting", "delayed"}
       \/ \E w \in Workers : local[w].job = j /\ (pc[w] \in AtIt \/ Retrying(w))

Owed(d) ==
    \/ \E j \in Jobs : Owes(j, d)
    \/ \E q \in Requests : pc[q] = "enqueue" /\ local[q].of = d

Settled(d) ==
    \/ delivery[d].status \in {"NONE", "DELIVERED", "EXHAUSTED"}
    \/ delivery[d].status = "FAILED" /\ delivery[d].refused

Attended(d) == Settled(d) \/ d \in stranded \/ Owed(d)
AllAttended == \A d \in Deliveries : Attended(d)

LEMMA AttendedInit == Init => AllAttended
BY DEF Init, AllAttended, Attended, Settled, NoDelivery

LEMMA OwingIsTaken ==
    ASSUME Held, NEW j \in Jobs, NEW d, Owes(j, d)
    PROVE  job[j] # FreeJob
BY DEF Held, Owes, WorkerOK, Retrying, AtIt, FreeJob

LEMMA OwesStays ==
    ASSUME NEW j \in Jobs, NEW d, Owes(j, d), job'[j] = job[j],
           \A w \in Workers : pc[w] # "idle" /\ local[w].job = j => pc'[w] = pc[w] /\ local'[w] = local[w]
    PROVE  Owes(j, d)'
<1>1. CASE job[j].state \in {"waiting", "delayed"}
  BY <1>1 DEF Owes
<1>2. CASE \E w \in Workers : local[w].job = j /\ (pc[w] \in AtIt \/ Retrying(w))
  <2>1. PICK w \in Workers : local[w].job = j /\ (pc[w] \in AtIt \/ Retrying(w))
    BY <1>2
  <2>2. pc'[w] = pc[w] /\ local'[w] = local[w]
    BY <2>1 DEF AtIt, Retrying
  <2>3. IsTerminal(w)' <=> IsTerminal(w)
    BY <2>1, <2>2 DEF IsTerminal
  <2> QED
    BY <2>1, <2>2, <2>3 DEF Owes, Retrying
<1> QED
  BY <1>1, <1>2 DEF Owes

\* A step of nobody's job.
LEMMA OthersAttend ==
    ASSUME Held, AllAttended, stranded \subseteq stranded',
           \A w \in Workers : pc'[w] = pc[w] /\ local'[w] = local[w],
           \A j \in Jobs : job[j] # FreeJob => job'[j] = job[j],
           \A d \in Deliveries : delivery'[d] = delivery[d] \/ Attended(d)',
           \A q \in Requests, d \in Deliveries : pc[q] = "enqueue" /\ local[q].of = d =>
             (pc'[q] = "enqueue" /\ local'[q] = local[q]) \/ Attended(d)'
    PROVE  AllAttended'
<1> SUFFICES ASSUME NEW d \in Deliveries, delivery'[d] = delivery[d] PROVE Attended(d)'
  BY DEF AllAttended
<1>1. CASE Settled(d) \/ d \in stranded
  <2>1. Settled(d) => Settled(d)'
    BY DEF Settled
  <2>2. d \in stranded => d \in stranded'
    OBVIOUS
  <2> QED
    BY <1>1, <2>1, <2>2 DEF Attended
<1>2. ASSUME NEW j \in Jobs, Owes(j, d) PROVE Attended(d)'
  BY <1>2, OwingIsTaken, OwesStays DEF Attended, Owed
<1>3. ASSUME NEW q \in Requests, pc[q] = "enqueue", local[q].of = d PROVE Attended(d)'
  <2>1. CASE pc'[q] = "enqueue" /\ local'[q] = local[q]
    BY <1>3, <2>1 DEF Attended, Owed
  <2> QED
    BY <1>3, <2>1
<1> QED
  BY <1>1, <1>2, <1>3 DEF AllAttended, Attended, Owed

\* A delivery with a new job is attended to, and so is one whose enqueue was lost.
LEMMA AddAttends ==
    ASSUME Held, NEW c \in Deliveries, NEW max \in 1..MaxAttempts, Add(c, max) \/ AddFails(c)
    PROVE  /\ \A j \in Jobs : job[j] # FreeJob => job'[j] = job[j]
           /\ stranded \subseteq stranded'
           /\ Attended(c)'
<1>1. /\ \A j \in Jobs : job[j] # FreeJob => job'[j] = job[j]
      /\ \/ stranded' = stranded \cup {c}
         \/ /\ stranded' = stranded
            /\ \E i \in Jobs : job'[i] = [state |-> "waiting", of |-> c, made |-> 0,
                                         max |-> max, stalled |-> FALSE]
  BY AddStep
<1>2. CASE stranded' = stranded \cup {c}
  BY <1>1, <1>2 DEF Attended
<1>3. ASSUME NEW i \in Jobs, stranded' = stranded,
             job'[i] = [state |-> "waiting", of |-> c, made |-> 0, max |-> max, stalled |-> FALSE]
      PROVE  stranded \subseteq stranded' /\ Attended(c)'
  <2>1. job'[i].state = "waiting" /\ job'[i].of = c
    BY <1>3
  <2> QED
    BY <1>3, <2>1 DEF Attended, Owed, Owes
<1> QED
  BY <1>1, <1>2, <1>3

\* A step of a worker with its job, about the delivery it is at.
LEMMA WorkerAttends ==
    ASSUME Held, AllAttended, stranded \subseteq stranded', NEW w \in Workers, pc[w] # "idle",
           \A h \in Handlers \ {w} : pc'[h] = pc[h] /\ local'[h] = local[h],
           \A j \in Jobs \ {local[w].job} : job'[j] = job[j],
           \A d \in Deliveries \ {local[w].of} : delivery'[d] = delivery[d],
           NEW c \in Deliveries, c = local[w].of,
           \/ Attended(c)'
           \/ delivery'[c] = delivery[c] /\ ~Owes(local[w].job, c)
    PROVE  AllAttended'
<1>1. local[w].job \in Jobs /\ job[local[w].job].of = c
  BY DEF Held, WorkerOK
<1>2. ASSUME NEW d \in Deliveries, NEW j \in Jobs \ {local[w].job}, Owes(j, d) PROVE Owes(j, d)'
  <2>1. \A v \in Workers : pc[v] # "idle" /\ local[v].job = j => pc'[v] = pc[v] /\ local'[v] = local[v]
    BY DEF Handlers
  <2> QED
    BY <1>2, <2>1, OwesStays
<1>3. \A q \in Requests : pc'[q] = pc[q] /\ local'[q] = local[q]
  BY WebhookNames DEF Handlers
<1>4. ASSUME NEW d \in Deliveries, delivery'[d] = delivery[d], ~Owes(local[w].job, d) PROVE Attended(d)'
  <2>1. CASE Settled(d) \/ d \in stranded
    BY <1>4, <2>1 DEF Attended, Settled
  <2>2. CASE Owed(d)
    BY <1>2, <1>3, <1>4, <2>2 DEF Attended, Owed
  <2> QED
    BY <2>1, <2>2 DEF AllAttended, Attended
<1>5. \A d \in Deliveries \ {c} : ~Owes(local[w].job, d)
  BY <1>1 DEF Owes
<1> QED
  BY <1>4, <1>5 DEF AllAttended

LEMMA AttendedByRequests ==
    ASSUME Held, Held', AllAttended, NEW q \in Handlers,
           \/ Pause(q) \/ Activate(q) \/ SoftDelete(q)
           \/ CheckRetryable(q) \/ ResetDelivery(q) \/ EnqueueRetry(q)
    PROVE  AllAttended'
<1>1. q \in Requests /\ pc[q] \in Asking
      /\ (pc[q] \in {"check", "reset", "enqueue"} => local[q].of \in Deliveries)
  <2>1. pc[q] \in Asking
    BY DEF Pause, Activate, SoftDelete, CheckRetryable, ResetDelivery, EnqueueRetry, Asking
  <2> QED
    BY <2>1 DEF Held, WorkerOK, RequestOK, Handlers, AtWork, Asking
<1>2. \E label, l : Goto(q, label, l)
  BY DEF Pause, Activate, SoftDelete, SetEndpoint, CheckRetryable, ResetDelivery, EnqueueRetry, Return
<1>3. \A h \in Handlers \ {q} : pc'[h] = pc[h] /\ local'[h] = local[h]
  BY <1>2, GotoStep DEF Held
<1>4. \A w \in Workers : pc'[w] = pc[w] /\ local'[w] = local[w]
  BY <1>1, <1>3, WebhookNames DEF Handlers
<1>5. CASE Pause(q) \/ Activate(q) \/ SoftDelete(q) \/ CheckRetryable(q)
  <2>1. UNCHANGED <<delivery, job, stranded>> /\ pc[q] # "enqueue"
    BY <1>5 DEF Pause, Activate, SoftDelete, SetEndpoint, CheckRetryable, rows
  <2> QED
    BY <1>3, <1>4, <2>1, OthersAttend DEF Handlers
<1>6. CASE ResetDelivery(q)
  <2>1. UNCHANGED <<job, stranded>> /\ pc[q] = "reset" /\ pc'[q] = "enqueue" /\ local'[q] = local[q]
    BY <1>6, GotoStep DEF ResetDelivery, Held
  <2>2. \A d \in Deliveries \ {local[q].of} : delivery'[d] = delivery[d]
    BY <1>1, <1>6, RowWritten DEF ResetDelivery
  <2>3. \A d \in Deliveries : d = local[q].of => Attended(d)'
    BY <1>1, <2>1 DEF Attended, Owed
  <2> QED
    BY <1>3, <1>4, <2>1, <2>2, <2>3, OthersAttend DEF Handlers
<1>7. CASE EnqueueRetry(q)
  <2>1. PICK c \in Deliveries : c = local[q].of
    BY <1>1, <1>7 DEF EnqueueRetry
  <2>2. 1 \in 1..MaxAttempts /\ (Add(c, 1) \/ AddFails(c)) /\ delivery' = delivery
    BY <1>7, <2>1, WebhookBounds DEF EnqueueRetry
  <2>3. /\ \A j \in Jobs : job[j] # FreeJob => job'[j] = job[j]
        /\ stranded \subseteq stranded' /\ Attended(c)'
    BY <2>2, AddAttends
  <2>4. \A d \in Deliveries : delivery'[d] = delivery[d] \/ Attended(d)'
    BY <2>2
  <2>5. \A r \in Requests, d \in Deliveries : pc[r] = "enqueue" /\ local[r].of = d =>
          (pc'[r] = "enqueue" /\ local'[r] = local[r]) \/ Attended(d)'
    <3> SUFFICES ASSUME NEW r \in Requests, NEW d \in Deliveries, local[r].of = d
                 PROVE  (pc'[r] = "enqueue" /\ local'[r] = local[r]) \/ Attended(d)' \/ pc[r] # "enqueue"
      OBVIOUS
    <3>1. CASE r = q
      BY <2>1, <2>3, <3>1
    <3>2. CASE r # q
      BY <1>3, <3>2 DEF Handlers
    <3> QED
      BY <3>1, <3>2
  <2> QED
    BY <1>4, <2>3, <2>4, <2>5, OthersAttend
<1> QED
  BY <1>5, <1>6, <1>7

LEMMA AttendedByWorkers ==
    ASSUME Held, Held', AllAttended, NEW w \in Handlers,
           \/ Load(w) \/ Refuse(w) \/ MarkProcessing(w) \/ Post(w)
           \/ FinalizeSuccess(w) \/ FinalizeFailure(w) \/ CountFailure(w) \/ Disable(w)
           \/ Complete(w) \/ Throw(w) \/ Crash(w)
    PROVE  AllAttended'
<1>1. w \in Workers /\ pc[w] # "idle"
  BY DEF Load, Refuse, MarkProcessing, Post, FinalizeSuccess, FinalizeFailure, CountFailure, Disable,
         Complete, Throw, Crash, Held, RequestOK, Handlers, Asking
<1> PICK j \in Jobs, c \in Deliveries : j = local[w].job /\ c = local[w].of
  BY <1>1 DEF Held, WorkerOK
<1>2. job[j].of = c /\ job[j].state = "active" /\ job[j] # FreeJob
  BY <1>1 DEF Held, WorkerOK, FreeJob
<1>3. \E label, l : Goto(w, label, l)
  BY DEF Load, Refuse, MarkProcessing, Post, FinalizeSuccess, FinalizeFailure, CountFailure, Disable,
         Complete, Throw, Crash, Return
<1>4. \A h \in Handlers \ {w} : pc'[h] = pc[h] /\ local'[h] = local[h]
  BY <1>3, GotoStep DEF Held
<1>5. Owes(j, c) => pc[w] \in AtIt \/ Retrying(w)
  <2>1. \A v \in Workers : local[v].job = j /\ (pc[v] \in AtIt \/ Retrying(v)) => v = w
    BY <1>1 DEF Held, OneWorkerPerJob, AtIt, Retrying
  <2> QED
    BY <1>2, <2>1 DEF Owes
<1>6. delivery \in [Deliveries -> DeliveryRows]
  BY Types DEF Held
<1>7. CASE Load(w) \/ MarkProcessing(w) \/ Post(w)
  <2>1. job' = job /\ stranded' = stranded
    BY <1>7 DEF Load, MarkProcessing, Post, rows
  <2>2. \A d \in Deliveries \ {c} : delivery'[d] = delivery[d]
    BY <1>6, <1>7 DEF Load, MarkProcessing, Post, rows
  <2>3. pc'[w] \in AtIt /\ local'[w].job = j
    <3>1. CASE Load(w) \/ MarkProcessing(w)
      BY <3>1, GotoStep DEF Load, MarkProcessing, AtIt, Held
    <3>2. CASE Post(w)
      <4>1. PICK outcome \in {"success", "retryable", "permanent"} :
              Goto(w, IF outcome = "success" THEN "succeed" ELSE "fail", [local[w] EXCEPT !.outcome = outcome])
        BY <3>2 DEF Post
      <4>2. [local[w] EXCEPT !.outcome = outcome].job = j
        BY Types DEF Held, Locals
      <4> QED
        BY <4>1, <4>2, GotoStep DEF AtIt, Held
    <3> QED
      BY <1>7, <3>1, <3>2
  <2>4. Attended(c)'
    BY <1>1, <1>2, <2>1, <2>3 DEF Attended, Owed, Owes
  <2> QED
    BY <1>1, <1>4, <2>1, <2>2, <2>4, WorkerAttends
<1>8. CASE Refuse(w) \/ FinalizeSuccess(w)
  <2>1. job' = job /\ stranded' = stranded
    BY <1>8 DEF Refuse, FinalizeSuccess
  <2>2. \A d \in Deliveries \ {c} : delivery'[d] = delivery[d]
    BY <1>6, <1>8 DEF Refuse, FinalizeSuccess
  <2>3. \/ delivery'[c].status = "DELIVERED"
        \/ delivery'[c].status = "FAILED" /\ delivery'[c].refused = TRUE
    BY <1>6, <1>8 DEF Refuse, FinalizeSuccess, DeliveryRows
  <2>4. Attended(c)'
    BY <2>3 DEF Attended, Settled
  <2> QED
    BY <1>1, <1>4, <2>1, <2>2, <2>4, WorkerAttends
<1>9. CASE FinalizeFailure(w)
  <2>1. job' = job /\ stranded' = stranded /\ local'[w] = local[w]
    BY <1>9, GotoStep DEF FinalizeFailure, Held
  <2>2. \A d \in Deliveries \ {c} : delivery'[d] = delivery[d]
    BY <1>6, <1>9 DEF FinalizeFailure
  <2>3. CASE IsTerminal(w)
    <3>1. delivery'[c].status = "EXHAUSTED"
      BY <1>6, <1>9, <2>3 DEF FinalizeFailure
    <3>2. Attended(c)'
      BY <3>1 DEF Attended, Settled
    <3> QED
      BY <1>1, <1>4, <2>1, <2>2, <3>2, WorkerAttends
  <2>4. CASE ~IsTerminal(w)
    <3>1. pc'[w] = "complete"
      BY <1>9, <2>4, GotoStep DEF FinalizeFailure, Held
    <3>2. ~IsTerminal(w)' /\ local'[w].outcome = "retryable"
      BY <2>1, <2>4 DEF IsTerminal
    <3>3. Retrying(w)' /\ local'[w].job = j
      BY <2>1, <3>1, <3>2 DEF Retrying
    <3>4. Attended(c)'
      BY <1>1, <1>2, <2>1, <3>3 DEF Attended, Owed, Owes
    <3> QED
      BY <1>1, <1>4, <2>1, <2>2, <3>4, WorkerAttends
  <2> QED
    BY <2>3, <2>4
<1>10. CASE CountFailure(w) \/ Disable(w)
  <2>1. UNCHANGED <<job, stranded, delivery>> /\ pc[w] \in {"count", "disable"}
    BY <1>10 DEF CountFailure, Disable
  <2>2. ~Owes(j, c)
    BY <1>5, <2>1 DEF AtIt, Retrying
  <2> QED
    BY <1>1, <1>4, <2>1, <2>2, WorkerAttends
<1>11. CASE Complete(w)
  <2>1. UNCHANGED <<stranded, delivery>> /\ pc[w] = "complete"
    BY <1>11 DEF Complete
  <2>2. job \in [Jobs -> JobRows]
    BY Types DEF Held
  <2>3. CASE Owes(j, c)
    <3>1. Retrying(w)
      BY <1>5, <2>1, <2>3 DEF AtIt
    <3>2. job' = [job EXCEPT ![j] = Failed(j)]
      BY <1>11, <3>1 DEF Complete, Retrying
    <3>3. job[j].made + 1 < job[j].max
      BY <2>2, <3>1 DEF Retrying, IsTerminal, JobRows
    <3>4. Failed(j) # FreeJob
      <4>1. ~(job[j].made + 1 >= job[j].max)
        BY <2>2, <3>3 DEF JobRows
      <4> QED
        BY <1>2, <3>2, <4>1, FailedStep
    <3>5. job'[j].state = "delayed" /\ job'[j].of = c /\ \A i \in Jobs \ {j} : job'[i] = job[i]
      BY <1>2, <3>2, <3>4, FailedStep
    <3>6. Attended(c)'
      BY <3>5 DEF Attended, Owed, Owes
    <3> QED
      BY <1>1, <1>4, <2>1, <3>5, <3>6, WorkerAttends
  <2>4. CASE ~Owes(j, c)
    <3>1. \A i \in Jobs \ {j} : job'[i] = job[i]
      BY <1>11, <2>2 DEF Complete
    <3> QED
      BY <1>1, <1>4, <2>1, <2>4, <3>1, WorkerAttends
  <2> QED
    BY <2>3, <2>4
<1>12. CASE Throw(w)
  <2>1. /\ delivery' = delivery /\ job' = [job EXCEPT ![j] = Failed(j)]
        /\ stranded' = IF Failed(j) = FreeJob THEN stranded \cup {c} ELSE stranded
    BY <1>12 DEF Throw
  <2>2. /\ \A i \in Jobs \ {j} : job'[i] = job[i]
        /\ \/ Failed(j) = FreeJob
           \/ job'[j].state = "delayed" /\ job'[j].of = job[j].of
    BY <1>2, <2>1, FailedStep
  <2>3. Attended(c)' /\ stranded \subseteq stranded'
    BY <1>2, <2>1, <2>2 DEF Attended, Owed, Owes
  <2> QED
    BY <1>1, <1>4, <2>1, <2>2, <2>3, WorkerAttends
<1>13. CASE Crash(w)
  <2>1. job \in [Jobs -> JobRows] /\ delivery' = delivery
    BY <1>13, Types DEF Held, Crash
  <2>2. \A i \in Jobs \ {j} : job'[i] = job[i]
    BY <1>13, <2>1 DEF Crash
  <2>3. Attended(c)' /\ stranded \subseteq stranded'
    <3>1. CASE job[j].stalled
      BY <1>13, <3>1 DEF Crash, Attended
    <3>2. CASE ~job[j].stalled
      <4>1. job'[j].state = "waiting" /\ job'[j].of = c /\ stranded' = stranded
        BY <1>2, <1>13, <2>1, <3>2 DEF Crash, JobRows
      <4> QED
        BY <4>1 DEF Attended, Owed, Owes
    <3> QED
      BY <3>1, <3>2
  <2> QED
    BY <1>1, <1>4, <2>1, <2>2, <2>3, WorkerAttends
<1> QED
  BY <1>7, <1>8, <1>9, <1>10, <1>11, <1>12, <1>13

LEMMA AttendedStep == Held /\ AllAttended /\ [Next]_vars => AllAttended'
<1> SUFFICES ASSUME Held, AllAttended, [Next]_vars PROVE AllAttended'
  OBVIOUS
<1>h. Held'
  BY HeldStep
<1>1. CASE UNCHANGED vars
  BY <1>1, OthersAttend DEF vars, rows
<1>2. ASSUME NEW v \in Events, FindEndpoints(v) \/ EmitThrows(v) \/ \E e \in Endpoints : SendTestEvent(v, e)
      PROVE  AllAttended'
  BY <1>2, OthersAttend DEF FindEndpoints, EmitThrows, SendTestEvent
<1>3. ASSUME NEW v \in Events, NEW e \in Endpoints, FanOut(v, e) PROVE AllAttended'
  <2> PICK c \in Deliveries : c = <<e, v>>
    BY DEF Deliveries
  <2>1. MaxAttempts \in 1..MaxAttempts /\ (Add(c, MaxAttempts) \/ AddFails(c)) /\ UNCHANGED <<pc, local>>
    BY <1>3, WebhookBounds DEF FanOut
  <2>2. \A d \in Deliveries \ {c} : delivery'[d] = delivery[d]
    BY <1>3, Types DEF FanOut, Held
  <2>3. /\ \A j \in Jobs : job[j] # FreeJob => job'[j] = job[j]
        /\ stranded \subseteq stranded' /\ Attended(c)'
    BY <2>1, AddAttends
  <2> QED
    BY <2>1, <2>2, <2>3, OthersAttend
<1>4. ASSUME NEW w \in Handlers, NEW j \in Jobs, Take(w, j) PROVE AllAttended'
  <2> PICK l : l = [NoLocal EXCEPT !.job = j, !.of = job[j].of, !.at = job[j].of[1]]
    OBVIOUS
  <2>0. w \in Workers /\ pc[w] = "idle" /\ job[j].state = "waiting" /\ Goto(w, "load", l) /\ l.job = j
    BY <1>4 DEF Take, NoLocal
  <2>1. /\ w \in Workers /\ pc[w] = "idle" /\ job[j].state = "waiting"
        /\ pc'[w] = "load" /\ local'[w].job = j
        /\ \A h \in Handlers \ {w} : pc'[h] = pc[h] /\ local'[h] = local[h]
    BY <2>0, GotoStep DEF Held
  <2>2. \A i \in Jobs \ {j} : job'[i] = job[i]
    BY <1>4, Types DEF Take, Held
  <2>3. job'[j].of = job[j].of
    BY <1>4, Types DEF Take, Held, JobRows
  <2>4. \A d : Owes(j, d) => Owes(j, d)'
    BY <2>1, <2>3 DEF Owes, AtIt
  <2>5. ASSUME NEW i \in Jobs \ {j}, NEW d, Owes(i, d) PROVE Owes(i, d)'
    <3>1. \A v \in Workers : pc[v] # "idle" /\ local[v].job = i => pc'[v] = pc[v] /\ local'[v] = local[v]
      BY <2>1 DEF Handlers
    <3> QED
      BY <2>2, <2>5, <3>1, OwesStays
  <2>6. \A q \in Requests : pc'[q] = pc[q] /\ local'[q] = local[q]
    BY <2>1, WebhookNames DEF Handlers
  <2>7. ASSUME NEW d \in Deliveries PROVE Attended(d)'
    <3>1. delivery' = delivery /\ stranded' = stranded /\ Attended(d)
      BY <1>4 DEF Take, AllAttended
    <3>2. CASE Settled(d) \/ d \in stranded
      BY <3>1, <3>2 DEF Attended, Settled
    <3>3. CASE Owed(d)
      BY <2>4, <2>5, <2>6, <3>3 DEF Attended, Owed
    <3> QED
      BY <3>1, <3>2, <3>3 DEF Attended
  <2> QED
    BY <2>7 DEF AllAttended
<1>5. ASSUME NEW j \in Jobs, BackoffEnds(j) PROVE AllAttended'
  <2>1. /\ \A i \in Jobs \ {j} : job'[i] = job[i]
        /\ job'[j].of = job[j].of /\ job'[j].state = "waiting"
    BY <1>5, Types DEF BackoffEnds, Held, JobRows
  <2>2. UNCHANGED <<pc, local, delivery, stranded>>
    BY <1>5 DEF BackoffEnds
  <2>3. ASSUME NEW i \in Jobs, NEW d, Owes(i, d) PROVE Owes(i, d)'
    <3>1. CASE i = j
      BY <2>1, <2>3, <3>1 DEF Owes
    <3>2. CASE i # j
      BY <2>1, <2>2, <2>3, <3>2, OwesStays
    <3> QED
      BY <3>1, <3>2
  <2>4. ASSUME NEW d \in Deliveries PROVE Attended(d)'
    <3>1. CASE Settled(d) \/ d \in stranded
      BY <2>2, <3>1 DEF Attended, Settled
    <3>2. CASE Owed(d)
      BY <2>2, <2>3, <3>2 DEF Attended, Owed
    <3> QED
      BY <3>1, <3>2 DEF AllAttended, Attended
  <2> QED
    BY <2>4 DEF AllAttended
<1>6. ASSUME NEW h \in Handlers,
             \/ \E e \in Endpoints : AskPause(h, e) \/ AskActivate(h, e) \/ AskDelete(h, e)
             \/ \E d \in Deliveries : AskRetry(h, d)
      PROVE  AllAttended'
  <2>1. PICK label \in Asking, e \in Endpoints, d \in Deliveries \cup {Nobody} : Found(h, e, label, d)
    BY <1>6, DeliveryOf DEF AskPause, AskActivate, AskDelete, AskRetry, Asking
  <2>2. UNCHANGED rows /\ Goto(h, label, [NoLocal EXCEPT !.at = e, !.of = d]) /\ h \in Requests /\ pc[h] = "idle"
    BY <2>1 DEF Found
  <2>3. \A g \in Handlers \ {h} : pc'[g] = pc[g] /\ local'[g] = local[g]
    BY <2>2, GotoStep DEF Held
  <2>4. /\ \A w \in Workers : pc'[w] = pc[w] /\ local'[w] = local[w]
        /\ \A q \in Requests : pc[q] = "enqueue" => pc'[q] = "enqueue" /\ local'[q] = local[q]
    BY <2>2, <2>3, WebhookNames DEF Handlers
  <2> QED
    BY <2>2, <2>4, OthersAttend DEF rows
<1> QED
  BY <1>h, <1>1, <1>2, <1>3, <1>4, <1>5, <1>6, AttendedByRequests, AttendedByWorkers DEF Next, Continue

\* webhooks/queue: a row is never left half done, except by a fault that took its job.
THEOREM NothingLeftHalfDone == Spec => []SettledWhenIdle
<1>1. AllAttended /\ Held => SettledWhenIdle
  <2> SUFFICES ASSUME AllAttended, Held, NEW d \in Deliveries,
                      delivery[d].status # "NONE", d \notin stranded, JobsOf(d) = {},
                      \A q \in Requests : pc[q] = "enqueue" => local[q].of # d
               PROVE  \/ delivery[d].status \in {"DELIVERED", "EXHAUSTED"}
                      \/ delivery[d].status = "FAILED" /\ delivery[d].refused
    BY DEF SettledWhenIdle
  <2>1. ~Owed(d)
    BY DEF Owed, Owes, JobsOf
  <2> QED
    BY <2>1 DEF AllAttended, Attended, Settled
<1> QED
  BY <1>1, AlwaysHeld, AttendedInit, AttendedStep, PTL DEF Spec

-----------------------------------------------------------------------------
(***************************************************************************)
(* The attempts each job of a delivery has left are counted one by one: a  *)
(* job's slot and the number of the attempt.  A worker that wrote its      *)
(* failure down is past its attempt.                                       *)
(***************************************************************************)
Past == {"count", "disable", "complete"}
Done(j) == \E w \in Workers : pc[w] \in Past /\ local[w].job = j

Slots == Jobs \X (0 .. MaxAttempts - 1)

Left(d) == {t \in Slots : /\ job[t[1]].of = d
                          /\ job[t[1]].made <= t[2] /\ t[2] < job[t[1]].max
                          /\ t[2] = job[t[1]].made => ~Done(t[1])}

Granted(d) == IF delivery[d].status = "NONE" THEN 0 ELSE MaxAttempts

Budgeted(d) == delivery[d].attempts + Cardinality(Left(d)) <= Granted(d) + retries + faults
AllBudgeted == \A d \in Deliveries : Budgeted(d)

\* A row comes before its jobs, and an endpoint still owed one has none.
Begun ==
    /\ \A v \in Events : emit[v].state = "new" => emit[v].to = {}
    /\ \A v \in Events, e \in Endpoints :
          emit[v].state = "new" \/ e \in emit[v].to => delivery[<<e, v>>].status = "NONE"
    /\ \A j \in Jobs, d \in Deliveries : job[j].of = d => delivery[d].status # "NONE"
    /\ \A q \in Requests, d \in Deliveries :
          pc[q] \in {"reset", "enqueue"} /\ local[q].of = d => delivery[d].status # "NONE"

LEMMA BegunInit == Init => Begun
BY WebhookNames DEF Init, Begun, Deliveries, NoDelivery, FreeJob, Handlers

LEMMA BegunKept ==
    ASSUME Begun,
           \A v \in Events : emit'[v].state = "new" => emit'[v].to = {},
           \A v \in Events, e \in Endpoints :
             emit'[v].state = "new" \/ e \in emit'[v].to => emit[v].state = "new" \/ e \in emit[v].to,
           \A d \in Deliveries : delivery'[d].status = "NONE" <=> delivery[d].status = "NONE",
           \A j \in Jobs, d \in Deliveries :
             job'[j].of = d => job[j].of = d \/ delivery[d].status # "NONE",
           \A q \in Requests, d \in Deliveries :
             pc'[q] \in {"reset", "enqueue"} /\ local'[q].of = d =>
               (pc[q] \in {"reset", "enqueue"} /\ local[q].of = d) \/ delivery[d].status # "NONE"
    PROVE  Begun'
<1>1. \A v \in Events, e \in Endpoints : <<e, v>> \in Deliveries
  BY DEF Deliveries
<1> QED
  BY <1>1 DEF Begun

LEMMA BegunByWorkers ==
    ASSUME Held, Held', Begun, NEW w \in Handlers,
           \/ Load(w) \/ Refuse(w) \/ MarkProcessing(w) \/ Post(w)
           \/ FinalizeSuccess(w) \/ FinalizeFailure(w) \/ CountFailure(w) \/ Disable(w)
           \/ Complete(w) \/ Throw(w) \/ Crash(w)
    PROVE  Begun'
<1>1. w \in Workers /\ pc[w] # "idle" /\ emit' = emit
  BY DEF Load, Refuse, MarkProcessing, Post, FinalizeSuccess, FinalizeFailure, CountFailure, Disable,
         Complete, Throw, Crash, Held, RequestOK, Handlers, Asking, rows
<1> PICK j \in Jobs, c \in Deliveries : j = local[w].job /\ c = local[w].of
  BY <1>1 DEF Held, WorkerOK
<1>2. job[j].of = c /\ job[j].state = "active" /\ job[j] # FreeJob /\ delivery[c].status # "NONE"
  BY <1>1 DEF Held, WorkerOK, FreeJob, Begun
<1>3. \E label, l : Goto(w, label, l)
  BY DEF Load, Refuse, MarkProcessing, Post, FinalizeSuccess, FinalizeFailure, CountFailure, Disable,
         Complete, Throw, Crash, Return
<1>4. \A q \in Requests : pc'[q] = pc[q] /\ local'[q] = local[q]
  BY <1>1, <1>3, GotoStep, WebhookNames DEF Held, Handlers
<1>5. delivery \in [Deliveries -> DeliveryRows] /\ job \in [Jobs -> JobRows]
  BY Types DEF Held
<1>6. \A d \in Deliveries : delivery'[d].status = "NONE" <=> delivery[d].status = "NONE"
  <2>1. CASE UNCHANGED delivery
    BY <2>1
  <2>2. CASE Refuse(w) \/ MarkProcessing(w) \/ FinalizeSuccess(w) \/ FinalizeFailure(w)
    BY <1>2, <1>5, <2>2 DEF Refuse, MarkProcessing, FinalizeSuccess, FinalizeFailure, DeliveryRows
  <2> QED
    BY <2>1, <2>2 DEF Load, Post, CountFailure, Disable, Complete, Throw, Crash, rows
<1>7. \A i \in Jobs, d \in Deliveries : job'[i].of = d => job[i].of = d
  <2>1. CASE UNCHANGED job
    BY <2>1
  <2>2. CASE job' = [job EXCEPT ![j] = Failed(j)]
    <3>1. /\ \A i \in Jobs \ {j} : job'[i] = job[i]
          /\ job'[j] = FreeJob \/ job'[j].of = job[j].of
      BY <1>2, <2>2, FailedStep
    <3> QED
      BY <3>1, WebhookNames DEF FreeJob
  <2>3. CASE job' = [job EXCEPT ![j] = FreeJob] \/ job' = [job EXCEPT ![j].state = "waiting", ![j].stalled = TRUE]
    BY <1>5, <2>3, WebhookNames DEF FreeJob, JobRows
  <2> QED
    BY <2>1, <2>2, <2>3 DEF Load, Refuse, MarkProcessing, Post, FinalizeSuccess, FinalizeFailure,
                            CountFailure, Disable, Complete, Throw, Crash, rows
<1> QED
  BY <1>1, <1>4, <1>6, <1>7, BegunKept DEF Begun

LEMMA BegunStep == Held /\ Begun /\ [Next]_vars => Begun'
<1> SUFFICES ASSUME Held, Begun, [Next]_vars PROVE Begun'
  OBVIOUS
<1>h. Held'
  BY HeldStep
<1>1. CASE UNCHANGED vars
  BY <1>1, BegunKept DEF vars, rows, Begun
<1>2. ASSUME NEW v \in Events, FindEndpoints(v) \/ EmitThrows(v) \/ \E e \in Endpoints : SendTestEvent(v, e)
      PROVE  Begun'
  <2>1. emit \in [Events -> [state: {"new", "fanout"}, to: SUBSET Endpoints]]
    BY Types DEF Held
  <2>2. \A u \in Events, e \in Endpoints :
          emit'[u].state = "new" \/ e \in emit'[u].to => emit[u].state = "new" \/ e \in emit[u].to
    BY <1>2, <2>1 DEF FindEndpoints, EmitThrows, SendTestEvent
  <2>3. \A u \in Events : emit'[u].state = "new" => emit'[u].to = {}
    BY <1>2, <2>1 DEF FindEndpoints, EmitThrows, SendTestEvent, Begun
  <2> QED
    BY <1>2, <2>2, <2>3, BegunKept DEF FindEndpoints, EmitThrows, SendTestEvent
<1>3. ASSUME NEW v \in Events, NEW e \in Endpoints, FanOut(v, e) PROVE Begun'
  <2> PICK c \in Deliveries : c = <<e, v>>
    BY DEF Deliveries
  <2>1. MaxAttempts \in 1..MaxAttempts /\ (Add(c, MaxAttempts) \/ AddFails(c)) /\ UNCHANGED <<pc, local>>
    BY <1>3, WebhookBounds DEF FanOut
  <2>2. /\ \A d \in Deliveries \ {c} : delivery'[d] = delivery[d]
        /\ delivery'[c].status = "PENDING"
    BY <1>3, Types DEF FanOut, Held, DeliveryRows
  <2>3. \A u \in Events, f \in Endpoints :
          (emit'[u].state = "new" \/ f \in emit'[u].to) =>
            (emit[u].state = "new" \/ f \in emit[u].to) /\ <<f, u>> # c
    <3>1. emit \in [Events -> [state: {"new", "fanout"}, to: SUBSET Endpoints]] /\ e \in emit[v].to
      BY <1>3, Types DEF Held, FanOut
    <3>2. emit[v].state # "new"
      BY <3>1 DEF Begun
    <3>3. \A u \in Events : emit'[u] = IF u = v THEN [emit[v] EXCEPT !.to = @ \ {e}] ELSE emit[u]
      BY <1>3, <3>1 DEF FanOut
    <3> QED
      BY <3>1, <3>2, <3>3
  <2>4. \A j \in Jobs : job'[j] = job[j] \/ job'[j].of = c
    <3>1. \/ job' = job
          \/ \E i \in Jobs : /\ job'[i] = [state |-> "waiting", of |-> c, made |-> 0,
                                           max |-> MaxAttempts, stalled |-> FALSE]
                             /\ \A j \in Jobs \ {i} : job'[j] = job[j]
      BY <2>1, AddStep
    <3> QED
      BY <3>1
  <2>5. \A u \in Events, f \in Endpoints : <<f, u>> \in Deliveries
    BY DEF Deliveries
  <2>6. \A u \in Events : emit'[u].state = "new" => emit'[u].to = {}
    BY <1>3, Types DEF FanOut, Begun, Held
  <2> QED
    BY <2>1, <2>2, <2>3, <2>4, <2>5, <2>6 DEF Begun
<1>4. ASSUME NEW w \in Handlers, NEW j \in Jobs, Take(w, j) PROVE Begun'
  <2>1. \A i \in Jobs : job'[i].of = job[i].of
    BY <1>4, Types DEF Take, Held, JobRows
  <2>2. \E l : Goto(w, "load", l)
    BY <1>4 DEF Take
  <2>3. \A q \in Requests : pc'[q] = pc[q] /\ local'[q] = local[q]
    BY <1>4, <2>2, GotoStep, WebhookNames DEF Take, Held, Handlers
  <2>4. UNCHANGED <<delivery, emit>>
    BY <1>4 DEF Take
  <2> QED
    BY <2>1, <2>3, <2>4, BegunKept DEF Begun
<1>5. ASSUME NEW j \in Jobs, BackoffEnds(j) PROVE Begun'
  <2>1. \A i \in Jobs : job'[i].of = job[i].of
    BY <1>5, Types DEF BackoffEnds, Held, JobRows
  <2> QED
    BY <1>5, <2>1, BegunKept DEF BackoffEnds, Begun
<1>6. ASSUME NEW q \in Handlers,
             \/ \E e \in Endpoints : AskPause(q, e) \/ AskActivate(q, e) \/ AskDelete(q, e)
             \/ \E d \in Deliveries : AskRetry(q, d)
             \/ Pause(q) \/ Activate(q) \/ SoftDelete(q)
      PROVE  Begun'
  <2>1. UNCHANGED <<job, delivery, emit>>
    BY <1>6 DEF AskPause, AskActivate, AskDelete, AskRetry, Found, Pause, Activate, SoftDelete, SetEndpoint, rows
  <2>2. \E label \in {"pause", "activate", "delete", "check", "idle"} : \E l : Goto(q, label, l)
    BY <1>6 DEF AskPause, AskActivate, AskDelete, AskRetry, Found, Pause, Activate, SoftDelete, SetEndpoint, Return
  <2>3. /\ pc'[q] \notin {"reset", "enqueue"}
        /\ \A r \in Requests \ {q} : pc'[r] = pc[r] /\ local'[r] = local[r]
    BY <2>2, GotoStep DEF Held, Handlers
  <2> QED
    BY <2>1, <2>3, BegunKept DEF Begun
<1>7. ASSUME NEW q \in Handlers, CheckRetryable(q) \/ ResetDelivery(q) PROVE Begun'
  <2>1. q \in Requests /\ local[q].of \in Deliveries /\ UNCHANGED <<job, emit>>
    BY <1>7 DEF CheckRetryable, ResetDelivery, Held, WorkerOK, RequestOK, Handlers, AtWork, Asking, rows
  <2> PICK c \in Deliveries : c = local[q].of
    BY <2>1
  <2>2. \E label, l : Goto(q, label, l)
    BY <1>7 DEF CheckRetryable, ResetDelivery, Return
  <2>3. \A r \in Requests \ {q} : pc'[r] = pc[r] /\ local'[r] = local[r]
    BY <2>2, GotoStep DEF Held, Handlers
  <2>4. delivery \in [Deliveries -> DeliveryRows]
    BY Types DEF Held
  <2>5. CASE CheckRetryable(q)
    <3>1. UNCHANGED delivery
      BY <2>5 DEF CheckRetryable, rows
    <3>2. \/ pc'[q] = "idle"
          \/ delivery[c].status # "NONE" /\ local'[q].of = c
      BY <2>5, GotoStep DEF CheckRetryable, Return, Held
    <3> QED
      BY <2>1, <2>3, <3>1, <3>2, BegunKept DEF Begun
  <2>6. CASE ResetDelivery(q)
    <3>1. delivery[c].status # "NONE" /\ pc[q] = "reset"
      BY <2>1, <2>6 DEF ResetDelivery, Begun
    <3>2. delivery' = [delivery EXCEPT ![c].status = "PENDING"] /\ local'[q] = local[q]
      BY <2>6, GotoStep DEF ResetDelivery, Held
    <3>3. \A d \in Deliveries : delivery'[d].status = "NONE" <=> delivery[d].status = "NONE"
      BY <2>4, <3>1, <3>2 DEF DeliveryRows
    <3> QED
      BY <2>1, <2>3, <3>1, <3>2, <3>3, BegunKept DEF Begun
  <2> QED
    BY <1>7, <2>5, <2>6
<1>8. ASSUME NEW q \in Handlers, EnqueueRetry(q) PROVE Begun'
  <2>1. q \in Requests /\ local[q].of \in Deliveries /\ pc[q] = "enqueue" /\ UNCHANGED <<delivery, emit>>
    BY <1>8 DEF EnqueueRetry, Held, WorkerOK, RequestOK, Handlers, AtWork, Asking
  <2> PICK c \in Deliveries : c = local[q].of
    BY <2>1
  <2>2. 1 \in 1..MaxAttempts /\ (Add(c, 1) \/ AddFails(c)) /\ Return(q)
    BY <1>8, WebhookBounds DEF EnqueueRetry
  <2>3. /\ pc'[q] = "idle"
        /\ \A r \in Requests \ {q} : pc'[r] = pc[r] /\ local'[r] = local[r]
    BY <2>2, GotoStep DEF Return, Held, Handlers
  <2>4. \A j \in Jobs : job'[j] = job[j] \/ job'[j].of = c
    <3>1. \/ job' = job
          \/ \E i \in Jobs : /\ job'[i] = [state |-> "waiting", of |-> c, made |-> 0,
                                           max |-> 1, stalled |-> FALSE]
                             /\ \A j \in Jobs \ {i} : job'[j] = job[j]
      BY <2>2, AddStep
    <3> QED
      BY <3>1
  <2>5. delivery[c].status # "NONE"
    BY <2>1 DEF Begun
  <2> QED
    BY <2>1, <2>3, <2>4, <2>5, BegunKept DEF Begun
<1> QED
  BY <1>h, <1>1, <1>2, <1>3, <1>4, <1>5, <1>6, <1>7, <1>8, BegunByWorkers DEF Next, Continue

\* Finitely many attempts.
LEMMA Slotted ==
    ASSUME NEW S \in SUBSET Slots
    PROVE  /\ IsFiniteSet(S) /\ Cardinality(S) \in Nat
           /\ \A T \in SUBSET S : Cardinality(T) \in Nat /\ Cardinality(T) <= Cardinality(S)
           /\ \A t \in S : Cardinality(S \ {t}) = Cardinality(S) - 1
           /\ \A T \in SUBSET Slots : Cardinality(T) \in Nat /\ Cardinality(S \cup T) <= Cardinality(S) + Cardinality(T)
<1>1. IsFiniteSet(0 .. MaxAttempts - 1)
  BY WebhookBounds, FS_Interval
<1>2. IsFiniteSet(Slots)
  BY <1>1, WebhookNames, FS_Product DEF Slots
<1>3. \A T \in SUBSET Slots : IsFiniteSet(T) /\ Cardinality(T) \in Nat
  BY <1>2, FS_Subset, FS_CardinalityType
<1>4. \A T \in SUBSET S : Cardinality(T) \in Nat /\ Cardinality(T) <= Cardinality(S)
  BY <1>3, FS_Subset
<1>5. \A t \in S : Cardinality(S \ {t}) = Cardinality(S) - 1
  BY <1>3, FS_RemoveElement
<1>6. ASSUME NEW T \in SUBSET Slots PROVE Cardinality(S \cup T) <= Cardinality(S) + Cardinality(T)
  <2>1. /\ Cardinality(S \cup T) = Cardinality(S) + Cardinality(T) - Cardinality(S \cap T)
        /\ Cardinality(S \cap T) \in Nat /\ Cardinality(S) \in Nat /\ Cardinality(T) \in Nat
    BY <1>3, FS_Union
  <2> QED
    BY <2>1
<1> QED
  BY <1>3, <1>4, <1>5, <1>6

\* A step after which a job has no attempt left that it had not before.
Lessens(j) ==
    \/ job'[j] = FreeJob
    \/ /\ job'[j].of = job[j].of /\ job'[j].max = job[j].max
       /\ \/ job'[j].made = job[j].made /\ (Done(j) => Done(j)')
          \/ job'[j].made = job[j].made + 1

LEMMA LeftBefore ==
    ASSUME Held, Held', NEW d \in Deliveries, NEW t \in Left(d)', Lessens(t[1])
    PROVE  t \in Left(d)
<1>1. t \in Slots /\ t[1] \in Jobs /\ t[2] \in Nat
  BY WebhookBounds DEF Left, Slots
<1>2. job[t[1]] \in JobRows /\ job'[t[1]].of = d /\ job'[t[1]].of # Nobody
  BY <1>1, Types, WebhookNames DEF Held, Left
<1>3. job'[t[1]] # FreeJob
  BY <1>2 DEF FreeJob
<1> QED
  BY <1>1, <1>2, <1>3 DEF Left, Lessens, JobRows

\* A worker that is past its attempt stays so while it has the job.
LEMMA DoneStays ==
    ASSUME NEW j \in Jobs,
           \A w \in Workers : pc[w] \in Past /\ local[w].job = j => pc'[w] \in Past /\ local'[w].job = j
    PROVE  Done(j) => Done(j)'
BY DEF Done

\* No row is unmade.
LEMMA GrantedKept ==
    ASSUME NEW d \in Deliveries, delivery[d].status # "NONE" => delivery'[d].status # "NONE"
    PROVE  Granted(d) \in Nat /\ Granted(d)' \in Nat /\ Granted(d)' >= Granted(d)
<1>1. CASE delivery[d].status = "NONE"
  <2>1. Granted(d) = 0 /\ Granted(d)' \in {0, MaxAttempts}
    BY <1>1 DEF Granted
  <2> QED
    BY <2>1, WebhookBounds
<1>2. CASE delivery[d].status # "NONE"
  <2>1. Granted(d) = MaxAttempts /\ Granted(d)' = MaxAttempts
    BY <1>2 DEF Granted
  <2> QED
    BY <2>1, WebhookBounds
<1> QED
  BY <1>1, <1>2

\* A step that makes no attempt.
LEMMA NothingSpent ==
    ASSUME Held, Held', AllBudgeted,
           \A j \in Jobs : Lessens(j),
           \A d \in Deliveries : delivery'[d].attempts = delivery[d].attempts,
           \A d \in Deliveries : delivery[d].status # "NONE" => delivery'[d].status # "NONE",
           retries' >= retries, faults' >= faults
    PROVE  AllBudgeted'
<1> SUFFICES ASSUME NEW d \in Deliveries PROVE Budgeted(d)'
  BY DEF AllBudgeted
<1>1. Left(d)' \in SUBSET Left(d) /\ Left(d) \in SUBSET Slots
  <2>1. \A t \in Left(d)' : t[1] \in Jobs
    BY DEF Left, Slots
  <2> QED
    BY <2>1, LeftBefore DEF Left
<1>2. /\ Cardinality(Left(d)') \in Nat /\ Cardinality(Left(d)) \in Nat
      /\ Cardinality(Left(d)') <= Cardinality(Left(d))
  BY <1>1, Slotted
<1>3. /\ delivery[d].attempts \in Nat /\ retries \in Nat /\ faults \in Nat
      /\ retries' \in Nat /\ faults' \in Nat
  BY Types, WebhookBounds DEF Held, DeliveryRows, TypeOK
<1>4. Granted(d) \in Nat /\ Granted(d)' \in Nat /\ Granted(d)' >= Granted(d)
  BY GrantedKept
<1> QED
  BY <1>2, <1>3, <1>4 DEF AllBudgeted, Budgeted

\* A step that adds a job of max attempts to one delivery.
LEMMA NewJob ==
    ASSUME Held, Held', AllBudgeted, NEW c \in Deliveries, NEW max \in 1..MaxAttempts,
           Add(c, max) \/ AddFails(c), \A w \in Workers : pc'[w] = pc[w] /\ local'[w] = local[w],
           \A d \in Deliveries : delivery'[d].attempts = delivery[d].attempts,
           \A d \in Deliveries : delivery[d].status # "NONE" => delivery'[d].status # "NONE",
           retries' >= retries,
           Granted(c)' + retries' >= Granted(c) + retries + max
    PROVE  AllBudgeted'
<1>1. \A j \in Jobs : job'[j] = job[j] => Lessens(j)
  <2> SUFFICES ASSUME NEW j \in Jobs, job'[j] = job[j] PROVE Done(j) => Done(j)'
    BY DEF Lessens
  <2> QED
    BY DEF Done
<1>2. /\ faults' >= faults
      /\ \/ job' = job
         \/ \E i \in Jobs : /\ job'[i] = [state |-> "waiting", of |-> c, made |-> 0,
                                          max |-> max, stalled |-> FALSE]
                            /\ \A j \in Jobs \ {i} : job'[j] = job[j]
  BY AddStep DEF Held, TypeOK
<1>3. CASE job' = job
  BY <1>1, <1>2, <1>3, NothingSpent
<1>4. ASSUME NEW i \in Jobs, \A j \in Jobs \ {i} : job'[j] = job[j],
             job'[i] = [state |-> "waiting", of |-> c, made |-> 0, max |-> max, stalled |-> FALSE]
      PROVE  AllBudgeted'
  <2> SUFFICES ASSUME NEW d \in Deliveries PROVE Budgeted(d)'
    BY DEF AllBudgeted
  <2> DEFINE New == IF d = c THEN {i} \X (0 .. max - 1) ELSE {}
  <2>1. Left(d)' \subseteq Left(d) \cup New /\ Left(d)' \in SUBSET Slots /\ Left(d) \in SUBSET Slots
    <3>1. ASSUME NEW t \in Left(d)', t[1] # i PROVE t \in Left(d)
      <4>1. t[1] \in Jobs
        BY DEF Left, Slots
      <4> QED
        BY <1>1, <1>4, <3>1, <4>1, LeftBefore
    <3>2. ASSUME NEW t \in Left(d)', t[1] = i PROVE t \in New
      <4>1. t \in Jobs \X (0 .. MaxAttempts - 1) /\ job'[i].of = d /\ t[2] < job'[i].max
        BY <3>2 DEF Left, Slots
      <4>2. d = c /\ t[2] \in 0 .. max - 1
        BY <1>4, <4>1, WebhookBounds
      <4> QED
        BY <3>2, <4>1, <4>2
    <3> QED
      BY <3>1, <3>2 DEF Left
  <2>2. New \in SUBSET Slots /\ Cardinality(New) = IF d = c THEN max ELSE 0
    <3>1. IsFiniteSet({i}) /\ Cardinality({i}) = 1
      BY FS_Singleton
    <3>2. IsFiniteSet(0 .. max - 1) /\ Cardinality(0 .. max - 1) = max
      BY WebhookBounds, FS_Interval
    <3>3. Cardinality({i} \X (0 .. max - 1)) = max
      <4>1. Cardinality({i} \X (0 .. max - 1)) = Cardinality({i}) * Cardinality(0 .. max - 1)
        BY <3>1, <3>2, FS_Product
      <4>2. 1 * max = max
        BY WebhookBounds
      <4> QED
        BY <3>1, <3>2, <4>1, <4>2
    <3>4. {i} \X (0 .. max - 1) \in SUBSET Slots
      BY WebhookBounds DEF Slots
    <3> QED
      BY <3>3, <3>4, FS_EmptySet, WebhookBounds
  <2> HIDE DEF New
  <2>3. /\ Cardinality(Left(d)') \in Nat /\ Cardinality(Left(d)) \in Nat
        /\ Cardinality(Left(d)') <= Cardinality(Left(d)) + IF d = c THEN max ELSE 0
    <3>1. Cardinality(Left(d) \cup New) <= Cardinality(Left(d)) + Cardinality(New)
      BY <2>1, <2>2, Slotted
    <3>2. Cardinality(Left(d)') <= Cardinality(Left(d) \cup New) /\ Cardinality(Left(d) \cup New) \in Nat
      <4>1. Left(d) \cup New \in SUBSET Slots
        BY <2>1, <2>2
      <4> QED
        BY <2>1, <4>1, Slotted
    <3>3. Cardinality(Left(d)') \in Nat /\ Cardinality(Left(d)) \in Nat
      BY <2>1, Slotted
    <3> QED
      BY <2>2, <3>1, <3>2, <3>3, WebhookBounds
  <2>4. /\ delivery[d].attempts \in Nat /\ retries \in Nat /\ faults \in Nat
        /\ retries' \in Nat /\ faults' \in Nat /\ max \in Nat
    BY Types, WebhookBounds DEF Held, DeliveryRows, TypeOK
  <2>5. Granted(d) \in Nat /\ Granted(d)' \in Nat /\ Granted(d)' >= Granted(d)
    BY GrantedKept
  <2> QED
    BY <1>2, <2>3, <2>4, <2>5 DEF AllBudgeted, Budgeted
<1> QED
  BY <1>2, <1>3, <1>4

LEMMA BudgetedByWorkers ==
    ASSUME Held, Held', Begun, AllBudgeted, NEW w \in Handlers,
           \/ Load(w) \/ Refuse(w) \/ MarkProcessing(w) \/ Post(w)
           \/ FinalizeSuccess(w) \/ FinalizeFailure(w) \/ CountFailure(w) \/ Disable(w)
           \/ Complete(w) \/ Throw(w) \/ Crash(w)
    PROVE  AllBudgeted'
<1>1. w \in Workers /\ pc[w] # "idle" /\ retries' = retries
  <2>1. w \in Workers /\ pc[w] # "idle"
    BY DEF Load, Refuse, MarkProcessing, Post, FinalizeSuccess, FinalizeFailure, CountFailure, Disable,
           Complete, Throw, Crash, Held, RequestOK, Handlers, Asking
  <2>2. retries' = retries
    BY DEF Load, Refuse, MarkProcessing, Post, FinalizeSuccess, FinalizeFailure, CountFailure, Disable,
           Complete, Throw, Crash, rows
  <2> QED
    BY <2>1, <2>2
<1> PICK j \in Jobs, c \in Deliveries : j = local[w].job /\ c = local[w].of
  BY <1>1 DEF Held, WorkerOK
<1>2. job[j].of = c /\ job[j].state = "active" /\ job[j] # FreeJob /\ delivery[c].status # "NONE"
  BY <1>1 DEF Held, WorkerOK, FreeJob, Begun
<1>3. \E label, l : Goto(w, label, l)
  BY DEF Load, Refuse, MarkProcessing, Post, FinalizeSuccess, FinalizeFailure, CountFailure, Disable,
         Complete, Throw, Crash, Return
<1>4. \A v \in Workers \ {w} : pc'[v] = pc[v] /\ local'[v] = local[v]
  BY <1>3, GotoStep DEF Held, Handlers
<1>5. /\ delivery \in [Deliveries -> DeliveryRows] /\ job \in [Jobs -> JobRows]
      /\ retries \in Nat /\ faults \in Nat /\ local[w] \in Locals
      /\ job[j].made \in Nat /\ job[j].max \in Nat /\ job[j].made < job[j].max /\ job[j].max <= MaxAttempts
  <2>1. job \in [Jobs -> JobRows] /\ JobOK(j)
    BY Types DEF Held
  <2> QED
    BY <1>1, <1>2, <2>1, Types DEF Held, TypeOK, JobOK, JobRows, Handlers
<1>6. ASSUME NEW i \in Jobs \ {j} PROVE Done(i) => Done(i)'
  BY <1>4, <1>6, DoneStays
<1>7. CASE Load(w) \/ Refuse(w) \/ MarkProcessing(w) \/ Post(w) \/ CountFailure(w) \/ Disable(w)
  <2>1. job' = job /\ faults' = faults
    BY <1>7 DEF Load, Refuse, MarkProcessing, Post, CountFailure, Disable, rows
  <2>2. pc[w] \in Past => pc'[w] \in Past /\ local'[w] = local[w]
    BY <1>7, GotoStep DEF Load, Refuse, MarkProcessing, Post, CountFailure, Disable, Past, Held
  <2>3. \A i \in Jobs : Lessens(i)
    <3>1. \A i \in Jobs : Done(i) => Done(i)'
      BY <1>4, <2>2, DoneStays
    <3> QED
      BY <2>1, <3>1 DEF Lessens
  <2>4. \A d \in Deliveries : /\ delivery'[d].attempts = delivery[d].attempts
                              /\ delivery[d].status # "NONE" => delivery'[d].status # "NONE"
    <3>1. CASE Refuse(w) \/ MarkProcessing(w)
      BY <1>5, <3>1 DEF Refuse, MarkProcessing, DeliveryRows
    <3>2. CASE UNCHANGED delivery
      BY <3>2
    <3> QED
      BY <1>7, <3>1, <3>2 DEF Load, Post, CountFailure, Disable, rows
  <2> QED
    BY <1>1, <1>5, <2>1, <2>3, <2>4, NothingSpent
<1>8. CASE FinalizeSuccess(w) \/ FinalizeFailure(w)
  <2>1. job' = job /\ faults' = faults /\ local'[w] = local[w] /\ pc[w] \notin Past /\ pc'[w] \in Past
    BY <1>8, GotoStep DEF FinalizeSuccess, FinalizeFailure, Past, Held
  <2>2. \A i \in Jobs : Lessens(i)
    <3>1. \A i \in Jobs : Done(i) => Done(i)'
      BY <1>4, <2>1, DoneStays
    <3> QED
      BY <2>1, <3>1 DEF Lessens
  <2>3. /\ \A d \in Deliveries \ {c} : delivery'[d] = delivery[d]
        /\ delivery'[c].attempts = delivery[c].attempts + 1 /\ delivery'[c].status # "NONE"
    BY <1>5, <1>8 DEF FinalizeSuccess, FinalizeFailure, DeliveryRows
  <2>4. ~Done(j) /\ Done(j)'
    <3>1. \A v \in Workers \ {w} : pc[v] \in Past => local[v].job # j
      BY <1>1 DEF Held, OneWorkerPerJob, Past
    <3> QED
      BY <1>1, <2>1, <3>1 DEF Done
  <2> SUFFICES ASSUME NEW d \in Deliveries PROVE Budgeted(d)'
    BY DEF AllBudgeted
  <2>5. Left(d)' \in SUBSET Left(d) /\ Left(d) \in SUBSET Slots
    <3>1. \A t \in Left(d)' : t[1] \in Jobs
      BY DEF Left, Slots
    <3> QED
      BY <2>2, <3>1, LeftBefore DEF Left
  <2>6. /\ Cardinality(Left(d)') \in Nat /\ Cardinality(Left(d)) \in Nat
        /\ Cardinality(Left(d)') <= Cardinality(Left(d))
    BY <2>5, Slotted
  <2>7. Granted(d) \in Nat /\ Granted(d)' \in Nat /\ Granted(d)' >= Granted(d)
    BY <2>3, GrantedKept
  <2>8. CASE d # c
    BY <1>1, <1>5, <2>1, <2>3, <2>6, <2>7, <2>8 DEF AllBudgeted, Budgeted, DeliveryRows
  <2>9. CASE d = c
    <3> DEFINE t == <<j, job[j].made>>
    <3>1. t \in Left(c)
      <4>1. t \in Slots
        BY <1>5, WebhookBounds DEF Slots
      <4> QED
        BY <1>2, <1>5, <2>4, <4>1 DEF Left
    <3>2. \A x \in Left(c)' : x # t
      BY <2>1, <2>4 DEF Left
    <3>3. Left(d)' \in SUBSET (Left(d) \ {t}) /\ Left(d) \ {t} \in SUBSET Slots
      BY <2>5, <2>9, <3>2
    <3>4. Cardinality(Left(d)') <= Cardinality(Left(d) \ {t})
      BY <3>3, Slotted
    <3>5. Cardinality(Left(d) \ {t}) = Cardinality(Left(d)) - 1
      BY <2>5, <2>9, <3>1, Slotted
    <3>6. delivery[c].attempts \in Nat
      BY <1>5 DEF DeliveryRows
    <3> QED
      BY <1>1, <1>5, <2>1, <2>3, <2>6, <2>7, <2>9, <3>4, <3>5, <3>6 DEF AllBudgeted, Budgeted
  <2> QED
    BY <2>8, <2>9
<1>9. CASE Complete(w) \/ Throw(w)
  <2>1. delivery' = delivery /\ faults' >= faults
    BY <1>5, <1>9 DEF Complete, Throw
  <2>2. Lessens(j) /\ \A i \in Jobs \ {j} : job'[i] = job[i]
    <3>1. CASE job' = [job EXCEPT ![j] = Failed(j)]
      <4>1. /\ \A i \in Jobs \ {j} : job'[i] = job[i]
            /\ \/ job'[j] = FreeJob
               \/ job'[j].of = job[j].of /\ job'[j].max = job[j].max /\ job'[j].made = job[j].made + 1
        BY <1>2, <3>1, FailedStep
      <4> QED
        BY <4>1 DEF Lessens
    <3>2. CASE job' = [job EXCEPT ![j] = FreeJob]
      BY <1>5, <3>2 DEF Lessens
    <3> QED
      BY <1>9, <3>1, <3>2 DEF Complete, Throw
  <2>3. \A i \in Jobs : Lessens(i)
    BY <1>6, <2>2 DEF Lessens
  <2> QED
    BY <1>1, <1>5, <2>1, <2>3, NothingSpent
<1>10. CASE Crash(w)
  <2>1. delivery' = delivery /\ faults' = faults + 1
    BY <1>10 DEF Crash
  <2>2. /\ \A i \in Jobs \ {j} : job'[i] = job[i]
        /\ \/ job'[j] = FreeJob
           \/ job'[j].of = job[j].of /\ job'[j].max = job[j].max /\ job'[j].made = job[j].made
    BY <1>5, <1>10 DEF Crash, JobRows
  <2>3. \A i \in Jobs \ {j} : Lessens(i)
    BY <1>6, <2>2 DEF Lessens
  <2> SUFFICES ASSUME NEW d \in Deliveries PROVE Budgeted(d)'
    BY DEF AllBudgeted
  <2> DEFINE t == <<j, job[j].made>>
  <2>4. t \in Slots
    BY <1>5, WebhookBounds DEF Slots
  <2>5. Left(d)' \in SUBSET (Left(d) \cup {t})
    <3> SUFFICES ASSUME NEW x \in Left(d)', x # t PROVE x \in Left(d)
      OBVIOUS
    <3>1. x \in Slots /\ x[1] \in Jobs /\ x[2] \in Nat /\ x = <<x[1], x[2]>>
      BY WebhookBounds DEF Left, Slots
    <3>2. CASE x[1] # j
      BY <2>3, <3>1, <3>2, LeftBefore
    <3>3. CASE x[1] = j
      <4>1. x[2] # job[j].made
        BY <3>1, <3>3
      <4>2. job'[j] # FreeJob
        BY <3>3, WebhookNames DEF Left, FreeJob
      <4> QED
        BY <1>5, <2>2, <3>1, <3>3, <4>1, <4>2 DEF Left
    <3> QED
      BY <3>2, <3>3
  <2>6. Left(d) \in SUBSET Slots /\ {t} \in SUBSET Slots /\ Left(d) \cup {t} \in SUBSET Slots /\ Cardinality({t}) = 1
    BY <2>4, FS_Singleton DEF Left
  <2>7. /\ Cardinality(Left(d) \cup {t}) <= Cardinality(Left(d)) + Cardinality({t})
        /\ Cardinality(Left(d)) \in Nat
    BY <2>6, Slotted
  <2>8. /\ Cardinality(Left(d)') <= Cardinality(Left(d) \cup {t})
        /\ Cardinality(Left(d)') \in Nat /\ Cardinality(Left(d) \cup {t}) \in Nat
    BY <2>5, <2>6, Slotted
  <2>9. Granted(d) \in Nat /\ Granted(d)' = Granted(d) /\ delivery[d].attempts \in Nat
    BY <1>5, <2>1, GrantedKept DEF Granted, DeliveryRows
  <2> QED
    BY <1>1, <1>5, <2>1, <2>6, <2>7, <2>8, <2>9 DEF AllBudgeted, Budgeted
<1> QED
  BY <1>7, <1>8, <1>9, <1>10

LEMMA BudgetedInit == Init => AllBudgeted
<1> SUFFICES ASSUME Init, NEW d \in Deliveries PROVE Budgeted(d)
  BY DEF AllBudgeted
<1>1. Left(d) = {}
  BY WebhookNames DEF Init, Left, Slots, FreeJob
<1>2. delivery[d].attempts = 0 /\ retries = 0 /\ faults = 0 /\ Granted(d) = 0
  BY DEF Init, NoDelivery, Granted
<1> QED
  BY <1>1, <1>2, FS_EmptySet DEF Budgeted

LEMMA BudgetedStep == Held /\ Begun /\ AllBudgeted /\ [Next]_vars => AllBudgeted'
<1> SUFFICES ASSUME Held, Begun, AllBudgeted, [Next]_vars PROVE AllBudgeted'
  OBVIOUS
<1>h. Held'
  BY HeldStep
<1>t. retries \in Nat /\ faults \in Nat
  BY DEF Held, TypeOK
<1>j. job \in [Jobs -> JobRows] /\ delivery \in [Deliveries -> DeliveryRows]
  BY Types DEF Held
<1>1. ASSUME UNCHANGED <<job, delivery>>, retries' >= retries, faults' >= faults,
             \A w \in Workers : pc[w] # "idle" => pc'[w] = pc[w] /\ local'[w] = local[w]
      PROVE  AllBudgeted'
  <2>1. \A j \in Jobs : Lessens(j)
    BY <1>1, DoneStays DEF Lessens, Past
  <2> QED
    BY <1>h, <1>1, <2>1, NothingSpent
<1>2. CASE UNCHANGED vars
  BY <1>1, <1>2, <1>t DEF vars, rows
<1>3. ASSUME NEW v \in Events, FindEndpoints(v) \/ EmitThrows(v) \/ \E e \in Endpoints : SendTestEvent(v, e)
      PROVE  AllBudgeted'
  BY <1>1, <1>3, <1>t DEF FindEndpoints, EmitThrows, SendTestEvent
<1>4. ASSUME NEW v \in Events, NEW e \in Endpoints, FanOut(v, e) PROVE AllBudgeted'
  <2> PICK c \in Deliveries : c = <<e, v>>
    BY DEF Deliveries
  <2>1. MaxAttempts \in 1..MaxAttempts /\ (Add(c, MaxAttempts) \/ AddFails(c)) /\ UNCHANGED <<pc, local, retries>>
    BY <1>4, WebhookBounds DEF FanOut
  <2>2. delivery' = [delivery EXCEPT ![c].status = "PENDING"] /\ delivery[c].status = "NONE"
    BY <1>4 DEF FanOut, Begun
  <2>3. \A d \in Deliveries : /\ delivery'[d].attempts = delivery[d].attempts
                              /\ delivery[d].status # "NONE" => delivery'[d].status # "NONE"
    BY <1>j, <2>2 DEF DeliveryRows
  <2>4. Granted(c) = 0 /\ Granted(c)' = MaxAttempts
    BY <1>j, <2>2 DEF Granted, DeliveryRows
  <2>5. Granted(c)' + retries' >= Granted(c) + retries + MaxAttempts /\ retries' >= retries
    BY <1>t, <2>1, <2>4, WebhookBounds
  <2> QED
    BY <1>h, <2>1, <2>3, <2>5, NewJob
<1>5. ASSUME NEW w \in Handlers, NEW j \in Jobs, Take(w, j) PROVE AllBudgeted'
  <2>1. /\ \A i \in Jobs : job'[i].of = job[i].of /\ job'[i].max = job[i].max /\ job'[i].made = job[i].made
        /\ UNCHANGED <<delivery, retries, faults>>
    BY <1>5, <1>j DEF Take, JobRows
  <2>2. pc[w] = "idle" /\ \E l : Goto(w, "load", l)
    BY <1>5 DEF Take
  <2>3. \A v \in Workers : pc[v] # "idle" => pc'[v] = pc[v] /\ local'[v] = local[v]
    BY <2>2, GotoStep DEF Held, Handlers
  <2>4. \A i \in Jobs : Lessens(i)
    <3>1. \A i \in Jobs : Done(i) => Done(i)'
      BY <2>3, DoneStays DEF Past
    <3> QED
      BY <2>1, <3>1 DEF Lessens
  <2> QED
    BY <1>h, <1>t, <2>1, <2>4, NothingSpent
<1>6. ASSUME NEW j \in Jobs, BackoffEnds(j) PROVE AllBudgeted'
  <2>1. /\ \A i \in Jobs : job'[i].of = job[i].of /\ job'[i].max = job[i].max /\ job'[i].made = job[i].made
        /\ UNCHANGED <<pc, local, delivery, retries, faults>>
    BY <1>6, <1>j DEF BackoffEnds, JobRows
  <2>2. \A i \in Jobs : Lessens(i)
    <3>1. \A i \in Jobs : Done(i) => Done(i)'
      BY <2>1, DoneStays
    <3> QED
      BY <2>1, <3>1 DEF Lessens
  <2> QED
    BY <1>h, <1>t, <2>1, <2>2, NothingSpent
<1>7. ASSUME NEW q \in Handlers,
             \/ \E e \in Endpoints : AskPause(q, e) \/ AskActivate(q, e) \/ AskDelete(q, e)
             \/ \E d \in Deliveries : AskRetry(q, d)
             \/ Pause(q) \/ Activate(q) \/ SoftDelete(q) \/ CheckRetryable(q)
      PROVE  AllBudgeted'
  <2>1. UNCHANGED <<job, delivery, retries, faults>> /\ \E label, l : Goto(q, label, l)
    BY <1>7 DEF AskPause, AskActivate, AskDelete, AskRetry, Found, Pause, Activate, SoftDelete, SetEndpoint,
                CheckRetryable, Return, rows
  <2>2. q \in Requests
    BY <1>7 DEF AskPause, AskActivate, AskDelete, AskRetry, Found, Pause, Activate, SoftDelete, CheckRetryable,
                Held, WorkerOK, Handlers, AtWork
  <2>3. \A w \in Workers : pc'[w] = pc[w] /\ local'[w] = local[w]
    BY <2>1, <2>2, GotoStep, WebhookNames DEF Held, Handlers
  <2> QED
    BY <1>1, <1>t, <2>1, <2>3
<1>8. ASSUME NEW q \in Handlers, ResetDelivery(q) \/ EnqueueRetry(q) PROVE AllBudgeted'
  <2>1. q \in Requests /\ local[q].of \in Deliveries
    BY <1>8 DEF ResetDelivery, EnqueueRetry, Held, WorkerOK, RequestOK, Handlers, AtWork
  <2> PICK c \in Deliveries : c = local[q].of
    BY <2>1
  <2>2. \E label, l : Goto(q, label, l)
    BY <1>8 DEF ResetDelivery, EnqueueRetry, Return
  <2>3. \A w \in Workers : pc'[w] = pc[w] /\ local'[w] = local[w]
    BY <2>1, <2>2, GotoStep, WebhookNames DEF Held, Handlers
  <2>4. CASE ResetDelivery(q)
    <3>1. \A d \in Deliveries : /\ delivery'[d].attempts = delivery[d].attempts
                                /\ delivery[d].status # "NONE" => delivery'[d].status # "NONE"
      BY <1>j, <2>4 DEF ResetDelivery, DeliveryRows
    <3>2. UNCHANGED <<job, retries, faults>>
      BY <2>4 DEF ResetDelivery
    <3>3. \A i \in Jobs : Lessens(i)
      <4>1. \A i \in Jobs : Done(i) => Done(i)'
        BY <2>3, DoneStays
      <4> QED
        BY <3>2, <4>1 DEF Lessens
    <3> QED
      BY <1>h, <1>t, <3>1, <3>2, <3>3, NothingSpent
  <2>5. CASE EnqueueRetry(q)
    <3>1. 1 \in 1..MaxAttempts /\ (Add(c, 1) \/ AddFails(c)) /\ delivery' = delivery /\ retries' = retries + 1
      BY <2>5, WebhookBounds DEF EnqueueRetry
    <3>2. Granted(c)' = Granted(c) /\ Granted(c) \in Nat
      BY <3>1, GrantedKept DEF Granted
    <3>3. Granted(c)' + retries' >= Granted(c) + retries + 1 /\ retries' >= retries
      BY <1>t, <3>1, <3>2
    <3> QED
      BY <1>h, <2>3, <3>1, <3>3, NewJob
  <2> QED
    BY <1>8, <2>4, <2>5
<1> QED
  BY <1>h, <1>2, <1>3, <1>4, <1>5, <1>6, <1>7, <1>8, BudgetedByWorkers DEF Next, Continue

\* webhook-delivery.processor.ts and webhooks.service.ts, retryDelivery: a receiver never
\* gets more requests than the attempts, manual retries and faults account for.
THEOREM RequestsAreBounded == Spec => []AttemptsBounded
<1>1. Held /\ AllBudgeted => AttemptsBounded
  <2> SUFFICES ASSUME Held, NEW d \in Deliveries, Budgeted(d)
               PROVE  delivery[d].attempts <= MaxAttempts + retries + faults
    BY DEF AllBudgeted, AttemptsBounded
  <2>1. Left(d) \in SUBSET Slots
    BY DEF Left
  <2>2. Cardinality(Left(d)) \in Nat
    BY <2>1, Slotted
  <2>3. delivery[d].attempts \in Nat /\ retries \in Nat /\ faults \in Nat /\ MaxAttempts \in Nat
    BY Types, WebhookBounds DEF Held, DeliveryRows, TypeOK
  <2>4. Granted(d) \in {0, MaxAttempts}
    BY DEF Granted
  <2> QED
    BY <2>2, <2>3, <2>4 DEF Budgeted
<1> QED
  BY <1>1, AlwaysHeld, BegunInit, BegunStep, BudgetedInit, BudgetedStep, PTL DEF Spec
===============================================================================
