------------------------- MODULE ClickPipelineProofs -------------------------
(***************************************************************************)
(* ClicksCountedOnce for any clicks, any finite number of workers, any     *)
(* number of attempts and faults, and either kind of upsert.               *)
(***************************************************************************)
EXTENDS ClickPipeline, FiniteSetTheorems, TLAPS

\* The workers that are about to insert a counter they did not find.
Uncounted == {w \in ClickWorkers : clickWorker[w].pc = "commit" /\ ~clickWorker[w].counted}

Workers == [pc : {"idle", "open", "commit", "tell"}, click : Clicks \cup {NoClick}, counted : BOOLEAN]

ClickTypes ==
    /\ clickJob \in [Clicks -> {"none", "refused", "waiting", "active", "done", "failed"}]
    /\ clickWorker \in [ClickWorkers -> Workers]
    /\ \A w \in ClickWorkers : clickWorker[w].pc # "idle" => clickWorker[w].click \in Clicks
    /\ rows \subseteq Clicks /\ dropped \subseteq Clicks
    /\ told \in [Clicks -> Nat]

RowsCounted == IsFiniteSet(rows) /\ stat = Cardinality(rows)

\* A click is told of by the worker that made its row, and by nobody else.
ToldByItsWriter ==
    /\ \A w \in ClickWorkers : clickWorker[w].pc = "tell" =>
         clickWorker[w].click \in rows /\ told[clickWorker[w].click] = 0
    /\ \A v, w \in ClickWorkers :
         clickWorker[v].pc = "tell" /\ clickWorker[w].pc = "tell" /\ clickWorker[v].click = clickWorker[w].click
         => v = w
    /\ \A c \in Clicks : told[c] <= IF c \in rows THEN 1 ELSE 0

DoneIsRecorded == \A c \in Clicks : clickJob[c] = "done" => c \in rows \cup dropped

\* Once the day has its counter, each refusal uses up one of the workers that had not found
\* it, and the one that made it was a worker too.
FewDropped ==
    /\ IsFiniteSet(dropped)
    /\ NativeUpsert => dropped = {}
    /\ stat = 0 => dropped = {}
    /\ stat > 0 => Cardinality(dropped) + Cardinality(Uncounted) < Cardinality(ClickWorkers)

ClickInv == ClickTypes /\ RowsCounted /\ ToldByItsWriter /\ DoneIsRecorded /\ FewDropped

-----------------------------------------------------------------------------
\* A set of workers that is part of another is finite and not larger.
LEMMA Fewer ==
    ASSUME NEW S \in SUBSET ClickWorkers, NEW T \in SUBSET S
    PROVE  IsFiniteSet(S) /\ Cardinality(T) \in Nat /\ Cardinality(S) \in Nat
           /\ Cardinality(T) <= Cardinality(S)
<1>1. IsFiniteSet(S)
  BY ClickConstants, FS_Subset
<1>2. IsFiniteSet(T) /\ Cardinality(T) <= Cardinality(S)
  BY <1>1, FS_Subset
<1> QED
  BY <1>1, <1>2, FS_CardinalityType

\* A worker that leaves makes the workers one less.
LEMMA Leaves ==
    ASSUME NEW w \in ClickWorkers, NEW S \in SUBSET ClickWorkers, NEW T \in SUBSET (S \ {w})
    PROVE  /\ w \in S => Cardinality(T) < Cardinality(S)
           /\ Cardinality(T) < Cardinality(ClickWorkers)
<1>1. ASSUME NEW R \in SUBSET ClickWorkers, w \in R, T \in SUBSET (R \ {w})
      PROVE  Cardinality(T) < Cardinality(R)
  <2>1. IsFiniteSet(R) /\ Cardinality(R) \in Nat
    BY Fewer
  <2>2. IsFiniteSet(R \ {w}) /\ Cardinality(R \ {w}) = Cardinality(R) - 1
    BY <1>1, <2>1, FS_RemoveElement
  <2>3. Cardinality(T) <= Cardinality(R \ {w}) /\ Cardinality(T) \in Nat
    BY <1>1, <2>2, FS_Subset, FS_CardinalityType
  <2> QED
    BY <2>1, <2>2, <2>3
<1>2. w \in S => Cardinality(T) < Cardinality(S)
  BY <1>1
<1>3. T \in SUBSET (ClickWorkers \ {w}) /\ ClickWorkers \in SUBSET ClickWorkers
  OBVIOUS
<1>4. Cardinality(T) < Cardinality(ClickWorkers)
  BY <1>1, <1>3
<1> QED
  BY <1>2, <1>4

\* Fewer workers that did not find the counter, and nothing else changed: still few dropped.
LEMMA StillFew ==
    ASSUME ClickInv, Uncounted' \subseteq Uncounted, UNCHANGED <<stat, dropped>>
    PROVE  FewDropped'
<1>1. Uncounted \in SUBSET ClickWorkers /\ Uncounted' \in SUBSET Uncounted
  BY DEF Uncounted
<1>2. Cardinality(Uncounted') <= Cardinality(Uncounted)
      /\ Cardinality(Uncounted') \in Nat /\ Cardinality(Uncounted) \in Nat
  BY <1>1, Fewer
<1>3. Cardinality(dropped) \in Nat /\ Cardinality(ClickWorkers) \in Nat
  BY FS_CardinalityType, ClickConstants DEF ClickInv, FewDropped
<1> QED
  BY <1>2, <1>3 DEF ClickInv, FewDropped

-----------------------------------------------------------------------------
LEMMA InitClickInv == ClickInit => ClickInv
<1> SUFFICES ASSUME ClickInit PROVE ClickInv
  OBVIOUS
<1> USE ClickConstants DEF ClickInit
<1>1. ClickTypes
  BY DEF ClickTypes, Workers, Unemployed
<1>2. RowsCounted /\ FewDropped
  BY FS_EmptySet DEF RowsCounted, FewDropped
<1>3. ToldByItsWriter /\ DoneIsRecorded
  BY DEF ToldByItsWriter, DoneIsRecorded, Unemployed
<1> QED
  BY <1>1, <1>2, <1>3 DEF ClickInv

\* What a step has to show if it touches neither rows nor counters and only sends workers
\* where they tell of nothing and insert nothing.
Quiet ==
    /\ UNCHANGED <<rows, stat, told, dropped>>
    /\ \A w \in ClickWorkers :
         /\ clickWorker'[w].pc = "tell" => clickWorker'[w] = clickWorker[w]
         /\ w \in Uncounted' => w \in Uncounted
    /\ \A c \in Clicks : clickJob'[c] = "done" => clickJob[c] = "done"

LEMMA QuietStep ==
    ASSUME ClickInv, ClickTypes', Quiet
    PROVE  ClickInv'
<1>1. RowsCounted' /\ DoneIsRecorded'
  BY DEF ClickInv, RowsCounted, DoneIsRecorded, Quiet
<1>2. ToldByItsWriter'
  BY DEF ClickInv, ToldByItsWriter, Quiet
<1>3. FewDropped'
  <2>1. Uncounted' \subseteq Uncounted
    BY DEF Quiet, Uncounted
  <2> QED
    BY <2>1, StillFew DEF Quiet
<1> QED
  BY <1>1, <1>2, <1>3 DEF ClickInv

\* One lemma per action.
LEMMA RedirectedStep ==
    ASSUME ClickInv, NEW c \in Clicks, NEW accepted \in BOOLEAN, Redirected(c, accepted)
    PROVE  ClickInv'
<1>1. ClickTypes'
  BY DEF ClickInv, ClickTypes, Redirected
<1>2. Quiet
  BY DEF ClickInv, ClickTypes, Redirected, Quiet, Uncounted
<1> QED
  BY <1>1, <1>2, QuietStep

LEMMA StartClickStep ==
    ASSUME ClickInv, NEW w \in ClickWorkers, NEW c \in Clicks, StartClick(w, c)
    PROVE  ClickInv'
<1>1. ClickTypes'
  BY DEF ClickInv, ClickTypes, Workers, StartClick, Unemployed
<1>2. Quiet
  BY DEF ClickInv, ClickTypes, Workers, StartClick, Unemployed, Quiet, Uncounted
<1> QED
  BY <1>1, <1>2, QuietStep

LEMMA ThrowsStep ==
    ASSUME ClickInv, NEW w \in ClickWorkers, Throws(w)
    PROVE  ClickInv'
<1>1. ClickTypes'
  BY DEF ClickInv, ClickTypes, Workers, Throws, Unemployed
<1>2. Quiet
  BY DEF ClickInv, ClickTypes, Workers, Throws, Unemployed, Quiet, Uncounted
<1> QED
  BY <1>1, <1>2, QuietStep

LEMMA StallsStep ==
    ASSUME ClickInv, NEW w \in ClickWorkers, NEW dead \in BOOLEAN, Stalls(w, dead)
    PROVE  ClickInv'
<1>1. ClickTypes'
  BY DEF ClickInv, ClickTypes, Workers, Stalls, Unemployed
<1>2. Quiet
  BY DEF ClickInv, ClickTypes, Workers, Stalls, Unemployed, Quiet, Uncounted
<1> QED
  BY <1>1, <1>2, QuietStep

\* Only before there is a counter does a worker fail to find it.
LEMMA OpenTransactionStep ==
    ASSUME ClickInv, NEW w \in ClickWorkers, OpenTransaction(w)
    PROVE  ClickInv'
<1> DEFINE found == stat > 0
<1>1. found \in BOOLEAN
  OBVIOUS
<1>2. clickWorker[w].pc = "open"
      /\ clickWorker' = [clickWorker EXCEPT ![w].pc = "commit", ![w].counted = found]
  BY DEF OpenTransaction
<1>3. UNCHANGED <<clickJob, tries, rows, stat, told, dropped, clickFaults>>
  BY DEF OpenTransaction
<1> HIDE DEF found
<1>4. ClickTypes'
  BY <1>1, <1>2, <1>3 DEF ClickInv, ClickTypes, Workers
<1>5. clickWorker'[w].pc = "commit" /\ \A v \in ClickWorkers \ {w} : clickWorker'[v] = clickWorker[v]
  BY <1>2 DEF ClickInv, ClickTypes, Workers
<1>6. clickWorker'[w].counted = found
  BY <1>2 DEF ClickInv, ClickTypes, Workers
<1>7. CASE stat > 0
  <2>1. found
    BY <1>7 DEF found
  <2>2. Quiet
    BY <1>3, <1>5, <1>6, <2>1 DEF Quiet, Uncounted
  <2> QED
    BY <1>4, <2>2, QuietStep
<1>8. CASE ~(stat > 0)
  <2>1. RowsCounted' /\ DoneIsRecorded' /\ FewDropped'
    BY <1>3, <1>8 DEF ClickInv, RowsCounted, DoneIsRecorded, FewDropped
  <2>2. ToldByItsWriter'
    BY <1>3, <1>5 DEF ClickInv, ToldByItsWriter
  <2> QED
    BY <1>4, <2>1, <2>2 DEF ClickInv
<1> QED
  BY <1>7, <1>8

\* A refused click was recorded before, or uses up a worker that did not find the counter.
LEMMA CommitRefused ==
    ASSUME ClickInv, NEW w \in ClickWorkers, Commit(w),
           \/ clickWorker[w].click \in rows
           \/ ~NativeUpsert /\ ~clickWorker[w].counted /\ stat > 0
    PROVE  ClickInv'
<1> DEFINE c == clickWorker[w].click
<1>1. /\ clickWorker[w].pc = "commit" /\ c \in Clicks
      /\ clickWorker' = [clickWorker EXCEPT ![w] = Unemployed]
      /\ clickJob' = IF clickJob[c] = "active" THEN [clickJob EXCEPT ![c] = "done"] ELSE clickJob
      /\ dropped' = IF c \in rows THEN dropped ELSE dropped \cup {c}
      /\ UNCHANGED <<rows, stat, told>>
  BY DEF Commit, Complete, ClickInv, ClickTypes
<1>2. ClickTypes'
  BY <1>1 DEF ClickInv, ClickTypes, Workers, Unemployed
<1>3. clickWorker'[w].pc = "idle" /\ \A v \in ClickWorkers \ {w} : clickWorker'[v] = clickWorker[v]
  BY <1>1 DEF ClickInv, ClickTypes, Unemployed
<1>4. RowsCounted' /\ ToldByItsWriter'
  BY <1>1, <1>3 DEF ClickInv, RowsCounted, ToldByItsWriter
<1>5. DoneIsRecorded'
  BY <1>1 DEF ClickInv, ClickTypes, DoneIsRecorded
<1>6. Uncounted' \subseteq Uncounted \ {w}
  BY <1>3 DEF Uncounted
<1>7. FewDropped'
  <2>1. CASE c \in rows
    BY <1>1, <1>6, <2>1, StillFew
  <2>2. CASE c \notin rows
    <3>1. ~NativeUpsert /\ stat > 0 /\ w \in Uncounted /\ dropped' = dropped \cup {c}
      BY <1>1, <2>2 DEF Uncounted
    <3>2. IsFiniteSet(dropped') /\ Cardinality(dropped') <= Cardinality(dropped) + 1
          /\ Cardinality(dropped) \in Nat /\ Cardinality(dropped') \in Nat
      <4>1. IsFiniteSet(dropped) /\ Cardinality(dropped) \in Nat
        BY FS_CardinalityType DEF ClickInv, FewDropped
      <4>2. IsFiniteSet(dropped \cup {c})
            /\ Cardinality(dropped \cup {c}) = IF c \in dropped THEN Cardinality(dropped)
                                                                 ELSE Cardinality(dropped) + 1
        BY <4>1, FS_AddElement
      <4> HIDE DEF c
      <4> QED
        BY <3>1, <4>1, <4>2
    <3>3. Uncounted \in SUBSET ClickWorkers /\ Uncounted' \in SUBSET (Uncounted \ {w})
      BY <1>6 DEF Uncounted
    <3>4. Cardinality(Uncounted') < Cardinality(Uncounted)
      BY <3>1, <3>3, Leaves
    <3>5. Cardinality(Uncounted') \in Nat /\ Cardinality(Uncounted) \in Nat /\ Cardinality(ClickWorkers) \in Nat
      BY <3>3, Fewer
    <3>6. Cardinality(dropped) + Cardinality(Uncounted) < Cardinality(ClickWorkers)
      BY <3>1 DEF ClickInv, FewDropped
    <3>7. Cardinality(dropped') + Cardinality(Uncounted') < Cardinality(ClickWorkers)
      BY <3>2, <3>4, <3>5, <3>6
    <3>8. stat' > 0
      BY <1>1, <3>1
    <3> QED
      BY <3>1, <3>2, <3>7, <3>8, <1>1 DEF FewDropped
  <2> QED
    BY <2>1, <2>2
<1> QED
  BY <1>2, <1>4, <1>5, <1>7 DEF ClickInv

\* A click that is recorded: its row and the counter move together.
LEMMA CommitRecorded ==
    ASSUME ClickInv, NEW w \in ClickWorkers, Commit(w),
           clickWorker[w].click \notin rows,
           ~(~NativeUpsert /\ ~clickWorker[w].counted /\ stat > 0)
    PROVE  ClickInv'
<1> DEFINE c == clickWorker[w].click
<1>1. /\ clickWorker[w].pc = "commit" /\ c \in Clicks /\ c \notin rows
      /\ rows' = rows \cup {c} /\ stat' = stat + 1
      /\ clickWorker' = [clickWorker EXCEPT ![w].pc = "tell"]
      /\ UNCHANGED <<clickJob, dropped, told>>
  BY DEF Commit, ClickInv, ClickTypes
<1>2. ClickTypes'
  BY <1>1 DEF ClickInv, ClickTypes, Workers
<1>3. /\ clickWorker'[w].pc = "tell" /\ clickWorker'[w].click = c
      /\ \A v \in ClickWorkers \ {w} : clickWorker'[v] = clickWorker[v]
  BY <1>1 DEF ClickInv, ClickTypes, Workers
<1>4. RowsCounted'
  BY <1>1, FS_AddElement DEF ClickInv, RowsCounted
<1>5. ToldByItsWriter'
  <2>1. told[c] = 0
    BY <1>1 DEF ClickInv, ClickTypes, ToldByItsWriter
  <2>2. \A v \in ClickWorkers : clickWorker[v].pc = "tell" => clickWorker[v].click # c
    BY <1>1 DEF ClickInv, ToldByItsWriter
  <2> QED
    BY <1>1, <1>3, <2>1, <2>2 DEF ClickInv, ClickTypes, ToldByItsWriter
<1>6. DoneIsRecorded'
  BY <1>1 DEF ClickInv, DoneIsRecorded
<1>7. stat \in Nat
  BY FS_CardinalityType DEF ClickInv, RowsCounted
<1>8. Uncounted' \in SUBSET (Uncounted \ {w}) /\ Uncounted \in SUBSET ClickWorkers
  BY <1>3 DEF Uncounted
<1>9. FewDropped'
  <2>1. CASE stat = 0
    <3>1. dropped' = {} /\ Cardinality(dropped') = 0 /\ IsFiniteSet(dropped')
      BY <1>1, <2>1, FS_EmptySet DEF ClickInv, FewDropped
    <3>2. Cardinality(Uncounted') < Cardinality(ClickWorkers)
      BY <1>8, Leaves
    <3>3. Cardinality(Uncounted') \in Nat /\ Cardinality(ClickWorkers) \in Nat
      BY <1>8, Fewer
    <3> QED
      BY <3>1, <3>2, <3>3 DEF FewDropped
  <2>2. CASE stat # 0
    <3>1. Cardinality(Uncounted') <= Cardinality(Uncounted)
          /\ Cardinality(Uncounted') \in Nat /\ Cardinality(Uncounted) \in Nat
      BY <1>8, Fewer
    <3>2. Cardinality(dropped) \in Nat /\ Cardinality(ClickWorkers) \in Nat
      BY ClickConstants, FS_CardinalityType DEF ClickInv, FewDropped
    <3> QED
      BY <1>1, <1>7, <2>2, <3>1, <3>2 DEF ClickInv, FewDropped
  <2> QED
    BY <2>1, <2>2
<1> QED
  BY <1>2, <1>4, <1>5, <1>6, <1>9 DEF ClickInv

LEMMA TellStep ==
    ASSUME ClickInv, NEW w \in ClickWorkers, Tell(w)
    PROVE  ClickInv'
<1> DEFINE c == clickWorker[w].click
<1>1. /\ clickWorker[w].pc = "tell" /\ c \in Clicks /\ c \in rows /\ told[c] = 0
      /\ told' = [told EXCEPT ![c] = @ + 1]
      /\ clickWorker' = [clickWorker EXCEPT ![w] = Unemployed]
      /\ clickJob' = IF clickJob[c] = "active" THEN [clickJob EXCEPT ![c] = "done"] ELSE clickJob
      /\ UNCHANGED <<rows, stat, dropped>>
  BY DEF Tell, Complete, ClickInv, ClickTypes, ToldByItsWriter
<1>2. ClickTypes'
  BY <1>1 DEF ClickInv, ClickTypes, Workers, Unemployed
<1>3. clickWorker'[w].pc = "idle" /\ \A v \in ClickWorkers \ {w} : clickWorker'[v] = clickWorker[v]
  BY <1>1 DEF ClickInv, ClickTypes, Unemployed
<1>4. RowsCounted'
  BY <1>1 DEF ClickInv, RowsCounted
<1>5. ToldByItsWriter'
  <2>1. told'[c] = 1 /\ \A d \in Clicks \ {c} : told'[d] = told[d]
    BY <1>1 DEF ClickInv, ClickTypes
  <2>2. \A v \in ClickWorkers \ {w} : clickWorker[v].pc = "tell" => clickWorker[v].click \in Clicks \ {c}
    BY <1>1 DEF ClickInv, ClickTypes, ToldByItsWriter
  <2> QED
    BY <1>1, <1>3, <2>1, <2>2 DEF ClickInv, ToldByItsWriter
<1>6. DoneIsRecorded'
  BY <1>1 DEF ClickInv, ClickTypes, DoneIsRecorded
<1>7. FewDropped'
  <2>1. Uncounted' \subseteq Uncounted
    BY <1>3 DEF Uncounted
  <2> QED
    BY <1>1, <2>1, StillFew
<1> QED
  BY <1>2, <1>4, <1>5, <1>6, <1>7 DEF ClickInv

-----------------------------------------------------------------------------
LEMMA NextClickInv == ClickInv /\ [ClickNext]_clickVars => ClickInv'
<1> SUFFICES ASSUME ClickInv, [ClickNext]_clickVars PROVE ClickInv'
  OBVIOUS
<1>1. CASE UNCHANGED clickVars
  BY <1>1 DEF clickVars, ClickInv, ClickTypes, RowsCounted, ToldByItsWriter, DoneIsRecorded,
              FewDropped, Uncounted
<1>2. ASSUME NEW c \in Clicks, NEW accepted \in BOOLEAN, Redirected(c, accepted) PROVE ClickInv'
  BY <1>2, RedirectedStep
<1>3. ASSUME NEW w \in ClickWorkers, NEW c \in Clicks, StartClick(w, c) PROVE ClickInv'
  BY <1>3, StartClickStep
<1>4. ASSUME NEW w \in ClickWorkers, OpenTransaction(w) PROVE ClickInv'
  BY <1>4, OpenTransactionStep
<1>5. ASSUME NEW w \in ClickWorkers, Commit(w) PROVE ClickInv'
  BY <1>5, CommitRefused, CommitRecorded
<1>6. ASSUME NEW w \in ClickWorkers, Tell(w) PROVE ClickInv'
  BY <1>6, TellStep
<1>7. ASSUME NEW w \in ClickWorkers, Throws(w) PROVE ClickInv'
  BY <1>7, ThrowsStep
<1>8. ASSUME NEW w \in ClickWorkers, NEW dead \in BOOLEAN, Stalls(w, dead) PROVE ClickInv'
  BY <1>8, StallsStep
<1> QED
  BY <1>1, <1>2, <1>3, <1>4, <1>5, <1>6, <1>7, <1>8 DEF ClickNext

LEMMA ClickInvIsEnough == ClickInv => ClicksCountedOnce
<1> SUFFICES ASSUME ClickInv PROVE ClicksCountedOnce
  OBVIOUS
<1>1. dropped # {} => Cardinality(dropped) < Cardinality(ClickWorkers)
  <2>1. SUFFICES ASSUME dropped # {} PROVE Cardinality(dropped) < Cardinality(ClickWorkers)
    OBVIOUS
  <2>2. stat \in Nat
    BY FS_CardinalityType DEF ClickInv, RowsCounted
  <2>3. Cardinality(dropped) + Cardinality(Uncounted) < Cardinality(ClickWorkers)
    BY <2>1, <2>2 DEF ClickInv, FewDropped
  <2>4. Cardinality(Uncounted) \in Nat /\ Cardinality(ClickWorkers) \in Nat
    BY Fewer DEF Uncounted
  <2>5. Cardinality(dropped) \in Nat
    BY FS_CardinalityType DEF ClickInv, FewDropped
  <2> QED
    BY <2>3, <2>4, <2>5
<1> QED
  BY <1>1 DEF ClicksCountedOnce, ClickInv, RowsCounted, ToldByItsWriter, DoneIsRecorded, FewDropped

\* click-event.processor.ts:34: for any clicks, any finite number of workers, any attempts
\* and any faults, a click has one row, is counted once and told of at most once; only a
\* client that reads before it inserts takes a click for recorded that is not, and that
\* fewer times than there are workers.
THEOREM ClicksAreCountedOnce == ClickSpec => []ClicksCountedOnce
<1>1. ClickSpec => []ClickInv
  BY InitClickInv, NextClickInv, PTL DEF ClickSpec
<1> QED
  BY <1>1, ClickInvIsEnough, PTL
=============================================================================
