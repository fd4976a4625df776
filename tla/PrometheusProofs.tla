-------------------------- MODULE PrometheusProofs --------------------------
(***************************************************************************)
(* Proofs about the two modules of prometheus.go: PromFile, the file that  *)
(* is generated on open and kept, for every set of readers, hung or not,   *)
(* every TTL (zero included), longest generation and bound; and            *)
(* MetricsFanout, one generation of its content, for any number of         *)
(* resources and any tables of metrics and time series.                    *)
(***************************************************************************)
EXTENDS PromFile, MetricsFanout, FiniteSetTheorems, WellFoundedInduction, TLAPS

-----------------------------------------------------------------------------
(* PromFile *)

\* A generation under way outside Hung started at most GenMax ago, and its
\* answer was produced since then; hung readers never get that far.
GenInv ==
  \A r \in Readers :
    /\ Generating(r) /\ r \notin Hung => now - started[r] <= GenMax
    /\ pc[r] = "generated" =>
         /\ r \notin Hung
         /\ started[r] <= answer[r].at
         /\ asked[r] <= answer[r].version
         /\ answer[r].version <= remote

\* The content was produced at most GenMax before its stamp.
StoreInv == fetched - taken <= GenMax

\* An answer that is older than the content comes from a generation that was
\* already under way when the content was stored.
OverlapInv ==
  \A r \in Readers :
    pc[r] = "generated" /\ answer[r].version < cached => started[r] <= fetched

\* A call in progress remembers the version the API had when it began.
CallInv ==
  /\ remote >= 1
  /\ \A r \in Readers : pc[r] = "idle" <=> asked[r] = 0

FileInv == TypeOK /\ GenInv /\ StoreInv /\ OverlapInv /\ CallInv

USE HungAssumption, TTLAssumption, GenMaxAssumption, BoundsAssumption

-----------------------------------------------------------------------------

LEMMA InitFileInv == Init => FileInv
BY DEF Init, FileInv, TypeOK, GenInv, StoreInv, OverlapInv, CallInv, Generating, NoAnswer

LEMMA NextFileInv == FileInv /\ [Next]_vars => FileInv'
<1> SUFFICES ASSUME FileInv, [Next]_vars PROVE FileInv'
  OBVIOUS
<1> USE DEF FileInv
<1>1. CASE Tick
  BY <1>1 DEF Tick, TypeOK, GenInv, StoreInv, OverlapInv, CallInv, Generating, fileVars, readVars
<1>2. CASE ApiChange
  BY <1>2 DEF ApiChange, TypeOK, GenInv, StoreInv, OverlapInv, CallInv, Generating, fileVars, readVars
<1>3. ASSUME NEW r \in Readers, Open(r) PROVE FileInv'
  BY <1>3 DEF Open, TypeOK, GenInv, StoreInv, OverlapInv, CallInv, Generating, fileVars
<1>4. ASSUME NEW r \in Readers, ServeCached(r) PROVE FileInv'
  BY <1>4 DEF ServeCached, Return, TypeOK, GenInv, StoreInv, OverlapInv, CallInv, Generating, fileVars, NoAnswer
<1>5. ASSUME NEW r \in Readers, StartGen(r) PROVE FileInv'
  BY <1>5 DEF StartGen, EnterGen, TypeOK, GenInv, StoreInv, OverlapInv, CallInv, Generating, fileVars
<1>6. ASSUME NEW r \in Readers, ApiAnswers(r) PROVE FileInv'
  BY <1>6 DEF ApiAnswers, TypeOK, GenInv, StoreInv, OverlapInv, CallInv, Generating, fileVars
<1>7. ASSUME NEW r \in Readers, GenOK(r) PROVE FileInv'
  BY <1>7 DEF GenOK, Store, Return, TypeOK, GenInv, StoreInv, OverlapInv, CallInv, Generating, NoAnswer
<1>8. ASSUME NEW r \in Readers, GenErr(r) PROVE FileInv'
  BY <1>8 DEF GenErr, Return, TypeOK, GenInv, StoreInv, OverlapInv, CallInv, Generating, fileVars, NoAnswer
<1>9. CASE UNCHANGED vars
  BY <1>9 DEF vars, fileVars, readVars, TypeOK, GenInv, StoreInv, OverlapInv, CallInv, Generating
<1>10. QED
  BY <1>1, <1>2, <1>3, <1>4, <1>5, <1>6, <1>7, <1>8, <1>9 DEF Next, Check, GenStep

\* The inductive invariant holds in every reachable state of get().
LEMMA SpecFileInv == Spec => []FileInv
<1>1. QED
  BY InitFileInv, NextFileInv, PTL DEF Spec

-----------------------------------------------------------------------------

\* Every variable of prometheusFile and of its readers keeps its type: the
\* stamp f.fetched is neither in the future nor older than the content.
THEOREM PromFileTypeCorrect == Spec => []TypeOK
<1>1. FileInv => TypeOK
  BY DEF FileInv
<1>2. QED
  BY <1>1, SpecFileInv, PTL

\* An Open() served from f.cached gets metrics younger than TTL + GenMax.
THEOREM HitsAlwaysFresh == Spec => HitsAreFresh
<1> DEFINE HitFresh ==
      \A r \in Readers :
        pc[r] = "opening" /\ pc'[r] = "idle" => now - taken < TTL + GenMax
<1>1. ASSUME FileInv, Next PROVE HitFresh
  <2>1. SUFFICES ASSUME NEW r \in Readers, pc[r] = "opening", pc'[r] = "idle"
                 PROVE now - taken < TTL + GenMax
    OBVIOUS
  <2>2. PICK q \in Readers : Open(q) \/ Check(q) \/ GenStep(q)
    BY <1>1, <2>1 DEF Next, Tick, ApiChange, readVars
  <2>3. CASE Open(q) \/ StartGen(q) \/ ApiAnswers(q)
    BY <1>1, <2>1, <2>3 DEF Open, StartGen, EnterGen, ApiAnswers, FileInv, TypeOK
  <2>4. CASE GenOK(q) \/ GenErr(q)
    BY <1>1, <2>1, <2>4 DEF GenOK, Store, GenErr, Return, Generating, FileInv, TypeOK
  <2>5. CASE ServeCached(q)
    <3>1. now - fetched < TTL
      BY <2>5 DEF ServeCached, Fresh
    <3>2. fetched - taken <= GenMax
      BY <1>1 DEF FileInv, StoreInv
    <3>3. QED
      BY <1>1, <3>1, <3>2 DEF FileInv, TypeOK
  <2>6. QED
    BY <2>2, <2>3, <2>4, <2>5 DEF Check, GenStep
<1>2. FileInv /\ [Next]_vars => [HitFresh]_vars
  BY <1>1
<1>3. QED
  BY <1>2, SpecFileInv, PTL DEF Spec, HitsAreFresh

\* The content goes back only when two generations overlapped.
THEOREM RegressesNeedOverlap == Spec => RegressesOnlyOnOverlap
<1> DEFINE Overlap ==
      cached' < cached =>
        \E r \in Readers : pc[r] = "generated" /\ pc'[r] = "idle" /\ started[r] <= fetched
<1>1. ASSUME FileInv, Next PROVE Overlap
  <2>1. ASSUME NEW r \in Readers, GenOK(r) PROVE Overlap
    BY <1>1, <2>1 DEF GenOK, Store, Return, FileInv, OverlapInv, TypeOK
  <2>2. CASE ~ \E r \in Readers : GenOK(r)
    <3>1. cached' = cached
      BY <1>1, <2>2 DEF Next, Tick, ApiChange, Open, Check, ServeCached, StartGen, EnterGen,
         GenStep, ApiAnswers, GenErr, fileVars
    <3>2. QED
      BY <1>1, <3>1 DEF FileInv, TypeOK
  <2>3. QED
    BY <2>1, <2>2
<1>2. FileInv /\ [Next]_vars => [Overlap]_vars
  BY <1>1
<1>3. QED
  BY <1>2, SpecFileInv, PTL DEF Spec, RegressesOnlyOnOverlap

-----------------------------------------------------------------------------
(* Refinement *)

LEMMA InitRefines == Init => RT!Init
BY DEF Init, RT!Init

\* Each step of get() is a step of the abstract register or leaves it alone.
LEMMA NextRefines == FileInv /\ [Next]_vars => [RT!Next]_(RT!vars)
<1> SUFFICES ASSUME FileInv, [Next]_vars PROVE [RT!Next]_(RT!vars)
  OBVIOUS
<1>1. CASE Tick
  BY <1>1 DEF Tick, fileVars, readVars, RT!vars
<1>2. CASE ApiChange
  <2>1. RT!Change
    BY <1>2 DEF ApiChange, RT!Change, fileVars, readVars
  <2>2. QED
    BY <2>1 DEF RT!Next
<1>3. ASSUME NEW r \in Readers, Open(r) PROVE [RT!Next]_(RT!vars)
  <2>1. RT!Call(r)
    BY <1>3 DEF Open, RT!Call, fileVars, FileInv, CallInv
  <2>2. QED
    BY <2>1 DEF RT!Next
<1>4. ASSUME NEW r \in Readers, ServeCached(r) \/ GenErr(r) PROVE [RT!Next]_(RT!vars)
  <2>1. RT!Serve(r)
    BY <1>4 DEF ServeCached, GenErr, Return, Generating, RT!Serve, RT!Answer, fileVars, FileInv, CallInv
  <2>2. QED
    BY <2>1 DEF RT!Next
<1>5. ASSUME NEW r \in Readers, StartGen(r) \/ ApiAnswers(r) PROVE [RT!Next]_(RT!vars)
  BY <1>5 DEF StartGen, EnterGen, ApiAnswers, fileVars, RT!vars
<1>6. ASSUME NEW r \in Readers, GenOK(r) PROVE [RT!Next]_(RT!vars)
  <2>1. answer[r].version \in asked[r]..remote
    BY <1>6 DEF GenOK, Store, FileInv, TypeOK, GenInv
  <2>2. RT!Answer(r, answer[r].version)
    BY <1>6 DEF GenOK, Store, Return, RT!Answer, FileInv, CallInv
  <2>3. RT!Refresh(r)
    BY <2>1, <2>2 DEF RT!Refresh
  <2>4. QED
    BY <2>3 DEF RT!Next
<1>7. CASE UNCHANGED vars
  BY <1>7 DEF vars, fileVars, readVars, RT!vars
<1>8. QED
  BY <1>1, <1>2, <1>3, <1>4, <1>5, <1>6, <1>7 DEF Next, Check, GenStep

\* An Open() is given what is stored when it ends, or a state the API had
\* during the call, which is stored from then on.
THEOREM PromFileImplementsReadThrough == Spec => ImplementsReadThrough
<1>1. QED
  BY InitRefines, NextRefines, SpecFileInv, PTL DEF Spec, ImplementsReadThrough, RT!Spec

-----------------------------------------------------------------------------
(* Greatest elements *)

\* The order of the naturals as a relation, for WellFoundedInduction.
Lower == OpToRel(<, Nat)

LEMMA LowerDef == \A x, y \in Nat : <<x, y>> \in Lower <=> x < y
BY DEF Lower, OpToRel

\* A set of naturals that is not empty has a least element.
LEMMA HasLeast ==
  ASSUME NEW T, T \subseteq Nat, T # {}
  PROVE  \E x \in T : \A y \in T : x <= y
<1>1. IsWellFoundedOn(Lower, Nat)
  BY NatLessThanWellFounded DEF Lower
<1>2. PICK x \in T : \A y \in T : ~ (<<y, x>> \in Lower)
  BY <1>1, WFMin
<1>3. ASSUME NEW y \in T PROVE x <= y
  <2>1. ~ (<<y, x>> \in Lower) /\ x \in Nat /\ y \in Nat
    BY <1>2
  <2>2. ~ (y < x)
    BY <2>1, LowerDef
  <2> QED
    BY <2>1, <2>2
<1> QED
  BY <1>3

\* A set of places in a list that is not empty has a greatest element.
LEMMA HasGreatest ==
  ASSUME NEW m \in Nat, NEW S, S \subseteq 1..m, S # {}
  PROVE  \E x \in S : \A y \in S : y <= x
<1> DEFINE T == {m - y : y \in S}
<1>1. T \subseteq Nat /\ T # {}
  OBVIOUS
<1>2. PICK x \in T : \A y \in T : x <= y
  BY <1>1, HasLeast
<1>3. PICK z \in S : x = m - z
  OBVIOUS
<1>4. ASSUME NEW y \in S PROVE y <= z
  <2>1. m - z <= m - y
    BY <1>2, <1>3
  <2>2. y \in Int /\ z \in Int
    OBVIOUS
  <2> QED
    BY <2>1, <2>2
<1> QED
  BY <1>4

-----------------------------------------------------------------------------
(* MetricsFanout *)

\* The loop is over once the generating goroutine waits, nothing was started
\* before the loop, and nobody is unfinished once Wait has returned.
PhaseInv ==
  /\ phase = "list" => next = 1 /\ row = 1
  /\ phase \in {"wait", "render", "metric", "done"} => next = n + 1
  /\ phase \in {"render", "metric", "done"} => Unfinished = {}
  /\ phase = "metric" => output # << >>

\* A slot holds what the API returned once its goroutine has stored it.
SlotInv == \A i \in Items : go[i] \in {"stored", "done"} => results[i] = answers[i]

FanoutInv == FanoutTypeOK /\ PhaseInv /\ SlotInv

USE MaxItemsAssumption

\* latestMetricVal gives the latest value of a list of points that has one.
LEMMA LatestIsLatest ==
  ASSUME NEW ts, Len(ts) \in Nat
  PROVE  /\ LatestMetricVal(ts) # NoValue => IsLatest(LatestMetricVal(ts), ts)
         /\ \A v : IsLatest(v, ts) => LatestMetricVal(ts) # NoValue
<1> DEFINE parsed == {k \in 1..Len(ts) : ts[k] \in Numbers}
<1>1. CASE parsed = {}
  BY <1>1 DEF LatestMetricVal, IsLatest
<1>2. CASE parsed # {}
  <2> DEFINE last == CHOOSE k \in parsed : \A l \in parsed : l <= k
  <2>1. \E k \in parsed : \A l \in parsed : l <= k
    <3> HIDE DEF parsed
    <3>1. parsed \subseteq 1..Len(ts)
      BY DEF parsed
    <3> QED
      BY <1>2, <3>1, HasGreatest
  <2>2. last \in parsed /\ \A l \in parsed : l <= last
    BY <2>1
  <2>3. LatestMetricVal(ts) = ts[last]
    BY <1>2 DEF LatestMetricVal
  <2> HIDE DEF last
  <2>4. IsLatest(ts[last], ts)
    BY <2>2 DEF IsLatest
  <2>5. ts[last] # NoValue
    BY <2>2, NoValueAssumption
  <2> QED
    BY <2>3, <2>4, <2>5
<1> QED
  BY <1>1, <1>2

\* What GetMetrics returns for a key is a list.
LEMMA SeriesAreLists ==
  ASSUME NEW r \in Answers, NEW key \in DOMAIN r.metrics
  PROVE  Len(r.metrics[key]) \in Nat
<1>1. CASE r \in {Zero, Failure}
  BY <1>1 DEF Zero, Failure
<1>2. CASE r \in [err : {FALSE}, metrics : TimeSeries]
  BY <1>2, TimeSeriesAssumption
<1> QED
  BY <1>1, <1>2 DEF Answers

-----------------------------------------------------------------------------
\* Only finitely many goroutines are ever started.
LEMMA UnfinishedFinite ==
  ASSUME NEW S, S \subseteq Items
  PROVE  IsFiniteSet(S) /\ Cardinality(S) \in Nat /\ (Cardinality(S) = 0 <=> S = {})
<1>1. IsFiniteSet(Items)
  BY FS_Interval DEF Items
<1>2. IsFiniteSet(S)
  BY <1>1, FS_Subset
<1> QED
  BY <1>2, FS_CardinalityType, FS_EmptySet

LEMMA InitFanoutInv == FanoutInit => FanoutInv
<1> SUFFICES ASSUME FanoutInit PROVE FanoutInv
  OBVIOUS
<1>1. Unfinished = {}
  BY DEF FanoutInit, Unfinished
<1>2. wg = Cardinality(Unfinished)
  BY <1>1, FS_EmptySet DEF FanoutInit
<1> QED
  BY <1>1, <1>2 DEF FanoutInit, FanoutInv, FanoutTypeOK, PhaseInv, SlotInv, Answers, Items

\* Starting a goroutine adds it to the unfinished ones.
LEMMA SpawnCounts == FanoutTypeOK /\ Spawn => wg' = Cardinality(Unfinished')
<1> SUFFICES ASSUME FanoutTypeOK, Spawn PROVE wg' = Cardinality(Unfinished')
  OBVIOUS
<1>1. next \in Items /\ go[next] = "none"
  BY DEF FanoutTypeOK, Spawn, StartNext, Items
<1>2. Unfinished' = Unfinished \cup {next} /\ next \notin Unfinished
  BY <1>1 DEF FanoutTypeOK, Spawn, StartNext, Unfinished
<1>3. IsFiniteSet(Unfinished)
  BY UnfinishedFinite DEF Unfinished
<1> QED
  BY <1>2, <1>3, FS_AddElement DEF FanoutTypeOK, Spawn

\* wg.Done() takes its goroutine from the unfinished ones.
LEMMA DoneCounts ==
  ASSUME NEW i \in Items, FanoutTypeOK, WgDone(i)
  PROVE  wg' = Cardinality(Unfinished')
<1>1. Unfinished' = Unfinished \ {i} /\ i \in Unfinished
  BY DEF FanoutTypeOK, WgDone, Unfinished
<1>2. IsFiniteSet(Unfinished)
  BY UnfinishedFinite DEF Unfinished
<1> QED
  BY <1>1, <1>2, FS_RemoveElement DEF FanoutTypeOK, WgDone

\* The loop over the list starts inside or, for an empty list, at its end.
LEMMA LoopStarts == \A m \in 0..MaxItems : 1 \in 1..(m + 1)
OBVIOUS

\* A sample that is written is one of the loop's resource, with a value.
LEMMA SampleWritten ==
  ASSUME FanoutTypeOK, WriteSample, HasSample(results[row], Keys[Metric])
  PROVE  /\ Sample \in [item : Items, value : Numbers]
         /\ IsLatest(Sample.value, results[row].metrics[Keys[Metric]])
<1>1. row \in Items
  BY DEF WriteSample, FanoutTypeOK, Items
<1>2. results[row] \in Answers
  BY <1>1 DEF FanoutTypeOK
<1>3. Len(results[row].metrics[Keys[Metric]]) \in Nat
  BY <1>2, SeriesAreLists DEF HasSample
<1>4. IsLatest(Sample.value, results[row].metrics[Keys[Metric]])
  BY <1>3, LatestIsLatest DEF HasSample, Sample
<1>5. Sample.value \in Numbers
  BY <1>4 DEF IsLatest
<1> QED
  BY <1>1, <1>4, <1>5 DEF Sample

\* WriteSample changes the last group only, by at most one sample at its end.
LEMMA OutputWritten ==
  ASSUME FanoutTypeOK, phase = "metric" => output # << >>, WriteSample
  PROVE  /\ output' \in Seq(Seq([item : Items, value : Numbers]))
         /\ Len(output') = Len(output) /\ Metric \in 1..Len(output)
         /\ \A d \in 1..Len(output) : d # Metric => output'[d] = output[d]
         /\ output'[Metric] = IF HasSample(results[row], Keys[Metric])
                              THEN Append(output[Metric], Sample) ELSE output[Metric]
<1> DEFINE R == [item : Items, value : Numbers]
<1>1. output \in Seq(Seq(R)) /\ output # << >>
  BY DEF FanoutTypeOK, WriteSample
<1>2. Metric \in 1..Len(output)
  BY <1>1 DEF Metric
<1>3. CASE HasSample(results[row], Keys[Metric])
  <2>1. Sample \in R
    BY <1>3, SampleWritten
  <2>2. Append(output[Metric], Sample) \in Seq(R)
    BY <1>1, <1>2, <2>1
  <2>3. output' = [output EXCEPT ![Metric] = Append(output[Metric], Sample)]
    BY <1>3 DEF WriteSample
  <2> QED
    BY <1>1, <1>2, <1>3, <2>2, <2>3
<1>4. CASE ~HasSample(results[row], Keys[Metric])
  BY <1>1, <1>2, <1>4 DEF WriteSample
<1> QED
  BY <1>3, <1>4

LEMMA NextFanoutInv == FanoutInv /\ [FanoutNext]_fanoutVars => FanoutInv'
<1> SUFFICES ASSUME FanoutInv, [FanoutNext]_fanoutVars PROVE FanoutInv'
  OBVIOUS
<1> USE DEF FanoutInv, PhaseInv, SlotInv, mainVars, goVars
<1>1. CASE ListOK
  <2>1. n' \in 0..MaxItems /\ next' \in 1..(n' + 1) /\ row' \in 1..(n' + 1)
    BY <1>1, LoopStarts DEF ListOK
  <2>2. Unfinished' = Unfinished
    BY <1>1 DEF ListOK, Unfinished
  <2> QED
    BY <1>1, <2>1, <2>2 DEF ListOK, FanoutTypeOK
<1>2. CASE ListErr
  BY <1>2 DEF ListErr, FanoutTypeOK, Unfinished
<1>3. CASE Spawn
  <2>1. next \in Items /\ go[next] = "none" /\ next + 1 \in 1..(n + 1)
    BY <1>3 DEF FanoutTypeOK, Spawn, StartNext, Items
  <2>2. FanoutTypeOK'
    BY <1>3, <2>1, SpawnCounts DEF FanoutTypeOK, Spawn, StartNext, Items
  <2> QED
    BY <1>3, <2>1, <2>2 DEF FanoutTypeOK, Spawn, StartNext
<1>4. CASE AllSpawned
  BY <1>4 DEF AllSpawned, FanoutTypeOK, Unfinished
<1>5. CASE Wait
  <2>1. Unfinished = {}
    BY <1>5, UnfinishedFinite DEF Wait, FanoutTypeOK, Unfinished
  <2> QED
    BY <1>5, <2>1 DEF Wait, FanoutTypeOK, Unfinished
<1>6. CASE StartMetric \/ EndMetric \/ Finish
  <2>1. Unfinished' = Unfinished
    BY <1>6 DEF StartMetric, EndMetric, Finish, Unfinished, goVars
  <2>2. CASE StartMetric
    <3>1. output' \in Seq(Seq([item : Items, value : Numbers])) /\ Len(output') = Len(output) + 1
      BY <2>2 DEF StartMetric, FanoutTypeOK
    <3>2. Len(output') <= Len(Keys) /\ output' # << >>
      BY <2>2, <3>1, KeysAssumption DEF StartMetric, FanoutTypeOK
    <3>3. row' \in 1..(n' + 1)
      BY <2>2, LoopStarts DEF StartMetric, FanoutTypeOK
    <3> QED
      BY <2>1, <2>2, <3>1, <3>2, <3>3 DEF StartMetric, FanoutTypeOK
  <2>3. CASE EndMetric \/ Finish
    BY <2>1, <2>3 DEF EndMetric, Finish, FanoutTypeOK
  <2> QED
    BY <1>6, <2>2, <2>3
<1>7. CASE WriteSample
  <2>1. Unfinished' = Unfinished
    BY <1>7 DEF WriteSample, Unfinished, goVars
  <2>2. row \in Items /\ row' \in 1..(n + 1)
    BY <1>7 DEF WriteSample, FanoutTypeOK, Items
  <2>3. output' \in Seq(Seq([item : Items, value : Numbers])) /\ Len(output') = Len(output)
    BY <1>7, <2>2, OutputWritten
  <2>4. output' # << >>
    BY <1>7, <2>3 DEF WriteSample, FanoutTypeOK
  <2> QED
    BY <1>7, <2>1, <2>2, <2>3, <2>4 DEF WriteSample, FanoutTypeOK
<1>8. ASSUME NEW i \in Items, GetMetrics(i) PROVE FanoutInv'
  <2>1. Unfinished' = Unfinished
    BY <1>8 DEF GetMetrics, FanoutTypeOK, Unfinished
  <2> QED
    BY <1>8, <2>1 DEF GetMetrics, FanoutTypeOK
<1>9. ASSUME NEW i \in Items, StoreResult(i) PROVE FanoutInv'
  <2>1. Unfinished' = Unfinished
    BY <1>9 DEF StoreResult, FanoutTypeOK, Unfinished
  <2> QED
    BY <1>9, <2>1 DEF StoreResult, FanoutTypeOK
<1>10. ASSUME NEW i \in Items, WgDone(i) PROVE FanoutInv'
  <2>1. Unfinished' \subseteq Unfinished
    BY <1>10 DEF WgDone, FanoutTypeOK, Unfinished
  <2> QED
    BY <1>10, <2>1, DoneCounts DEF WgDone, FanoutTypeOK
<1>11. CASE UNCHANGED fanoutVars
  BY <1>11 DEF fanoutVars, FanoutTypeOK, Unfinished
<1> QED
  BY <1>1, <1>2, <1>3, <1>4, <1>5, <1>6, <1>7, <1>8, <1>9, <1>10, <1>11
     DEF FanoutNext, MainStep, GoStep

LEMMA SpecFanoutInv == FanoutSpec => []FanoutInv
BY InitFanoutInv, NextFanoutInv, PTL DEF FanoutSpec

-----------------------------------------------------------------------------
\* The type invariant: the WaitGroup of buildServerMetrics counts exactly the
\* goroutines that have been started and have not finished.
THEOREM FanoutTypeCorrect == FanoutSpec => []FanoutTypeOK
<1>1. FanoutInv => FanoutTypeOK
  BY DEF FanoutInv
<1> QED
  BY <1>1, SpecFanoutInv, PTL

LEMMA InvReadAfterAllStored == FanoutInv => ReadAfterAllStored
<1> SUFFICES ASSUME FanoutInv, phase \in {"render", "metric", "done"}, NEW i \in 1..n
             PROVE  go[i] = "done" /\ results[i] = answers[i]
  BY DEF ReadAfterAllStored
<1>1. i \in Items /\ i < next
  BY DEF FanoutInv, FanoutTypeOK, PhaseInv, Items
<1>2. go[i] # "none" /\ i \notin Unfinished
  BY <1>1 DEF FanoutInv, FanoutTypeOK, PhaseInv
<1>3. go[i] = "done"
  BY <1>1, <1>2 DEF FanoutInv, FanoutTypeOK, Unfinished
<1> QED
  BY <1>1, <1>3 DEF FanoutInv, SlotInv

\* results is complete and no longer written to when it is rendered.
THEOREM ResultsComplete == FanoutSpec => []ReadAfterAllStored
BY InvReadAfterAllStored, SpecFanoutInv, PTL

-----------------------------------------------------------------------------
(* The samples *)

\* How far the loops over the metrics and the results have come.
Done(d) == IF phase = "metric" /\ d = Len(output) THEN row - 1 ELSE n

\* The groups written so far are right for the resources their loop has passed.
RenderInv ==
  /\ phase \in {"list", "spawn", "wait"} => output = << >>
  /\ phase = "done" => Len(output) = Len(Keys)
  /\ phase \in {"render", "metric", "done"} =>
       \A d \in 1..Len(output) : GroupShows(output[d], Keys[d], Done(d))

\* The loop passes a resource that has no sample,
LEMMA GroupSkips ==
  ASSUME FanoutInv, NEW i \in 1..n, NEW key, NEW group, GroupShows(group, key, i - 1),
         \A v : ~HasValue(i, key, v)
  PROVE  GroupShows(group, key, i)
<1>1. i \in Nat /\ 1..i = (1..(i - 1)) \cup {i}
  BY DEF FanoutInv, FanoutTypeOK
<1> QED
  BY <1>1 DEF GroupShows

\* or writes the one it has.
LEMMA GroupGrows ==
  ASSUME FanoutInv, NEW i \in 1..n, NEW key,
         NEW group \in Seq([item : Items, value : Numbers]),
         NEW s \in [item : Items, value : Numbers],
         GroupShows(group, key, i - 1), s.item = i, HasValue(i, key, s.value)
  PROVE  GroupShows(Append(group, s), key, i)
<1> DEFINE g == Append(group, s)
<1>1. i \in Nat /\ 1..i = (1..(i - 1)) \cup {i}
  BY DEF FanoutInv, FanoutTypeOK
<1>2. /\ Len(group) \in Nat /\ Len(g) = Len(group) + 1 /\ g[Len(g)] = s
      /\ \A j \in 1..Len(group) : g[j] = group[j]
  OBVIOUS
<1> HIDE DEF g
<1>3. \A j \in 1..Len(group) :
        group[j].item \in 1..(i - 1) /\ HasValue(group[j].item, key, group[j].value)
  BY DEF GroupShows
<1>4. \A j, k \in 1..Len(g) : j < k => g[j].item < g[k].item
  <2> SUFFICES ASSUME NEW j \in 1..Len(g), NEW k \in 1..Len(g), j < k
               PROVE  g[j].item < g[k].item
    OBVIOUS
  <2>1. j \in 1..Len(group) /\ g[j] = group[j]
    BY <1>2
  <2>2. CASE k = Len(g)
    BY <1>1, <1>2, <1>3, <2>1, <2>2
  <2>3. CASE k # Len(g)
    <3>1. k \in 1..Len(group) /\ g[k] = group[k]
      BY <1>2, <2>3
    <3>2. group[j].item < group[k].item
      BY <2>1, <3>1 DEF GroupShows
    <3> QED
      BY <2>1, <3>1, <3>2
  <2> QED
    BY <2>2, <2>3
<1>5. ASSUME NEW j \in 1..Len(g)
      PROVE  g[j].item \in 1..i /\ HasValue(g[j].item, key, g[j].value)
  <2>1. CASE j = Len(g)
    BY <1>1, <1>2, <2>1
  <2>2. CASE j # Len(g)
    <3>1. j \in 1..Len(group) /\ g[j] = group[j]
      BY <1>2, <2>2
    <3> QED
      BY <1>1, <1>3, <3>1
  <2> QED
    BY <2>1, <2>2
<1>6. ASSUME NEW l \in 1..i, \E v \in Numbers : HasValue(l, key, v)
      PROVE  \E j \in 1..Len(g) : g[j].item = l
  <2>1. CASE l = i
    BY <1>2, <2>1
  <2>2. CASE l # i
    <3>1. l \in 1..(i - 1)
      BY <1>1, <2>2
    <3>2. PICK j \in 1..Len(group) : group[j].item = l
      BY <1>6, <3>1 DEF GroupShows
    <3> QED
      BY <1>2, <3>2
  <2> QED
    BY <2>1, <2>2
<1> QED
  BY <1>4, <1>5, <1>6 DEF GroupShows, g

\* No goroutine changes its answer once the rendering has begun.
LEMMA AnswersStay ==
  FanoutInv /\ phase \in {"render", "metric", "done"} /\ [FanoutNext]_fanoutVars
    => answers' = answers /\ n' = n
<1> SUFFICES ASSUME FanoutInv, phase \in {"render", "metric", "done"}, [FanoutNext]_fanoutVars
             PROVE  answers' = answers /\ n' = n
  OBVIOUS
<1>1. ASSUME NEW i \in Items, GetMetrics(i) PROVE FALSE
  BY <1>1 DEF FanoutInv, PhaseInv, Unfinished, GetMetrics
<1> QED
  BY <1>1 DEF FanoutNext, MainStep, GoStep, ListOK, ListErr, Spawn, StartNext, AllSpawned, Wait,
     StartMetric, WriteSample, EndMetric, Finish, StoreResult, WgDone, fanoutVars, mainVars, goVars

\* One turn of the inner loop.
LEMMA RowDone ==
  ASSUME FanoutInv, RenderInv, WriteSample
  PROVE  GroupShows(output'[Metric], Keys[Metric], row)
<1> DEFINE key == Keys[Metric]
<1>1. row \in 1..n /\ phase = "metric" /\ output # << >>
  BY DEF WriteSample, FanoutInv, FanoutTypeOK, PhaseInv
<1>2. /\ Metric \in 1..Len(output) /\ output[Metric] \in Seq([item : Items, value : Numbers])
      /\ output'[Metric] = IF HasSample(results[row], key)
                           THEN Append(output[Metric], Sample) ELSE output[Metric]
  BY <1>1, OutputWritten DEF FanoutInv, FanoutTypeOK
<1>3. GroupShows(output[Metric], key, row - 1)
  BY <1>1, <1>2 DEF RenderInv, Done, Metric
<1>4. results[row] = answers[row] /\ row \in Items /\ results[row] \in Answers
  <2>1. results[row] = answers[row]
    BY <1>1, InvReadAfterAllStored DEF ReadAfterAllStored
  <2>2. row \in Items
    BY <1>1 DEF FanoutInv, FanoutTypeOK, Items
  <2> QED
    BY <2>1, <2>2 DEF FanoutInv, FanoutTypeOK
<1>5. CASE HasSample(results[row], key)
  <2>1. Sample \in [item : Items, value : Numbers] /\ IsLatest(Sample.value, results[row].metrics[key])
    BY <1>5, SampleWritten DEF FanoutInv
  <2>2. HasValue(row, key, Sample.value) /\ Sample.item = row
    BY <1>4, <1>5, <2>1 DEF HasValue, HasSample, Sample
  <2>3. GroupShows(Append(output[Metric], Sample), key, row)
    BY <1>1, <1>2, <1>3, <2>1, <2>2, GroupGrows
  <2> QED
    BY <1>2, <1>5, <2>3
<1>6. CASE ~HasSample(results[row], key)
  <2>1. ASSUME NEW v, HasValue(row, key, v) PROVE FALSE
    <3>1. key \in DOMAIN results[row].metrics /\ IsLatest(v, results[row].metrics[key]) /\ ~results[row].err
      BY <1>4, <2>1 DEF HasValue
    <3>2. LatestMetricVal(results[row].metrics[key]) # NoValue
      BY <1>4, <3>1, SeriesAreLists, LatestIsLatest
    <3> QED
      BY <1>6, <3>1, <3>2 DEF HasSample
  <2>2. GroupShows(output[Metric], key, row)
    BY <1>1, <1>3, <2>1, GroupSkips
  <2> QED
    BY <1>2, <1>6, <2>2
<1> QED
  BY <1>5, <1>6

LEMMA NextRenderInv ==
  FanoutInv /\ RenderInv /\ [FanoutNext]_fanoutVars => RenderInv'
<1> SUFFICES ASSUME FanoutInv, RenderInv, [FanoutNext]_fanoutVars PROVE RenderInv'
  OBVIOUS
<1> USE DEF mainVars, goVars
<1> DEFINE Rendering == phase \in {"render", "metric", "done"}
<1>1. CASE ~Rendering
  BY <1>1 DEF RenderInv, FanoutInv, FanoutTypeOK, FanoutNext, MainStep, GoStep, ListOK, ListErr,
     Spawn, StartNext, AllSpawned, Wait, StartMetric, WriteSample, EndMetric, Finish, GetMetrics,
     StoreResult, WgDone, fanoutVars
<1>2. CASE Rendering
  <2>1. answers' = answers /\ n' = n /\ Len(output) \in Nat
    BY <1>2, AnswersStay DEF FanoutInv, FanoutTypeOK
  <2>2. ASSUME NEW d \in 1..Len(output), output'[d] = output[d], Done(d)' = Done(d)
        PROVE  GroupShows(output[d], Keys[d], Done(d))'
    <3>1. GroupShows(output[d], Keys[d], Done(d))
      BY <1>2 DEF RenderInv
    <3> QED
      BY <2>1, <2>2, <3>1 DEF GroupShows, HasValue
  <2>3. CASE StartMetric
    <3>1. /\ output \in Seq(Seq([item : Items, value : Numbers])) /\ output' = Append(output, << >>)
          /\ Len(output') = Len(output) + 1 /\ output'[Len(output')] = << >>
      BY <2>3 DEF StartMetric, FanoutInv, FanoutTypeOK
    <3>2. ASSUME NEW d \in 1..Len(output') PROVE GroupShows(output[d], Keys[d], Done(d))'
      <4>1. CASE d = Len(output')
        <5>1. output'[d] = << >> /\ Done(d)' = 0
          BY <2>3, <3>1, <4>1 DEF StartMetric, Done
        <5> QED
          BY <5>1 DEF GroupShows
      <4>2. CASE d # Len(output')
        <5>1. d \in 1..Len(output) /\ output'[d] = output[d]
          BY <2>1, <3>1, <4>2
        <5>2. Done(d)' = Done(d)
          BY <2>1, <2>3, <4>2 DEF StartMetric, Done
        <5> QED
          BY <2>2, <5>1, <5>2
      <4> QED
        BY <4>1, <4>2
    <3> QED
      BY <2>3, <3>2 DEF StartMetric, RenderInv
  <2>4. CASE WriteSample
    <3>1. /\ Len(output') = Len(output) /\ Metric = Len(output) /\ Metric \in 1..Len(output)
          /\ \A d \in 1..Len(output) : d # Metric => output'[d] = output[d]
      BY <2>4, OutputWritten DEF WriteSample, FanoutInv, PhaseInv, Metric
    <3>2. ASSUME NEW d \in 1..Len(output') PROVE GroupShows(output[d], Keys[d], Done(d))'
      <4>1. CASE d = Metric
        <5>1. GroupShows(output'[d], Keys[d], row)
          BY <2>4, <4>1, RowDone
        <5>2. Done(d)' = row
          <6>1. row \in Int
            BY DEF FanoutInv, FanoutTypeOK
          <6>2. phase' = "metric" /\ row' = row + 1
            BY <2>4 DEF WriteSample
          <6>3. Done(d)' = row' - 1
            BY <3>1, <4>1, <6>2 DEF Done
          <6> QED
            BY <6>1, <6>2, <6>3
        <5> QED
          BY <2>1, <5>1, <5>2 DEF GroupShows, HasValue, IsLatest
      <4>2. CASE d # Metric
        <5>1. Done(d)' = Done(d)
          BY <2>1, <2>4, <3>1, <4>2 DEF WriteSample, Done
        <5> QED
          BY <2>2, <3>1, <4>2, <5>1
      <4> QED
        BY <4>1, <4>2
    <3> QED
      BY <2>4, <3>2 DEF WriteSample, RenderInv
  <2>5. CASE EndMetric
    <3>1. ASSUME NEW d \in 1..Len(output) PROVE Done(d)' = Done(d)
      BY <2>1, <2>5 DEF EndMetric, Done, FanoutInv, FanoutTypeOK
    <3> QED
      BY <2>2, <2>5, <3>1 DEF EndMetric, RenderInv
  <2>6. CASE Finish
    <3>1. ASSUME NEW d \in 1..Len(output) PROVE Done(d)' = Done(d)
      BY <2>1, <2>6 DEF Finish, Done
    <3> QED
      BY <2>2, <2>6, <3>1 DEF Finish, RenderInv
  <2>7. CASE UNCHANGED <<phase, output, row>>
    <3>1. ASSUME NEW d \in 1..Len(output) PROVE Done(d)' = Done(d)
      BY <2>1, <2>7 DEF Done
    <3> QED
      BY <2>2, <2>7, <3>1 DEF RenderInv
  <2> QED
    BY <1>2, <2>3, <2>4, <2>5, <2>6, <2>7 DEF FanoutNext, MainStep, GoStep, ListOK, ListErr,
       Spawn, StartNext, AllSpawned, Wait, GetMetrics, StoreResult, WgDone, fanoutVars
<1> QED
  BY <1>1, <1>2

\* A finished file has one sample of each resource with a value, its latest,
\* in the order of the list: for any number of resources, metrics and points.
THEOREM SamplesComplete == FanoutSpec => []EverySampleOnce
<1>1. FanoutInit => RenderInv
  BY DEF FanoutInit, RenderInv
<1>2. FanoutInv /\ RenderInv => EverySampleOnce
  BY DEF RenderInv, EverySampleOnce, Done
<1> QED
  BY <1>1, <1>2, NextRenderInv, SpecFanoutInv, PTL DEF FanoutSpec
=============================================================================
