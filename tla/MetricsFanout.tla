--------------------------- MODULE MetricsFanout ---------------------------
(***************************************************************************)
(* buildServerMetrics and buildLoadBalancerMetrics of prometheus.go: one   *)
(* generation of a metrics file.                                           *)
(*                                                                         *)
(* The generating goroutine lists the resources, starts one goroutine per  *)
(* resource that asks the API for its metrics and stores the answer in the *)
(* slot results[i], waits for all of them, and then writes, metric by      *)
(* metric, one sample per resource.  The two functions differ only in      *)
(* their table of metrics, which is the constant Keys.                     *)
(*                                                                         *)
(* Generations share nothing (results and wg are local), so one is enough. *)
(* A resource is its place in the list.  HELP and TYPE lines, labels and   *)
(* number formats are left out: a file is a sequence of groups of samples. *)
(***************************************************************************)
EXTENDS Integers, Sequences, FiniteSets

CONSTANTS MaxItems,   \* bound on the number of resources
          Keys,       \* the time series of the metric definitions, in order
          TimeSeries, \* what a metrics answer may hold (external)
          Numbers,    \* the texts that strconv.ParseFloat accepts
          NoValue     \* latestMetricVal's "false"

ASSUME MaxItemsAssumption == MaxItems \in Nat
ASSUME NoValueAssumption == NoValue \notin Numbers
\* Keys is a table, and a time series a list.
ASSUME KeysAssumption == Keys \in Seq(STRING)
ASSUME TimeSeriesAssumption ==
  \A m \in TimeSeries : \A key \in DOMAIN m : Len(m[key]) \in Nat

VARIABLES phase,      \* where the generating goroutine is
          n,          \* len(servers)
          next,       \* the resource whose goroutine is started next
          wg,         \* the counter of the WaitGroup
          go,         \* where the goroutine of each resource is
          answers,    \* what GetMetrics returned to each goroutine
          results,    \* the slots, as the generating goroutine sees them
          row,        \* the slot whose sample is written next
          output      \* the groups written so far, one per metric

mainVars == <<phase, n, next, row, output>>
goVars == <<go, answers, results>>
fanoutVars == <<mainVars, wg, goVars>>

Items == 1..MaxItems

\* A result with no time series: the zero value, or metrics == nil.
Zero == [err |-> FALSE, metrics |-> << >>]
Failure == [err |-> TRUE, metrics |-> << >>]
Answers == {Zero, Failure} \cup [err : {FALSE}, metrics : TimeSeries]

FanoutInit ==
  /\ phase = "list"
  /\ n = 0
  /\ next = 1
  /\ wg = 0
  /\ go = [i \in Items |-> "none"]
  /\ answers = [i \in Items |-> Zero]
  /\ results = [i \in Items |-> Zero]
  /\ row = 1
  /\ output = << >>

-----------------------------------------------------------------------------
(* The generating goroutine, up to wg.Wait() *)

\* client.Server.All returns m resources, or an error that ends the generation.
ListOK ==
  /\ phase = "list"
  /\ n' \in 0..MaxItems
  /\ phase' = "spawn"
  /\ UNCHANGED <<next, row, output, wg, goVars>>

ListErr ==
  /\ phase = "list"
  /\ phase' = "failed"
  /\ UNCHANGED <<n, next, row, output, wg, goVars>>

StartNext ==
  /\ phase = "spawn"
  /\ next <= n
  /\ go' = [go EXCEPT ![next] = "calling"]
  /\ next' = next + 1
  /\ UNCHANGED <<phase, n, row, output, answers, results>>

\* wg.Add(1) and go func.
SpawnNoAdd == StartNext /\ UNCHANGED wg
Spawn == StartNext /\ wg' = wg + 1

AllSpawned ==
  /\ phase = "spawn"
  /\ next > n
  /\ phase' = "wait"
  /\ UNCHANGED <<n, next, row, output, wg, goVars>>

\* wg.Wait() returns.
Wait ==
  /\ phase = "wait"
  /\ wg = 0
  /\ phase' = "render"
  /\ UNCHANGED <<n, next, row, output, wg, goVars>>

-----------------------------------------------------------------------------
(* The goroutine of resource i *)

\* GetMetrics returns.
GetMetrics(i) ==
  /\ go[i] = "calling"
  /\ \E a \in Answers : answers' = [answers EXCEPT ![i] = a]
  /\ go' = [go EXCEPT ![i] = "answered"]
  /\ UNCHANGED <<mainVars, wg, results>>

\* results[i] = result{...}
StoreResult(i) ==
  /\ go[i] = "answered"
  /\ results' = [results EXCEPT ![i] = answers[i]]
  /\ go' = [go EXCEPT ![i] = "stored"]
  /\ UNCHANGED <<mainVars, wg, answers>>

\* The deferred wg.Done().
WgDoneOnSuccess(i) ==
  /\ go[i] = "stored"
  /\ ~results[i].err
  /\ wg' = wg - 1
  /\ go' = [go EXCEPT ![i] = "done"]
  /\ UNCHANGED <<mainVars, answers, results>>

WgDone(i) ==
  /\ go[i] = "stored"
  /\ wg' = wg - 1
  /\ go' = [go EXCEPT ![i] = "done"]
  /\ UNCHANGED <<mainVars, answers, results>>

-----------------------------------------------------------------------------
(* The generating goroutine, after wg.Wait() *)

\* latestMetricVal: of the points that parse, the last.
LatestNonEmpty(ts) == IF ts = << >> THEN NoValue ELSE ts[Len(ts)]

LatestMetricVal(ts) ==
  LET parsed == {k \in 1..Len(ts) : ts[k] \in Numbers}
  IN  IF parsed = {} THEN NoValue
      ELSE ts[CHOOSE k \in parsed : \A l \in parsed : l <= k]

HasSample(r, key) ==
  /\ ~r.err
  /\ key \in DOMAIN r.metrics
  /\ LatestMetricVal(r.metrics[key]) # NoValue

\* The HELP and TYPE lines of the next metric.
StartMetric ==
  /\ phase = "render"
  /\ Len(output) < Len(Keys)
  /\ output' = Append(output, << >>)
  /\ row' = 1
  /\ phase' = "metric"
  /\ UNCHANGED <<n, next, wg, goVars>>

\* The loop over results: the sample of one resource, or continue.
Metric == Len(output)
Sample ==
  [item |-> row, value |-> LatestMetricVal(results[row].metrics[Keys[Metric]])]

WriteSample ==
  /\ phase = "metric"
  /\ row <= n
  /\ output' = IF HasSample(results[row], Keys[Metric])
               THEN [output EXCEPT ![Metric] = Append(@, Sample)] ELSE output
  /\ row' = row + 1
  /\ UNCHANGED <<phase, n, next, wg, goVars>>

\* The empty line after a metric.
EndMetric ==
  /\ phase = "metric"
  /\ row > n
  /\ phase' = "render"
  /\ UNCHANGED <<n, next, row, output, wg, goVars>>

Finish ==
  /\ phase = "render"
  /\ Len(output) = Len(Keys)
  /\ phase' = "done"
  /\ UNCHANGED <<n, next, row, output, wg, goVars>>

MainStep ==
  \/ ListOK \/ ListErr \/ Spawn \/ AllSpawned \/ Wait
  \/ StartMetric \/ WriteSample \/ EndMetric \/ Finish
GoStep(i) == GetMetrics(i) \/ StoreResult(i) \/ WgDone(i)

FanoutNext == MainStep \/ \E i \in Items : GoStep(i)

FanoutSpec == FanoutInit /\ [][FanoutNext]_fanoutVars

\* A goroutine that can run is run, and every API call ends.
FanoutFairness == WF_fanoutVars(MainStep) /\ \A i \in Items : WF_fanoutVars(GoStep(i))

FanoutFairSpec == FanoutSpec /\ FanoutFairness

-----------------------------------------------------------------------------
(* Properties *)

\* The goroutines that have been started and have not called wg.Done().
Unfinished == {i \in Items : go[i] \in {"calling", "answered", "stored"}}

\* The values the variables range over; the WaitGroup counts the unfinished
\* goroutines, and the slots beyond the list are never used.
FanoutTypeOK ==
  /\ phase \in {"list", "spawn", "wait", "render", "metric", "done", "failed"}
  /\ n \in 0..MaxItems
  /\ next \in 1..(n + 1)
  /\ wg = Cardinality(Unfinished)
  /\ go \in [Items -> {"none", "calling", "answered", "stored", "done"}]
  /\ answers \in [Items -> Answers]
  /\ results \in [Items -> Answers]
  /\ \A i \in Items : go[i] = "none" <=> i >= next
  /\ row \in 1..(n + 1)
  /\ output \in Seq(Seq([item : Items, value : Numbers]))
  /\ Len(output) <= Len(Keys)

\* The slots are only read when every goroutine of the list has stored what
\* the API returned to it: nothing is written to them beside the rendering,
\* and no result is missed.
ReadAfterAllStored ==
  phase \in {"render", "metric", "done"} =>
    \A i \in 1..n : go[i] = "done" /\ results[i] = answers[i]

\* v is the latest value of a time series: a point with that text, and after
\* it only points without one.
IsLatest(v, ts) ==
  \E k \in 1..Len(ts) :
    /\ ts[k] = v /\ v \in Numbers
    /\ \A l \in (k + 1)..Len(ts) : ts[l] \notin Numbers

\* The call for item i succeeded, and its series for key has v as its latest value.
HasValue(i, key, v) ==
  /\ ~answers[i].err
  /\ key \in DOMAIN answers[i].metrics
  /\ IsLatest(v, answers[i].metrics[key])

\* group shows, in their order, the items of 1..m that have a value, each once.
GroupShows(group, key, m) ==
  /\ \A j, k \in 1..Len(group) : j < k => group[j].item < group[k].item
  /\ \A j \in 1..Len(group) :
       group[j].item \in 1..m /\ HasValue(group[j].item, key, group[j].value)
  /\ \A i \in 1..m :
       (\E v \in Numbers : HasValue(i, key, v)) => \E j \in 1..Len(group) : group[j].item = i

\* A finished file has, for each metric, exactly one sample of each resource
\* whose call succeeded and whose time series has a value, and it is the
\* latest one; a failed call takes away its own samples and no other.  The
\* order is that of the list, whatever the order in which the calls ended.
EverySampleOnce ==
  phase = "done" =>
    /\ Len(output) = Len(Keys)
    /\ \A d \in 1..Len(Keys) : GroupShows(output[d], Keys[d], n)

\* A generation ends, also when some of its calls fail.
GenerationEnds == <>(phase \in {"done", "failed"})
=============================================================================
