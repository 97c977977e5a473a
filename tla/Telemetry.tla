----------------------------- MODULE Telemetry ------------------------------
(***************************************************************************)
(* The resource readings of one deployed runtime: the Docker and the       *)
(* Kubernetes resource source (pkg/deployment/docker and kubernetes,       *)
(* resources.go) sample it while the deployment creates, starts, stops and *)
(* removes it, and the recorder (pkg/monitor/recorder.go) turns readings   *)
(* into rates against the baseline of the last one.  A sample that returns *)
(* an error ends the telemetry of the run.                                 *)
(*                                                                         *)
(* Docker is asked in three calls (list, inspect, stats), Prometheus in    *)
(* three queries (counter, memory, scrape time) around a listing of the    *)
(* pods; the runtime goes on between them.  Of the memory query only       *)
(* whether it names the pod matters, and an unknown pod may be looked up   *)
(* again at any time.                                                      *)
(***************************************************************************)
EXTENDS Deployments, Naturals, Sequences

CONSTANTS
  MaxClock,                \* bound on time
  MaxRate,                 \* maxCPUPercent, in units of the counter per time
  Grace,                   \* BaselineGracePeriod of the Kubernetes source
  discoveryFailureBudget   \* listings that may fail in a row

\* maxCPUPercent stands for 10 000 processors, and a counter may be paired
\* with a later scrape's time: the bound is above what all of them together
\* would show, so that a reading of one runtime stays below it.
ASSUME TelemetryAssumption ==
  /\ MaxClock \in Nat /\ Grace \in Nat /\ discoveryFailureBudget \in Nat
  /\ MaxRate \in Nat /\ MaxRate >= MaxClock

VARIABLES
  cpuAt,         \* the runtime's CPU counter at each time up to now
  series,        \* Prometheus: the last scrape under the runtime's name
  at,            \* where Sample is; failed, rejected when it ended for good
  first,         \* the scrape that the first query of this sample saw
  lastObserved,  \* the newest scrape time emitted
  class,         \* the pod: new, owned or unknown to the source
  discoveryFailures,
  baseline, missed,
  last           \* history: the last reading recorded

cluster == <<cpuAt, series>>
source == <<lastObserved, class, discoveryFailures>>
recorder == <<baseline, missed, last>>
telemetry == <<cluster, at, first, source, recorder>>

None == [cpu |-> 0, time |-> 0]
clock == Len(cpuAt)

TelemetryInit ==
  /\ PlatformInit
  /\ cpuAt = <<0>> /\ series = None /\ at = "idle" /\ first = None
  /\ lastObserved = 0 /\ class = "new" /\ discoveryFailures = 0
  /\ baseline = None /\ missed = 0 /\ last = None

-----------------------------------------------------------------------------
(* The runtime and Prometheus *)

Exists == "runtime" \in objects
\* A pod's container runs from its creation, behind the start gate.
Live == Exists /\ (platform = "docker" => running)

Tick ==
  /\ Live /\ clock < MaxClock
  /\ \E use \in {0, 1} : cpuAt' = Append(cpuAt, cpuAt[clock] + use)
  /\ UNCHANGED <<series, at, first, source, recorder>>

\* Prometheus knows the pod by its name only, whoever it belongs to, and
\* serves its last sample for a while after it is gone.
Scrape ==
  /\ platform = "kubernetes"
  /\ \/ (Live \/ foreign) /\ series' = [cpu |-> cpuAt[clock], time |-> clock]
     \/ ~Live /\ ~foreign /\ series' = None
  /\ UNCHANGED <<cpuAt, at, first, source, recorder>>

-----------------------------------------------------------------------------
(* The recorder *)

Accepts(r) ==
  \/ baseline = None
  \/ /\ r.time > baseline.time /\ r.cpu >= baseline.cpu
     /\ r.cpu - baseline.cpu <= MaxRate * (r.time - baseline.time)

\* cpuPercent rejects a reading that does not follow the baseline; a sample
\* without a reading ages the baseline.
Record(r) ==
  /\ IF Accepts(r) THEN at' = "idle" /\ baseline' = r /\ last' = r
                   ELSE at' = "rejected" /\ UNCHANGED <<baseline, last>>
  /\ missed' = 0
dropMissingBaselines ==
  LET grace == IF platform = "docker" THEN 0 ELSE Grace IN
  /\ IF baseline # None /\ missed < grace
     THEN missed' = missed + 1 /\ UNCHANGED baseline
     ELSE missed' = 0 /\ baseline' = None
  /\ UNCHANGED last

NoReading == at' = "idle" /\ dropMissingBaselines
Fails == at' = "failed" /\ UNCHANGED recorder
Continues(p) == at' = p /\ UNCHANGED recorder

-----------------------------------------------------------------------------
(* DockerResourceSource.Sample *)

\* discover lists the running containers with the run's labels.
DockerList ==
  /\ platform = "docker" /\ at = "idle"
  /\ \/ Fails
     \/ Live /\ Continues("listed")
     \/ ~Live /\ NoReading
  /\ UNCHANGED <<cluster, first, source>>

DockerInspect ==
  /\ at = "listed"
  /\ \/ Fails
     \/ Live /\ Continues("inspected")
     \/ ~Live /\ NoReading
  /\ UNCHANGED <<cluster, first, source>>

\* ContainerStats computes fresh values, at a later time than the last ones.
\* A container that stopped answers without a time, or without memory.
DockerStats ==
  /\ at = "inspected"
  /\ \/ Fails
     \/ /\ Live /\ clock > last.time
        /\ Record([cpu |-> cpuAt[clock], time |-> clock])
     \/ Exists /\ ~Live /\ (Continues("recheck") \/ NoReading)
     \/ ~Exists /\ NoReading
  /\ UNCHANGED <<cluster, first, source>>

\* Mutant: a response without a time is malformed, whatever the runtime does.
RecheckNothing ==
  /\ at = "recheck"
  /\ at' = "rejected" /\ UNCHANGED recorder
  /\ UNCHANGED <<cluster, first, source>>

\* Only a container that still runs has answered wrongly.
DockerRecheck ==
  /\ at = "recheck"
  /\ \/ Fails
     \/ IF Live THEN at' = "rejected" /\ UNCHANGED recorder ELSE NoReading
  /\ UNCHANGED <<cluster, first, source>>

-----------------------------------------------------------------------------
(* ResourceSource.Sample of Kubernetes *)

QueryCPU ==
  /\ platform = "kubernetes" /\ at = "idle"
  /\ \/ Fails /\ UNCHANGED first
     \/ series = None /\ NoReading /\ UNCHANGED first
     \/ series # None /\ Continues("identify") /\ first' = series
  /\ UNCHANGED <<cluster, source>>

\* discover keeps the running pods whose annotations name this run and task.
Discovered == IF Exists /\ ~foreign THEN {"owned", "unknown"} ELSE {"unknown"}

\* identify lists the pods for a name it has not classified.  A few failures
\* in a row are absorbed.
Identify ==
  /\ at = "identify"
  /\ \/ class # "new" /\ Continues("query") /\ UNCHANGED <<class, discoveryFailures>>
     \/ /\ class # "owned" /\ Continues("query")
        /\ class' \in Discovered /\ discoveryFailures' = 0
     \/ /\ class # "owned" /\ discoveryFailures < discoveryFailureBudget
        /\ Continues("query")
        /\ discoveryFailures' = discoveryFailures + 1 /\ UNCHANGED class
     \/ /\ class # "owned" /\ discoveryFailures = discoveryFailureBudget
        /\ Fails /\ UNCHANGED <<class, discoveryFailures>>
  /\ UNCHANGED <<cluster, first, lastObserved>>

\* Mutant: the scrape time is queried first, the counter last.
ReadingSwapped == [cpu |-> series.cpu, time |-> first.time]

\* The counter is of the first query, the scrape time of the last one.
Reading == [cpu |-> first.cpu, time |-> series.time]

observationIsNew == Reading.time > lastObserved

\* A pod without memory, without a scrape or without a new one is skipped.
QueryScraped ==
  /\ at = "query"
  /\ \/ Fails /\ UNCHANGED lastObserved
     \/ /\ class = "owned" /\ series # None /\ observationIsNew
        /\ Record(Reading) /\ lastObserved' = Reading.time
     \/ NoReading /\ UNCHANGED lastObserved
  /\ first' = None
  /\ UNCHANGED <<cluster, class, discoveryFailures>>

-----------------------------------------------------------------------------
Sample ==
  \/ DockerList \/ DockerInspect \/ DockerStats \/ DockerRecheck
  \/ QueryCPU \/ Identify \/ QueryScraped

TelemetryNext ==
  \/ Next /\ UNCHANGED telemetry
  \/ (Tick \/ Scrape \/ Sample) /\ UNCHANGED <<vars, platform>>

TelemetrySpec ==
  TelemetryInit /\ [][TelemetryNext]_<<vars, platform, telemetry>>

-----------------------------------------------------------------------------
(* Properties *)

(***************************************************************************)
(* Nothing the runtime does ends the telemetry of a run: it may stop, be   *)
(* killed or be removed between any two calls of a sample, and the same    *)
(* scrape may be served again.  No reading is then rejected.               *)
(***************************************************************************)
TelemetrySurvives == at # "rejected"

(***************************************************************************)
(* What is recorded is the runtime's own use: a recorded counter lies      *)
(* between the true counter at the previous recorded time and the one at   *)
(* its own time, so that no use is counted twice or before it happened,    *)
(* and a pod of someone else with the same name is never recorded.         *)
(***************************************************************************)
ReadingsBracketed ==
  [][last' # last =>
       /\ ~foreign
       /\ last.time > 0 => cpuAt[last.time] <= last'.cpu
       /\ last'.cpu <= cpuAt[last'.time]]_telemetry
=============================================================================
