--------------------------------- MODULE Agent ---------------------------------
(***************************************************************************)
(* The agent process: two goroutines share the poll ticker, a reporter puts*)
(* what was collected into a bounded channel, a pool of workers sends each *)
(* report as a batch and falls back to one request per metric, and main    *)
(* shuts all of this down on a signal.  The network may lose a request or  *)
(* its response, and the server, which keeps the metrics in memory or in a *)
(* database, may refuse a request, execute it after the agent gave it up,  *)
(* or answer 200 to what its database has stored several times or not at   *)
(* all.                                                                    *)
(***************************************************************************)
EXTENDS Integers, Sequences, FiniteSets

CONSTANTS
  Workers,          \* RateLimit goroutines
  Cap,              \* capacity of metricsChan: 100
  Encrypted,        \* a public key is configured: no batch fits into one RSA block
  Faults,           \* requests may be refused or lost
  Late,             \* a request that was given up may be executed afterwards
  Database,         \* the server keeps the metrics in PostgreSQL
  maxRetries,       \* attempts of the server at one update of its database: 4
  Stops,            \* bound: whether a signal may come
  MaxPolls,         \* bound: polls of the collector
  MaxReports        \* bound: reports

ASSUME CapAssumption == Cap \in Nat \ {0}
ASSUME AgentFlags == {Encrypted, Faults, Late, Database, Stops} \subseteq BOOLEAN
ASSUME RetriesAssumption == maxRetries \in Nat \ {0}
ASSUME BoundsAssumption == MaxPolls \in Nat /\ MaxReports \in Nat
ASSUME WorkersAssumption ==
  IsFiniteSet(Workers) /\ Workers \cap {"main", "poller", "sysPoller", "reporter"} = {}

Goroutines == {"main", "poller", "sysPoller", "reporter"} \cup Workers
Ids        == 1 .. MaxReports

(* The counter, which stands for all that Collect stores, and the gauges of*)
(* CollectSystemMetrics.                                                   *)
Metrics == {"PollCount", "FreeMemory"}

VARIABLES
  pollTick, reportTick,   \* a tick waits in the channel of the ticker
  polls,                  \* PollCount of the collector
  system,                 \* CollectSystemMetrics has stored its gauges
  reports,                \* the reports that GetMetrics returned, in order
  queue,                  \* metricsChan, as positions in reports
  pc,                     \* where each goroutine is
  job, left, request,     \* per worker: its report, the metrics Send has yet
                          \* to send, the request it waits for
  response,               \* per worker: the response that has arrived
  net,                    \* requests that the server may still execute
  executed,               \* how often the server has stored what a request asks
  gauge,                  \* the report that the server's FreeMemory is from
  told,                   \* what the worker logged about a report
  ambiguous               \* history: batches given up without a response

vars == <<pollTick, reportTick, polls, system, reports, queue, pc, job, left, request,
          response, net, executed, gauge, told, ambiguous>>

workerVars    == <<job, left, request, response>>
collectorVars == <<pollTick, reportTick, polls, system, reports>>
serverVars    == <<net, executed, gauge>>
historyVars   == <<told, ambiguous>>

None     == [report |-> 0, kind |-> "none"]
Requests == [report: Ids, kind: {"batch"} \cup Metrics]

Batch(r)     == [report |-> r, kind |-> "batch"]
Single(r, k) == [report |-> r, kind |-> k]

(* GetMetrics takes PollCount - lastPollCount for the counter, and nothing *)
(* in the agent moves lastPollCount: the delta is the number of all polls. *)
Collected ==
  [keys |-> (IF polls > 0 THEN {"PollCount"} ELSE {})
              \cup (IF system THEN {"FreeMemory"} ELSE {}),
   delta |-> polls]

Snapshots == [keys: SUBSET Metrics, delta: 0 .. MaxPolls]

Keys(r) == reports[r].keys

(* What a request asks the server to store.                                *)
Content(q) == IF q.kind = "batch" THEN Keys(q.report) ELSE {q.kind}

Alive     == pc["main"] \notin {"exited", "panicked"}
Cancelled == pc["main"] \in {"close", "wait"}
Closed    == pc["main"] = "wait"

TypeOK ==
  /\ pollTick \in BOOLEAN /\ reportTick \in BOOLEAN /\ system \in BOOLEAN
  /\ polls \in 0 .. MaxPolls
  /\ reports \in Seq(Snapshots)
  /\ Len(reports) <= MaxReports
  /\ queue \in Seq(Ids) /\ Len(queue) <= Cap
  /\ pc \in [Goroutines -> {"run", "cancel", "close", "wait", "exited", "panicked",
                            "select", "send", "batch", "single", "waitBatch", "waitSingle",
                            "stopped"}]
  /\ job \in [Workers -> {0} \cup Ids]
  /\ left \in [Workers -> SUBSET Metrics]
  /\ request \in [Workers -> Requests \cup {None}]
  /\ response \in [Workers -> {"none", "ok", "refused"}]
  /\ net \subseteq Requests
  /\ executed \in [Requests -> Nat]
  /\ gauge \in {0} \cup Ids
  /\ told \in [Ids -> {"nothing", "batchSent", "sent", "error"}]
  /\ ambiguous \subseteq Ids

Init ==
  /\ pollTick = FALSE /\ reportTick = FALSE /\ polls = 0 /\ system = FALSE
  /\ reports = << >> /\ queue = << >>
  /\ pc = [g \in Goroutines |-> IF g = "main" THEN "run" ELSE "select"]
  /\ job = [w \in Workers |-> 0]
  /\ left = [w \in Workers |-> {}]
  /\ request = [w \in Workers |-> None]
  /\ response = [w \in Workers |-> "none"]
  /\ net = {}
  /\ executed = [q \in Requests |-> 0]
  /\ gauge = 0
  /\ told = [r \in Ids |-> "nothing"]
  /\ ambiguous = {}

--------------------------------------------------------------------------------
(* Tickers, collectors and reporter *)

(* A ticker drops its tick when the last one was not taken.                *)
PollTick ==
  /\ pc["main"] = "run" /\ ~pollTick /\ polls < MaxPolls
  /\ pollTick' = TRUE
  /\ UNCHANGED <<reportTick, polls, system, reports, queue, pc>>
  /\ UNCHANGED <<workerVars, serverVars, historyVars>>

ReportTick ==
  /\ pc["main"] = "run" /\ ~reportTick
  /\ reportTick' = TRUE
  /\ UNCHANGED <<pollTick, polls, system, reports, queue, pc>>
  /\ UNCHANGED <<workerVars, serverVars, historyVars>>

(* Both collectors receive from the one channel: a tick reaches only one.  *)
Collect ==
  /\ Alive /\ pc["poller"] = "select" /\ pollTick
  /\ pollTick' = FALSE
  /\ polls' = polls + 1
  /\ UNCHANGED <<reportTick, system, reports, queue, pc>>
  /\ UNCHANGED <<workerVars, serverVars, historyVars>>

CollectSystemMetrics ==
  /\ Alive /\ pc["sysPoller"] = "select" /\ pollTick
  /\ pollTick' = FALSE
  /\ system' = TRUE
  /\ UNCHANGED <<reportTick, polls, reports, queue, pc>>
  /\ UNCHANGED <<workerVars, serverVars, historyVars>>

(* Without any metric there is nothing to report.                          *)
Report ==
  /\ Alive /\ pc["reporter"] = "select" /\ reportTick /\ Len(reports) < MaxReports
  /\ reportTick' = FALSE
  /\ IF Collected.keys = {}
     THEN UNCHANGED <<reports, pc>>
     ELSE /\ reports' = Append(reports, Collected)
          /\ pc' = [pc EXCEPT !["reporter"] = "send"]
  /\ UNCHANGED <<pollTick, polls, system, queue>>
  /\ UNCHANGED <<workerVars, serverVars, historyVars>>

(* A bug: the capacity is forgotten. *)
UnboundedEnqueue ==
  /\ Alive /\ pc["reporter"] = "send" /\ ~Closed
  /\ queue' = Append(queue, Len(reports))
  /\ pc' = [pc EXCEPT !["reporter"] = "select"]
  /\ UNCHANGED <<collectorVars, workerVars, serverVars, historyVars>>

(* metricsChan <- metrics waits for room, whatever becomes of the context. *)
Enqueue ==
  /\ Alive /\ pc["reporter"] = "send" /\ ~Closed /\ Len(queue) < Cap
  /\ queue' = Append(queue, Len(reports))
  /\ pc' = [pc EXCEPT !["reporter"] = "select"]
  /\ UNCHANGED <<collectorVars, workerVars, serverVars, historyVars>>

(* A send on a closed channel, even one that waited before, panics.        *)
SendOnClosed ==
  /\ Alive /\ pc["reporter"] = "send" /\ Closed
  /\ pc' = [pc EXCEPT !["main"] = "panicked"]
  /\ UNCHANGED <<queue, collectorVars, workerVars, serverVars, historyVars>>

(* The ctx.Done branch of a select.                                        *)
StopLoop(g) ==
  /\ Alive /\ Cancelled /\ pc[g] = "select"
  /\ pc' = [pc EXCEPT ![g] = "stopped"]
  /\ UNCHANGED <<queue, collectorVars, workerVars, serverVars, historyVars>>

--------------------------------------------------------------------------------
(* Workers *)

(* A bug: the report is read without being taken from the channel. *)
PeekingTake(w) ==
  /\ Alive /\ pc[w] = "select" /\ queue # << >>
  /\ job' = [job EXCEPT ![w] = Head(queue)]
  /\ pc' = [pc EXCEPT ![w] = "batch"]
  /\ UNCHANGED <<queue, left, request, response, collectorVars, serverVars, historyVars>>

(* select may choose the channel although the context is done, and a closed*)
(* channel still hands out what is in it.                                  *)
Take(w) ==
  /\ Alive /\ pc[w] = "select" /\ queue # << >>
  /\ job' = [job EXCEPT ![w] = Head(queue)]
  /\ queue' = Tail(queue)
  /\ pc' = [pc EXCEPT ![w] = "batch"]
  /\ UNCHANGED <<left, request, response, collectorVars, serverVars, historyVars>>

Post(w, kind) ==
  LET q == [report |-> job[w], kind |-> kind]
  IN /\ request' = [request EXCEPT ![w] = q]
     /\ net' = net \cup {q}

(* Fall back to Send, one request per metric.                              *)
FallBack(w) ==
  /\ pc' = [pc EXCEPT ![w] = "single"]
  /\ left' = [left EXCEPT ![w] = Keys(job[w])]

Finish(w, what) ==
  /\ pc' = [pc EXCEPT ![w] = "select"]
  /\ job' = [job EXCEPT ![w] = 0]
  /\ left' = [left EXCEPT ![w] = {}]
  /\ told' = [told EXCEPT ![job[w]] = what]

Forget(w) ==
  /\ request' = [request EXCEPT ![w] = None]
  /\ response' = [response EXCEPT ![w] = "none"]

SendBatch(w) ==
  /\ Alive /\ pc[w] = "batch"
  /\ \/ Encrypted /\ FallBack(w) /\ UNCHANGED <<request, net>>
     \/ /\ ~Encrypted /\ Post(w, "batch")
        /\ pc' = [pc EXCEPT ![w] = "waitBatch"]
        /\ UNCHANGED left
  /\ UNCHANGED <<queue, job, response, executed, gauge, collectorVars, historyVars>>

(* A bug: the metrics are sent one by one after a successful batch too. *)
RepeatingBatchResponse(w) ==
  /\ Alive /\ pc[w] = "waitBatch" /\ response[w] # "none"
  /\ FallBack(w)
  /\ Forget(w)
  /\ UNCHANGED <<queue, job, collectorVars, serverVars, historyVars>>

BatchResponse(w) ==
  /\ Alive /\ pc[w] = "waitBatch"
  /\ \/ response[w] = "ok" /\ Finish(w, "batchSent")
     \/ response[w] = "refused" /\ FallBack(w) /\ UNCHANGED <<job, told>>
  /\ Forget(w)
  /\ UNCHANGED <<queue, ambiguous, collectorVars, serverVars>>

SendMetric(w) ==
  /\ Alive /\ pc[w] = "single"
  /\ \E k \in left[w] :
       /\ Post(w, k)
       /\ left' = [left EXCEPT ![w] = @ \ {k}]
  /\ pc' = [pc EXCEPT ![w] = "waitSingle"]
  /\ UNCHANGED <<queue, job, response, executed, gauge, collectorVars, historyVars>>

(* Send reads any response as success.                                     *)
MetricResponse(w) ==
  /\ Alive /\ pc[w] = "waitSingle" /\ response[w] # "none"
  /\ pc' = [pc EXCEPT ![w] = "single"]
  /\ Forget(w)
  /\ UNCHANGED <<queue, job, left, collectorVars, serverVars, historyVars>>

(* A bug: the outcome of Send is logged as that of the batch. *)
MislabellingSendDone(w) ==
  /\ Alive /\ pc[w] = "single" /\ left[w] = {}
  /\ Finish(w, "batchSent")
  /\ UNCHANGED <<queue, request, response, ambiguous, collectorVars, serverVars>>

SendDone(w) ==
  /\ Alive /\ pc[w] = "single" /\ left[w] = {}
  /\ Finish(w, "sent")
  /\ UNCHANGED <<queue, request, response, ambiguous, collectorVars, serverVars>>

(* A bug: the worker returns on the first error. *)
FatalConnectionError(w) ==
  /\ Alive /\ Faults /\ pc[w] \in {"waitBatch", "waitSingle"}
  /\ pc' = [pc EXCEPT ![w] = "stopped"]
  /\ Forget(w)
  /\ UNCHANGED <<queue, job, left, collectorVars, serverVars, historyVars>>

(* A bug that a repair may bring: a report that failed goes to the end of  *)
(* the channel. *)
RequeuingConnectionError(w) ==
  /\ Alive /\ Faults /\ pc[w] \in {"waitBatch", "waitSingle"}
  /\ net' = net \ {request[w]}
  /\ Forget(w)
  /\ queue' = Append(queue, job[w])
  /\ pc' = [pc EXCEPT ![w] = "select"]
  /\ job' = [job EXCEPT ![w] = 0]
  /\ left' = [left EXCEPT ![w] = {}]
  /\ UNCHANGED <<executed, gauge, collectorVars, historyVars>>

(* A bug that a repair may bring: the metric is sent again until it arrives. *)
RetryingConnectionError(w) ==
  /\ Alive /\ Faults /\ pc[w] = "waitSingle"
  /\ net' = net \ {request[w]}
  /\ left' = [left EXCEPT ![w] = @ \cup {request[w].kind}]
  /\ pc' = [pc EXCEPT ![w] = "single"]
  /\ Forget(w)
  /\ UNCHANGED <<queue, job, executed, gauge, collectorVars, historyVars>>

(* The connection breaks: the request was lost, or the response was, or the*)
(* server has yet to execute it.  Send gives up the rest of the report.    *)
ConnectionError(w) ==
  /\ Alive /\ Faults /\ pc[w] \in {"waitBatch", "waitSingle"}
  /\ net' \in {net \ {request[w]}} \cup (IF Late THEN {net} ELSE {})
  /\ Forget(w)
  /\ \/ /\ pc[w] = "waitBatch"
        /\ FallBack(w)
        /\ ambiguous' = ambiguous \cup {job[w]}
        /\ UNCHANGED <<job, told>>
     \/ pc[w] = "waitSingle" /\ Finish(w, "error") /\ UNCHANGED ambiguous
  /\ UNCHANGED <<queue, executed, gauge, collectorVars>>

--------------------------------------------------------------------------------
(* The server *)

Answer(q, status) ==
  /\ q \in net
  /\ net' = net \ {q}
  /\ response' = [w \in Workers |-> IF request[w] = q THEN status ELSE response[w]]
  /\ UNCHANGED <<queue, pc, job, left, request, collectorVars, historyVars>>

Execute(q) ==
  /\ executed' = [executed EXCEPT ![q] = @ + 1]
  /\ gauge' = IF "FreeMemory" \in Content(q) THEN q.report ELSE gauge

(* What is stored in memory is stored whole and once.                      *)
Serve(q) == Answer(q, "ok") /\ Execute(q)

(* The handler of one metric ignores the error of the storage, and the     *)
(* error of a commit does not reach the handler of a batch.                *)
ServeUnstored(q) == Database /\ Answer(q, "ok") /\ UNCHANGED <<executed, gauge>>

(* A bug: the attempts are not counted. *)
EndlessRetry(q) ==
  /\ Database /\ q \in net /\ q.kind # "batch"
  /\ Execute(q)
  /\ UNCHANGED <<queue, pc, job, left, request, response, net, collectorVars, historyVars>>

(* The database has executed an update and its answer came too late: the   *)
(* handler, which still has an attempt, will execute it again.             *)
Retry(q) ==
  /\ Database /\ q \in net /\ q.kind # "batch" /\ executed[q] + 1 < maxRetries
  /\ Execute(q)
  /\ UNCHANGED <<queue, pc, job, left, request, response, net, collectorVars, historyVars>>

(* A layer before the handler refuses the request, or a batch was rolled   *)
(* back: nothing of it is stored.                                          *)
Refuse(q) ==
  /\ Faults /\ executed[q] = 0
  /\ Answer(q, "refused")
  /\ UNCHANGED <<executed, gauge>>

Responds(q) == Serve(q) \/ ServeUnstored(q) \/ Refuse(q)

--------------------------------------------------------------------------------
(* Shutdown *)

MainGoes(from, to) ==
  /\ pc["main"] = from
  /\ pc' = [pc EXCEPT !["main"] = to]
  /\ UNCHANGED <<queue, workerVars, serverVars, historyVars>>

(* The tickers are stopped; a tick that is already waiting stays.          *)
Signal == Stops /\ MainGoes("run", "cancel") /\ UNCHANGED collectorVars
Cancel == MainGoes("cancel", "close") /\ UNCHANGED collectorVars
Close  == MainGoes("close", "wait") /\ UNCHANGED collectorVars

(* A bug: no worker is added to the wait group. *)
ImpatientExit == MainGoes("wait", "exited") /\ UNCHANGED collectorVars

Exit ==
  /\ \A w \in Workers : pc[w] = "stopped"
  /\ MainGoes("wait", "exited") /\ UNCHANGED collectorVars

--------------------------------------------------------------------------------
(* The two ways out of worker's loop: the context is done, or the channel  *)
(* is closed and empty.                                                    *)
WorkerStops(w) == StopLoop(w)

ChannelEnds(w) ==
  /\ Alive /\ Closed /\ pc[w] = "select" /\ queue = << >>
  /\ pc' = [pc EXCEPT ![w] = "stopped"]
  /\ UNCHANGED <<queue, collectorVars, workerVars, serverVars, historyVars>>

Worker(w) ==
  \/ Take(w) \/ SendBatch(w) \/ BatchResponse(w) \/ SendMetric(w) \/ MetricResponse(w)
  \/ SendDone(w) \/ ConnectionError(w) \/ WorkerStops(w) \/ ChannelEnds(w)

Reporter == Report \/ Enqueue \/ SendOnClosed \/ StopLoop("reporter")

Poller == Collect \/ StopLoop("poller")

SysPoller == CollectSystemMetrics \/ StopLoop("sysPoller")

MainSteps == Cancel \/ Close \/ Exit

Next ==
  \/ PollTick \/ ReportTick \/ Poller \/ SysPoller \/ Reporter
  \/ Signal \/ MainSteps
  \/ \E w \in Workers : Worker(w)
  \/ \E q \in Requests : Responds(q) \/ Retry(q)

Spec == Init /\ [][Next]_vars

(* A goroutine that can go on does, and the server answers every request   *)
(* that a worker waits for in the end: the HTTP client of the agent has no *)
(* timeout of its own.  Nothing forces a tick, a signal, a broken          *)
(* connection or a request that was given up.                              *)
Fairness ==
  /\ WF_vars(Reporter) /\ WF_vars(MainSteps)
  /\ \A w \in Workers : WF_vars(Worker(w))
  /\ \A w \in Workers : WF_vars(\E q \in Requests : q = request[w] /\ Responds(q))

FairSpec == Spec /\ Fairness

--------------------------------------------------------------------------------
(* Properties *)

InQueue(r)  == \E i \in 1 .. Len(queue) : queue[i] = r
HeldBy(r)   == {w \in Workers : job[w] = r}
InHand(r)   == r = Len(reports) /\ pc["reporter"] = "send"

(* As long as the agent runs a report that was collected is in one place   *)
(* only: with the reporter, in the channel, with one worker, or finished.  *)
(* The ctx.Done branches of a shutdown neither lose one nor leave one in   *)
(* two hands (main.go:201-216 against worker) before main returns.         *)
OneOwner ==
  Alive =>
    \A r \in 1 .. Len(reports) :
      Cardinality(HeldBy(r)) + (IF InHand(r) THEN 1 ELSE 0)
        + Cardinality({i \in 1 .. Len(queue) : queue[i] = r})
        + (IF told[r] # "nothing" THEN 1 ELSE 0) = 1

(* How often the server may store what one request asks: retryOperation    *)
(* repeats a single update of the database.                                *)
Limit(q) == IF Database /\ q.kind # "batch" THEN maxRetries ELSE 1

(* The agent sends nothing twice: no request is executed more often than   *)
(* the server repeats it by itself, and a metric is stored both with its   *)
(* batch and alone only if the batch was given up without an answer; a     *)
(* refusal or a success is never followed by a second copy (worker,        *)
(* main.go:34-50, against db_storage.go:85-95 and 255-288).                *)
AtMostOnce ==
  /\ \A q \in Requests : executed[q] <= Limit(q)
  /\ \A r \in Ids, k \in Metrics :
       executed[Batch(r)] > 0 /\ executed[Single(r, k)] > 0 => r \in ambiguous

(* "Metrics batch sent successfully" (main.go:49) ends a report: none of   *)
(* its metrics is ever stored alone, and a server that keeps them in memory*)
(* has stored the batch.  One with a database may not have: its commit may *)
(* fail unnoticed (db_storage.go:217-223, BatchAckedIsStored).             *)
BatchSentIsSettled ==
  \A r \in Ids : told[r] = "batchSent" =>
    /\ \A k \in Metrics : executed[Single(r, k)] = 0
    /\ ~Database => executed[Batch(r)] = 1

(* "Agent stopped" is the last thing the agent does: no worker is in the   *)
(* middle of a report (main.go:232).                                       *)
StoppedMeansIdle == pc["main"] = "exited" => \A w \in Workers : job[w] = 0

(* The shutdown is graceful (main.go:223).                                 *)
NoPanic == pc["main"] # "panicked"

(* The server executes a request that no worker waits for any more.        *)
ExecutesGivenUp ==
  \E q \in net : executed'[q] > executed[q] /\ \A w \in Workers : request[w] # q

(* With one worker the server's gauges go forward: an older report replaces*)
(* a newer one only through a request that the worker had given up before  *)
(* and that the server executes late, or again (worker, main.go:22-52,     *)
(* against db_storage.go:79-82).  A second worker ends this (main.go:171). *)
GaugesMoveForward ==
  [][Cardinality(Workers) = 1 /\ gauge' < gauge => ExecutesGivenUp]_vars

(* After a signal the agent ends, even with a full channel and workers in  *)
(* the middle of a request.                                                *)
ShutdownTerminates == pc["main"] = "cancel" ~> ~Alive

(* Every report gets its turn unless a signal comes first: the reporter    *)
(* that waits on a full channel, the channel and a worker that waits for   *)
(* the server each hold one, and do not block each other for ever.         *)
ReportsAreTried ==
  \A r \in Ids : r <= Len(reports) ~> told[r] # "nothing" \/ pc["main"] # "run"
===============================================================================
