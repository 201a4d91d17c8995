------------------------------ MODULE AgentProofs ------------------------------
(***************************************************************************)
(* The agent's pipeline for any number of workers, any capacity of the     *)
(* channel and any number of reports: what is typed, who owns a report, how*)
(* often the server can store it and in which order.                       *)
(***************************************************************************)
EXTENDS Agent, FiniteSetTheorems, TLAPS

WorkerPlaces == {"select", "batch", "single", "waitBatch", "waitSingle", "stopped"}

--------------------------------------------------------------------------------
(* Types *)

(* Each goroutine keeps to its own places, and a poll is only due while one*)
(* more is allowed.                                                        *)
Places ==
  /\ pc["main"] \in {"run", "cancel", "close", "wait", "exited", "panicked"}
  /\ pc["poller"] \in {"select", "stopped"} /\ pc["sysPoller"] \in {"select", "stopped"}
  /\ pc["reporter"] \in {"select", "send", "stopped"}
  /\ \A w \in Workers : pc[w] \in WorkerPlaces
  /\ pollTick => polls < MaxPolls

(* Only reports that exist travel, and a worker outside its select has one.*)
Travelling ==
  /\ pc["reporter"] = "send" => reports # << >>
  /\ \A i \in 1 .. Len(queue) : queue[i] <= Len(reports)
  /\ \A w \in Workers : /\ job[w] <= Len(reports)
                        /\ job[w] = 0 <=> pc[w] \in {"select", "stopped"}

(* A worker that waits has one request out, for its own report; nobody else*)
(* has one, or a response.                                                 *)
Waiting ==
  \A w \in Workers :
    /\ pc[w] = "waitBatch" => request[w] = [report |-> job[w], kind |-> "batch"]
    /\ pc[w] = "waitSingle" => \E k \in Metrics : request[w] = [report |-> job[w], kind |-> k]
    /\ pc[w] \notin {"waitBatch", "waitSingle"} => request[w] = None /\ response[w] = "none"

TypeInv == TypeOK /\ Places /\ Travelling /\ Waiting

LEMMA WorkerNames ==
  ASSUME NEW w \in Workers
  PROVE  w \in Goroutines /\ w \notin {"main", "poller", "sysPoller", "reporter"}
BY WorkersAssumption DEF Goroutines

LEMMA KeysAreMetrics ==
  ASSUME TypeOK, NEW r \in 1 .. Len(reports)
  PROVE  Keys(r) \subseteq Metrics
<1>1. reports[r] \in Snapshots
  BY BoundsAssumption DEF TypeOK
<1> QED BY <1>1 DEF Snapshots, Keys

(* What the actions of one worker use again and again.                     *)
LEMMA BusyWorker ==
  ASSUME TypeInv, NEW w \in Workers, pc[w] \notin {"select", "stopped"}
  PROVE  /\ job[w] \in Ids /\ job[w] \in 1 .. Len(reports)
         /\ Keys(job[w]) \subseteq Metrics
<1>1. job[w] \in Ids /\ job[w] \in 1 .. Len(reports)
  BY BoundsAssumption DEF TypeInv, TypeOK, Travelling, Ids
<1> QED BY <1>1, KeysAreMetrics DEF TypeInv

LEMMA InitType == Init => TypeInv
<1> SUFFICES ASSUME Init PROVE TypeInv
  OBVIOUS
<1>1. TypeOK
  <2>1. /\ polls \in 0 .. MaxPolls /\ reports \in Seq(Snapshots) /\ Len(reports) <= MaxReports
        /\ queue \in Seq(Ids) /\ Len(queue) <= Cap
    BY BoundsAssumption, CapAssumption DEF Init
  <2> QED BY <2>1 DEF Init, TypeOK
<1>2. Places
  BY BoundsAssumption, WorkerNames DEF Init, Places, Goroutines, WorkerPlaces
<1>3. Travelling
  BY WorkerNames DEF Init, Travelling, Goroutines
<1>4. Waiting
  BY WorkerNames DEF Init, Waiting, Goroutines
<1> QED BY <1>1, <1>2, <1>3, <1>4 DEF TypeInv

(* Nothing of a worker changes when another goroutine moves.               *)
LEMMA OtherType ==
  ASSUME TypeInv,
         PollTick \/ ReportTick \/ Poller \/ SysPoller \/ Reporter \/ Signal \/ MainSteps
  PROVE  TypeInv'
<1> USE DEF TypeInv
<1>w. \A w \in Workers : w \in Goroutines /\ w \notin {"main", "poller", "sysPoller", "reporter"}
  BY WorkerNames
<1>m. {"main", "poller", "sysPoller", "reporter"} \subseteq Goroutines
  BY DEF Goroutines
<1>1. CASE PollTick
  BY <1>1 DEF PollTick, TypeOK, Places, Travelling, Waiting, workerVars, serverVars, historyVars
<1>2. CASE ReportTick
  BY <1>2 DEF ReportTick, TypeOK, Places, Travelling, Waiting, workerVars, serverVars, historyVars
<1>3. CASE Collect
  <2>1. polls' \in 0 .. MaxPolls
    BY <1>3, BoundsAssumption DEF Collect, TypeOK, Places
  <2> QED BY <1>3, <2>1 DEF Collect, TypeOK, Places, Travelling, Waiting, workerVars, serverVars,
                            historyVars
<1>4. CASE CollectSystemMetrics
  BY <1>4 DEF CollectSystemMetrics, TypeOK, Places, Travelling, Waiting, workerVars, serverVars,
              historyVars
<1>5. CASE Report
  <2>1. CASE UNCHANGED <<reports, pc>>
    BY <1>5, <2>1 DEF Report, TypeOK, Places, Travelling, Waiting, workerVars, serverVars,
                      historyVars
  <2>2. CASE reports' = Append(reports, Collected) /\ pc' = [pc EXCEPT !["reporter"] = "send"]
    <3>1. Collected \in Snapshots
      BY BoundsAssumption DEF Collected, TypeOK, Metrics, Snapshots
    <3>2. /\ reports' \in Seq(Snapshots)
          /\ Len(reports') = Len(reports) + 1 /\ Len(reports) \in Nat
      BY <2>2, <3>1, BoundsAssumption DEF TypeOK
    <3>a. /\ reportTick' = FALSE /\ UNCHANGED <<pollTick, polls, system, queue>>
          /\ UNCHANGED <<workerVars, serverVars, historyVars>>
      BY <1>5 DEF Report
    <3>3. TypeOK'
      <4>1. reports' \in Seq(Snapshots) /\ Len(reports') <= MaxReports
        BY <1>5, <3>2, BoundsAssumption DEF Report, TypeOK
      <4>2. pc' = [pc EXCEPT !["reporter"] = "send"]
        BY <2>2
      <4> QED BY <4>1, <4>2, <3>a, <1>m DEF TypeOK, workerVars, serverVars, historyVars
    <3>4. Places'
      BY <1>5, <2>2, <1>w, <1>m DEF Report, TypeOK, Places
    <3>5. Travelling'
      <4>1. \A i \in 1 .. Len(queue) : queue[i] \in Nat
        BY BoundsAssumption DEF TypeOK, Ids
      <4>2. \A w \in Workers : job[w] \in Nat /\ pc'[w] = pc[w]
        BY <2>2, <1>w, <1>m DEF TypeOK, Ids
      <4>3. pc'["reporter"] = "send" => reports' # << >>
        BY <3>2
      <4> QED BY <4>1, <4>2, <4>3, <3>2, <3>a DEF Travelling, workerVars
    <3>6. Waiting'
      BY <1>5, <2>2, <1>w, <1>m DEF Report, TypeOK, Waiting, workerVars
    <3> QED BY <3>3, <3>4, <3>5, <3>6
  <2> QED BY <1>5, <2>1, <2>2 DEF Report
<1>6. CASE Enqueue
  <2>1. Len(reports) \in Ids
    BY <1>6, BoundsAssumption DEF Enqueue, Travelling, TypeOK, Ids
  <2>2. /\ queue' \in Seq(Ids) /\ Len(queue') = Len(queue) + 1
        /\ \A i \in 1 .. Len(queue) : queue'[i] = queue[i]
        /\ queue'[Len(queue) + 1] = Len(reports)
    BY <1>6, <2>1, BoundsAssumption DEF Enqueue, TypeOK
  <2>3. TypeOK'
    BY <1>6, <2>2, <1>m, CapAssumption, BoundsAssumption
       DEF Enqueue, TypeOK, workerVars, serverVars, historyVars, collectorVars
  <2>4. Places'
    BY <1>6, <1>w, <1>m DEF Enqueue, TypeOK, Places, collectorVars
  <2>5. Travelling'
    BY <1>6, <2>2, <1>w, <1>m, BoundsAssumption DEF Enqueue, TypeOK, Travelling, workerVars,
                                        collectorVars
  <2>6. Waiting'
    BY <1>6, <1>w, <1>m DEF Enqueue, TypeOK, Waiting, workerVars
  <2> QED BY <2>3, <2>4, <2>5, <2>6
<1>7. CASE SendOnClosed
  BY <1>7, <1>w, <1>m DEF SendOnClosed, TypeOK, Places, Travelling, Waiting, workerVars,
                          serverVars, historyVars, collectorVars
<1>8. CASE StopLoop("reporter") \/ StopLoop("poller") \/ StopLoop("sysPoller")
  <2>1. PICK g \in {"reporter", "poller", "sysPoller"} :
          pc[g] = "select" /\ pc' = [pc EXCEPT ![g] = "stopped"]
    BY <1>8 DEF StopLoop
  <2>2. UNCHANGED <<queue, collectorVars, workerVars, serverVars, historyVars>>
    BY <1>8 DEF StopLoop
  <2> USE DEF workerVars, serverVars, historyVars, collectorVars
  <2>3. TypeOK'
    BY <2>1, <2>2, <1>m DEF TypeOK
  <2>4. Places'
    BY <2>1, <2>2, <1>w, <1>m DEF TypeOK, Places
  <2>5. Travelling'
    BY <2>1, <2>2, <1>w, <1>m DEF TypeOK, Travelling
  <2>6. Waiting'
    BY <2>1, <2>2, <1>w, <1>m DEF TypeOK, Waiting
  <2> QED BY <2>3, <2>4, <2>5, <2>6
<1>9. CASE Signal \/ MainSteps
  <2>1. PICK place \in {"close", "wait", "exited", "cancel"} : pc' = [pc EXCEPT !["main"] = place]
    BY <1>9 DEF Signal, MainSteps, Cancel, Close, Exit, MainGoes
  <2>2. UNCHANGED <<queue, collectorVars, workerVars, serverVars, historyVars>>
    BY <1>9 DEF Signal, MainSteps, Cancel, Close, Exit, MainGoes
  <2> USE DEF workerVars, serverVars, historyVars, collectorVars
  <2>3. TypeOK'
    BY <2>1, <2>2, <1>m DEF TypeOK
  <2>4. Places'
    BY <2>1, <2>2, <1>w, <1>m DEF TypeOK, Places
  <2>5. Travelling'
    BY <2>1, <2>2, <1>w, <1>m DEF TypeOK, Travelling
  <2>6. Waiting'
    BY <2>1, <2>2, <1>w, <1>m DEF TypeOK, Waiting
  <2> QED BY <2>3, <2>4, <2>5, <2>6
<1> QED BY <1>1, <1>2, <1>3, <1>4, <1>5, <1>6, <1>7, <1>8, <1>9 DEF Poller, SysPoller, Reporter

LEMMA TakeType ==
  ASSUME TypeInv, NEW w \in Workers, Take(w)
  PROVE  TypeInv'
<1> USE DEF TypeInv, serverVars, historyVars, collectorVars
<1>w. \A v \in Workers : v \in Goroutines /\ v \notin {"main", "poller", "sysPoller", "reporter"}
  BY WorkerNames
<1>1. /\ queue \in Seq(Ids) /\ queue # << >> /\ Len(queue) \in Nat \ {0}
      /\ Head(queue) = queue[1] /\ Len(Tail(queue)) = Len(queue) - 1
      /\ \A i \in 1 .. Len(Tail(queue)) : Tail(queue)[i] = queue[i + 1]
      /\ Tail(queue) \in Seq(Ids)
  BY BoundsAssumption DEF Take, TypeOK
<1>2. Head(queue) \in Ids /\ Head(queue) <= Len(reports) /\ Head(queue) # 0
  <2>1. 1 \in 1 .. Len(queue) /\ queue[1] \in Ids
    BY <1>1
  <2> QED BY <1>1, <2>1 DEF Travelling, Ids
<1>3. TypeOK'
  BY <1>1, <1>2, <1>w, CapAssumption, BoundsAssumption DEF Take, TypeOK
<1>4. Places'
  BY <1>w DEF Take, TypeOK, Places, WorkerPlaces
<1>5. Travelling'
  BY <1>1, <1>2, <1>w DEF Take, TypeOK, Travelling
<1>6. Waiting'
  BY <1>w DEF Take, TypeOK, Waiting
<1> QED BY <1>3, <1>4, <1>5, <1>6

(* Only requests of the worker's own report can be lost at its step.       *)
GivesUp(w) == \A q \in net \ net' : q.report = job[w]

(* A worker falls back to Send: the key forbids the batch, the server has  *)
(* refused it, or its answer does not come.                                *)
FallsBack(w) ==
  /\ pc[w] \in {"batch", "waitBatch"}
  /\ FallBack(w) /\ Forget(w) /\ net' \subseteq net /\ GivesUp(w)
  /\ ambiguous \subseteq ambiguous' /\ ambiguous' \subseteq ambiguous \cup {job[w]}
  /\ pc[w] = "batch" \/ response[w] = "refused" \/ job[w] \in ambiguous'
  /\ UNCHANGED <<queue, job, executed, gauge, told, collectorVars>>

PostsBatch(w) ==
  /\ pc[w] = "batch"
  /\ Post(w, "batch") /\ pc' = [pc EXCEPT ![w] = "waitBatch"]
  /\ UNCHANGED <<queue, job, left, response, executed, gauge, collectorVars, historyVars>>

(* A worker is done with its report.                                       *)
Finishes(w, what) ==
  /\ pc[w] \in {"waitBatch", "single", "waitSingle"}
  /\ Finish(w, what) /\ Forget(w) /\ net' \subseteq net /\ GivesUp(w)
  /\ what = "batchSent" => pc[w] = "waitBatch" /\ response[w] = "ok"
  /\ UNCHANGED <<queue, executed, gauge, ambiguous, collectorVars>>

Outcomes == {"batchSent", "sent", "error"}

LEMMA FallsBackType ==
  ASSUME TypeInv, NEW w \in Workers, FallsBack(w)
  PROVE  TypeInv'
<1> USE DEF TypeInv, collectorVars
<1>w. \A v \in Workers : v \in Goroutines /\ v \notin {"main", "poller", "sysPoller", "reporter"}
  BY WorkerNames
<1>b. job[w] \in Ids /\ Keys(job[w]) \subseteq Metrics
  BY BusyWorker DEF FallsBack
<1>1. TypeOK'
  <2>1. pc' = [pc EXCEPT ![w] = "single"] /\ left' = [left EXCEPT ![w] = Keys(job[w])]
    BY DEF FallsBack, FallBack
  <2>2. request' = [request EXCEPT ![w] = None] /\ response' = [response EXCEPT ![w] = "none"]
    BY DEF FallsBack, Forget
  <2>3. /\ net' \subseteq net /\ ambiguous' \subseteq ambiguous \cup {job[w]}
        /\ UNCHANGED <<queue, job, executed, gauge, told, collectorVars>>
    BY DEF FallsBack
  <2> QED BY <1>b, <1>w, <2>1, <2>2, <2>3 DEF TypeOK
<1>2. Places'
  BY <1>w DEF FallsBack, FallBack, TypeOK, Places, WorkerPlaces
<1>3. Travelling'
  BY <1>w DEF FallsBack, FallBack, TypeOK, Travelling
<1>4. Waiting'
  BY <1>w DEF FallsBack, FallBack, Forget, TypeOK, Waiting
<1> QED BY <1>1, <1>2, <1>3, <1>4

LEMMA FinishesType ==
  ASSUME TypeInv, NEW w \in Workers, NEW what \in Outcomes, Finishes(w, what)
  PROVE  TypeInv'
<1> USE DEF TypeInv, collectorVars
<1>w. \A v \in Workers : v \in Goroutines /\ v \notin {"main", "poller", "sysPoller", "reporter"}
  BY WorkerNames
<1>b. job[w] \in Ids
  BY BusyWorker DEF Finishes
<1>1. TypeOK'
  BY <1>b, <1>w DEF Finishes, Finish, Forget, TypeOK, Outcomes
<1>2. Places'
  BY <1>w DEF Finishes, Finish, TypeOK, Places, WorkerPlaces
<1>3. Travelling'
  BY <1>w DEF Finishes, Finish, TypeOK, Travelling, Ids
<1>4. Waiting'
  BY <1>w DEF Finishes, Finish, Forget, TypeOK, Waiting
<1> QED BY <1>1, <1>2, <1>3, <1>4

(* What a worker can do, in the terms of the proofs below.                 *)
LEMMA WorkerMoves ==
  ASSUME TypeInv, NEW w \in Workers, Worker(w)
  PROVE  \/ Take(w) \/ PostsBatch(w) \/ SendMetric(w) \/ MetricResponse(w)
         \/ WorkerStops(w) \/ FallsBack(w) \/ \E what \in Outcomes : Finishes(w, what)
<1> USE DEF serverVars, historyVars
<1>1. CASE SendBatch(w) /\ Encrypted
  <2>1. request[w] = None /\ response[w] = "none"
    BY <1>1 DEF SendBatch, TypeInv, Waiting
  <2>2. Forget(w)
    BY <1>1, <2>1 DEF SendBatch, Forget, TypeInv, TypeOK
  <2>3. FallsBack(w)
    BY <1>1, <2>2 DEF SendBatch, FallsBack, GivesUp
  <2> QED BY <2>3
<1>2. CASE SendDone(w)
  <2>1. request[w] = None /\ response[w] = "none"
    BY <1>2 DEF SendDone, TypeInv, Waiting
  <2>2. Forget(w)
    BY <1>2, <2>1 DEF SendDone, Forget, TypeInv, TypeOK
  <2>3. Finishes(w, "sent")
    BY <1>2, <2>2 DEF SendDone, Finishes, GivesUp
  <2> QED BY <2>3 DEF Outcomes
<1>3. CASE BatchResponse(w)
  <2>1. CASE response[w] = "ok"
    BY <1>3, <2>1 DEF BatchResponse, Finishes, Outcomes, GivesUp
  <2>2. CASE response[w] = "refused"
    BY <1>3, <2>2 DEF BatchResponse, FallsBack, GivesUp
  <2> QED BY <1>3, <2>1, <2>2 DEF BatchResponse
<1>4. CASE ConnectionError(w)
  <2>a. request[w].report = job[w]
    <3>1. \E k : request[w] = [report |-> job[w], kind |-> k]
      BY <1>4 DEF ConnectionError, TypeInv, Waiting
    <3> QED BY <3>1
  <2>1. net' \subseteq net /\ GivesUp(w)
    BY <1>4, <2>a DEF ConnectionError, GivesUp
  <2>2. CASE pc[w] = "waitBatch"
    BY <1>4, <2>1, <2>2 DEF ConnectionError, FallsBack
  <2>3. CASE pc[w] = "waitSingle"
    BY <1>4, <2>1, <2>3 DEF ConnectionError, Finishes, Outcomes
  <2> QED BY <1>4, <2>2, <2>3 DEF ConnectionError
<1>5. CASE SendBatch(w) /\ ~Encrypted
  BY <1>5 DEF SendBatch, PostsBatch
<1>6. CASE ChannelEnds(w)
  BY <1>6 DEF ChannelEnds, WorkerStops, StopLoop, Closed, Cancelled
<1> QED BY <1>1, <1>2, <1>3, <1>4, <1>5, <1>6 DEF Worker

LEMMA WorkerType ==
  ASSUME TypeInv, NEW w \in Workers, Worker(w)
  PROVE  TypeInv'
<1> USE DEF TypeInv, serverVars, historyVars, collectorVars
<1>w. \A v \in Workers : v \in Goroutines /\ v \notin {"main", "poller", "sysPoller", "reporter"}
  BY WorkerNames
<1>b. pc[w] \notin {"select", "stopped"} => job[w] \in Ids
  BY BusyWorker
<1>1. CASE PostsBatch(w)
  <2>1. [report |-> job[w], kind |-> "batch"] \in Requests
    BY <1>1, <1>b DEF PostsBatch, Requests
  <2>2. TypeOK'
    BY <1>1, <1>w, <2>1 DEF PostsBatch, Post, TypeOK
  <2>3. Places'
    BY <1>1, <1>w DEF PostsBatch, TypeOK, Places, WorkerPlaces
  <2>4. Travelling'
    BY <1>1, <1>w DEF PostsBatch, TypeOK, Travelling
  <2>5. Waiting'
    BY <1>1, <1>w DEF PostsBatch, Post, TypeOK, Waiting
  <2> QED BY <2>2, <2>3, <2>4, <2>5
<1>2. CASE SendMetric(w)
  <2>1. PICK k \in left[w] : Post(w, k) /\ left' = [left EXCEPT ![w] = @ \ {k}]
    BY <1>2 DEF SendMetric
  <2>2. k \in Metrics /\ [report |-> job[w], kind |-> k] \in Requests
    BY <1>2, <1>b DEF SendMetric, Requests, TypeOK
  <2>3. TypeOK'
    BY <1>2, <1>w, <2>1, <2>2 DEF SendMetric, Post, TypeOK
  <2>4. Places'
    BY <1>2, <1>w DEF SendMetric, TypeOK, Places, WorkerPlaces
  <2>5. Travelling'
    BY <1>2, <1>w DEF SendMetric, TypeOK, Travelling
  <2>6. Waiting'
    BY <1>2, <1>w, <2>1, <2>2 DEF SendMetric, Post, TypeOK, Waiting
  <2> QED BY <2>3, <2>4, <2>5, <2>6
<1>3. CASE MetricResponse(w)
  <2>1. TypeOK'
    BY <1>3, <1>w DEF MetricResponse, Forget, TypeOK
  <2>2. Places'
    BY <1>3, <1>w DEF MetricResponse, TypeOK, Places, WorkerPlaces
  <2>3. Travelling'
    BY <1>3, <1>w DEF MetricResponse, TypeOK, Travelling
  <2>4. Waiting'
    BY <1>3, <1>w DEF MetricResponse, Forget, TypeOK, Waiting
  <2> QED BY <2>1, <2>2, <2>3, <2>4
<1>4. CASE WorkerStops(w)
  <2> USE DEF WorkerStops, StopLoop, workerVars
  <2>1. TypeOK'
    BY <1>4, <1>w DEF TypeOK
  <2>2. Places'
    BY <1>4, <1>w DEF TypeOK, Places, WorkerPlaces
  <2>3. Travelling'
    BY <1>4, <1>w DEF TypeOK, Travelling
  <2>4. Waiting'
    BY <1>4, <1>w DEF TypeOK, Waiting
  <2> QED BY <2>1, <2>2, <2>3, <2>4
<1> QED BY <1>1, <1>2, <1>3, <1>4, WorkerMoves, TakeType, FallsBackType, FinishesType

(* What the server can do with a request, in the terms of the proofs below.*)
ServerMoves(q) ==
  /\ q \in net
  /\ UNCHANGED <<queue, pc, job, left, request, collectorVars, historyVars>>
  /\ net' \subseteq net /\ \A p \in net \ net' : p = q
  /\ \/ executed' = [executed EXCEPT ![q] = @ + 1]
     \/ UNCHANGED executed
  /\ gauge' # gauge => gauge' = q.report /\ executed' = [executed EXCEPT ![q] = @ + 1]

(* An answer reaches the worker that waits for it, and nobody else.        *)
Answers(q, status) ==
  /\ q \notin net'
  /\ response' = [w \in Workers |-> IF request[w] = q THEN status ELSE response[w]]

(* The server answers once and for all, or stores a single update and tries*)
(* again.                                                                  *)
LEMMA ServerOutcomes ==
  ASSUME TypeInv, NEW q \in Requests, Responds(q) \/ Retry(q)
  PROVE  /\ ServerMoves(q)
         /\ \/ /\ Answers(q, "ok")
               /\ \/ executed' = [executed EXCEPT ![q] = @ + 1]
                  \/ Database /\ UNCHANGED executed
            \/ Answers(q, "refused") /\ executed[q] = 0 /\ UNCHANGED executed
            \/ /\ Database /\ q.kind # "batch" /\ executed[q] + 1 < maxRetries
               /\ UNCHANGED <<net, response>>
<1>1. CASE Serve(q)
  BY <1>1 DEF Serve, Answer, Execute, ServerMoves, Answers
<1>2. CASE ServeUnstored(q)
  BY <1>2 DEF ServeUnstored, Answer, ServerMoves, Answers
<1>3. CASE Refuse(q)
  BY <1>3 DEF Refuse, Answer, ServerMoves, Answers
<1>4. CASE Retry(q)
  BY <1>4 DEF Retry, Execute, ServerMoves
<1> QED BY <1>1, <1>2, <1>3, <1>4 DEF Responds

LEMMA ServerType ==
  ASSUME TypeInv, NEW q \in Requests, Responds(q) \/ Retry(q)
  PROVE  TypeInv'
<1> USE DEF TypeInv, historyVars, collectorVars
<1>1. UNCHANGED <<queue, pc, job, left, request, collectorVars, historyVars>> /\ net' \subseteq net
  BY ServerOutcomes DEF ServerMoves
<1>2. /\ response' \in [Workers -> {"none", "ok", "refused"}]
      /\ \A w \in Workers : response'[w] # response[w] => request[w] = q
  BY ServerOutcomes DEF Answers, TypeOK
<1>3. executed' \in [Requests -> Nat] /\ gauge' \in {0} \cup Ids
  <2>1. q.report \in Ids
    BY DEF Requests
  <2>2. executed' \in [Requests -> Nat]
    <3>1. executed' = [executed EXCEPT ![q] = @ + 1] \/ executed' = executed
      BY ServerOutcomes, Zenon DEF ServerMoves
    <3>2. executed \in [Requests -> Nat]
      BY DEF TypeOK
    <3> QED BY <3>1, <3>2
  <2>3. gauge' = gauge \/ gauge' = q.report
    BY ServerOutcomes, Zenon DEF ServerMoves
  <2> QED BY <2>1, <2>2, <2>3 DEF TypeOK
<1>4. TypeOK'
  BY <1>1, <1>2, <1>3 DEF TypeOK
<1>5. Places' /\ Travelling'
  BY <1>1 DEF Places, Travelling
<1>6. Waiting'
  <2>2. q # None
    BY DEF Requests, None, Ids
  <2> QED BY <1>1, <1>2, <2>2 DEF Waiting
<1> QED BY <1>4, <1>5, <1>6

LEMMA TypeInvariant == Spec => []TypeInv
<1>1. TypeInv /\ [Next]_vars => TypeInv'
  <2> SUFFICES ASSUME TypeInv, [Next]_vars PROVE TypeInv'
    OBVIOUS
  <2>1. CASE PollTick \/ ReportTick \/ Poller \/ SysPoller \/ Reporter \/ Signal \/ MainSteps
    BY <2>1, OtherType
  <2>2. CASE \E w \in Workers : Worker(w)
    BY <2>2, WorkerType
  <2>3. CASE \E q \in Requests : Responds(q) \/ Retry(q)
    BY <2>3, ServerType
  <2>4. CASE UNCHANGED vars
    BY <2>4 DEF vars, TypeInv, TypeOK, Places, Travelling, Waiting
  <2> QED BY <2>1, <2>2, <2>3, <2>4 DEF Next
<1> QED BY <1>1, InitType, PTL DEF Spec

(* Every reachable state of the agent is well-typed, whatever its pool and *)
(* its channel are like; in particular the channel never holds more than   *)
(* its capacity, and only reports that were collected are sent.            *)
THEOREM TypeCorrect == Spec => []TypeOK
<1>1. TypeInv => TypeOK
  BY DEF TypeInv
<1> QED BY <1>1, TypeInvariant, PTL

--------------------------------------------------------------------------------
(* Who owns a report *)

(* r was collected before everything that is in the channel or with the    *)
(* reporter.                                                               *)
Ahead(r) ==
  /\ r <= Len(reports)
  /\ \A i \in 1 .. Len(queue) : r < queue[i]
  /\ pc["reporter"] = "send" => r < Len(reports)

Untold(r) == told[r] = "nothing"

(* The channel is in the order of the reports and what was taken from it is*)
(* ahead of it; so the places of a report exclude each other.              *)
Owned ==
  /\ \A i, j \in 1 .. Len(queue) : i < j => queue[i] < queue[j]
  /\ \A i \in 1 .. Len(queue) : /\ Untold(queue[i])
                                /\ pc["reporter"] = "send" => queue[i] < Len(reports)
  /\ \A w \in Workers : job[w] # 0 => Untold(job[w]) /\ Ahead(job[w])
  /\ \A v, w \in Workers : job[v] = job[w] /\ job[w] # 0 => v = w
  /\ \A r \in Ids : r > Len(reports) \/ InHand(r) => Untold(r)
  /\ \A r \in 1 .. Len(reports) :
       InQueue(r) \/ InHand(r) \/ ~Untold(r) \/ \E w \in Workers : job[w] = r

(* A step that moves no report.                                            *)
LEMMA StillOwned ==
  ASSUME Owned, UNCHANGED <<queue, job, reports, told>>,
         (pc["reporter"] = "send") <=> (pc'["reporter"] = "send")
  PROVE  Owned'
BY DEF Owned, Ahead, Untold, InQueue, InHand

(* A step of another goroutine than the reporter's.                        *)
LEMMA ReporterStays ==
  ASSUME TypeInv, NEW g \in Goroutines \ {"reporter"}, NEW place, pc' = [pc EXCEPT ![g] = place]
  PROVE  pc'["reporter"] = pc["reporter"]
BY DEF TypeInv, TypeOK, Goroutines

LEMMA ReportOwned ==
  ASSUME TypeInv, Owned, Report
  PROVE  Owned'
<1> USE DEF TypeInv, workerVars, serverVars, historyVars
<1>1. CASE UNCHANGED <<reports, pc>>
  BY <1>1, StillOwned DEF Report
<1>2. CASE reports' = Append(reports, Collected) /\ pc' = [pc EXCEPT !["reporter"] = "send"]
  <2>1. pc["reporter"] = "select" /\ pc'["reporter"] = "send"
    BY <1>2 DEF Report, TypeOK, Goroutines
  <2>2. UNCHANGED <<queue, job, told>> /\ Len(reports) < MaxReports
    BY DEF Report
  <2>3. Len(reports') = Len(reports) + 1 /\ Len(reports) \in Nat
    BY <1>2, BoundsAssumption DEF TypeOK
  <2>4. Len(reports') \in Ids /\ Untold(Len(reports'))
    BY <2>2, <2>3, BoundsAssumption DEF Ids, Owned
  <2>5. \A i \in 1 .. Len(queue) : queue[i] \in Nat /\ queue[i] <= Len(reports)
    BY BoundsAssumption DEF TypeOK, Travelling, Ids
  <2>6. \A w \in Workers : job[w] \in Nat /\ job[w] <= Len(reports)
    BY DEF TypeOK, Travelling, Ids
  <2>7. \A i \in 1 .. Len(queue) : Untold(queue[i])' /\ queue[i] < Len(reports')
    BY <2>2, <2>3, <2>5 DEF Owned, Untold
  <2>8. \A w \in Workers : job[w] # 0 => Untold(job[w])' /\ Ahead(job[w])'
    BY <2>1, <2>2, <2>3, <2>6 DEF Owned, Untold, Ahead
  <2>9. \A r \in Ids : r > Len(reports') \/ InHand(r)' => Untold(r)'
    BY <2>2, <2>3, <2>4 DEF Owned, Untold, InHand, Ids
  <2>10. \A r \in 1 .. Len(reports') :
           InQueue(r)' \/ InHand(r)' \/ ~Untold(r)' \/ \E w \in Workers : job'[w] = r
    <3> SUFFICES ASSUME NEW r \in 1 .. Len(reports'), r # Len(reports')
                 PROVE  InQueue(r)' \/ ~Untold(r)' \/ \E w \in Workers : job'[w] = r
      BY <2>1 DEF InHand
    <3>1. r \in 1 .. Len(reports) /\ ~InHand(r)
      BY <2>1, <2>3 DEF InHand
    <3> QED BY <2>2, <3>1 DEF Owned, InQueue, Untold
  <2> QED BY <2>2, <2>7, <2>8, <2>9, <2>10 DEF Owned
<1> QED BY <1>1, <1>2 DEF Report

LEMMA EnqueueOwned ==
  ASSUME TypeInv, Owned, Enqueue
  PROVE  Owned'
<1> USE DEF TypeInv, workerVars, serverVars, historyVars, collectorVars
<1>1. pc["reporter"] = "send" /\ pc'["reporter"] = "select"
  BY DEF Enqueue, TypeOK, Goroutines
<1>2. UNCHANGED <<reports, job, told>>
  BY DEF Enqueue
<1>3. Len(reports) \in Ids /\ InHand(Len(reports))
  BY <1>1, BoundsAssumption DEF Travelling, TypeOK, Ids, InHand
<1>4. /\ Len(queue') = Len(queue) + 1 /\ Len(queue) \in Nat
      /\ \A i \in 1 .. Len(queue) : queue'[i] = queue[i]
      /\ queue'[Len(queue) + 1] = Len(reports)
  BY <1>3, BoundsAssumption DEF Enqueue, TypeOK
<1>5. \A i, j \in 1 .. Len(queue') : i < j => queue'[i] < queue'[j]
  BY <1>1, <1>4 DEF Owned
<1>6. \A i \in 1 .. Len(queue') : Untold(queue[i])'
  <2>1. \A i \in 1 .. Len(queue) : told'[queue'[i]] = "nothing"
    BY <1>2, <1>4 DEF Owned, Untold
  <2>2. told'[Len(reports)] = "nothing"
    BY <1>2, <1>3 DEF Owned, Untold
  <2> QED BY <1>4, <2>1, <2>2 DEF Untold
<1>7. \A w \in Workers : job[w] # 0 => Untold(job[w])' /\ Ahead(job[w])'
  BY <1>1, <1>2, <1>4 DEF Owned, Untold, Ahead
<1>8. \A r \in Ids : r > Len(reports) \/ InHand(r)' => Untold(r)'
  BY <1>1, <1>2 DEF Owned, Untold, InHand
<1>9. \A r \in 1 .. Len(reports) :
         InQueue(r)' \/ ~Untold(r)' \/ \E w \in Workers : job[w] = r
  <2> SUFFICES ASSUME NEW r \in 1 .. Len(reports), InQueue(r) \/ InHand(r) PROVE InQueue(r)'
    BY <1>2 DEF Owned, Untold
  <2> QED BY <1>4 DEF InQueue, InHand
<1> QED BY <1>1, <1>2, <1>5, <1>6, <1>7, <1>8, <1>9 DEF Owned

LEMMA TakeOwned ==
  ASSUME TypeInv, Owned, NEW w \in Workers, Take(w)
  PROVE  Owned'
<1> USE DEF TypeInv, serverVars, historyVars, collectorVars
<1>1. pc'["reporter"] = pc["reporter"]
  BY WorkerNames, ReporterStays DEF Take
<1>2. UNCHANGED <<reports, told>>
  BY DEF Take
<1>3. /\ Len(queue) \in Nat \ {0} /\ Len(queue') = Len(queue) - 1
      /\ \A i \in 1 .. Len(queue') : i + 1 \in 1 .. Len(queue) /\ queue'[i] = queue[i + 1]
  BY BoundsAssumption DEF Take, TypeOK
<1>4. /\ \A i \in 1 .. Len(queue) : queue[i] \in Ids /\ queue[i] <= Len(reports)
      /\ 1 \in 1 .. Len(queue)
  BY <1>3, BoundsAssumption DEF TypeOK, Travelling
<1>5. job' = [job EXCEPT ![w] = queue[1]] /\ job[w] = 0
  BY <1>3 DEF Take, TypeOK, Travelling
<1>6. \A i, j \in 1 .. Len(queue') : i < j => queue'[i] < queue'[j]
  BY <1>3, <1>4 DEF Owned
<1>7. \A i \in 1 .. Len(queue') : /\ Untold(queue[i])'
                                  /\ pc'["reporter"] = "send" => queue'[i] < Len(reports')
  BY <1>1, <1>2, <1>3 DEF Owned, Untold
<1>8. \A r \in Ids : r = queue[1] \/ Ahead(r) => Ahead(r)'
  <2> SUFFICES ASSUME NEW r \in Ids, r = queue[1] \/ Ahead(r) PROVE Ahead(r)'
    OBVIOUS
  <2>1. r <= Len(reports') /\ (pc'["reporter"] = "send" => r < Len(reports'))
    BY <1>1, <1>2, <1>4 DEF Owned, Ahead
  <2>2. \A i \in 1 .. Len(queue') : r < queue'[i]
    BY <1>3, <1>4 DEF Owned, Ahead
  <2> QED BY <2>1, <2>2 DEF Ahead
<1>10. \A v \in Workers : job'[v] = IF v = w THEN queue[1] ELSE job[v]
  BY <1>5 DEF TypeOK
<1>9. \A v \in Workers : job'[v] # 0 => Untold(job[v])' /\ Ahead(job[v])'
  <2> SUFFICES ASSUME NEW v \in Workers, job'[v] # 0 PROVE Untold(job[v])' /\ Ahead(job[v])'
    OBVIOUS
  <2>1. job'[v] \in Ids /\ (job'[v] = queue[1] \/ Ahead(job'[v])) /\ Untold(job'[v])
    BY <1>4, <1>10 DEF Owned, TypeOK
  <2>2. \A r \in Ids : r = job'[v] => Ahead(r)'
    BY <1>8, <2>1
  <2> QED BY <1>2, <2>1, <2>2 DEF Untold, Ahead
<1>11. \A u, v \in Workers : job'[u] = job'[v] /\ job'[v] # 0 => u = v
  <2>1. \A v \in Workers : job[v] # queue[1]
    BY <1>4 DEF Owned, Ahead, Ids
  <2> QED BY <1>10, <2>1 DEF Owned
<1>12. \A r \in Ids : r > Len(reports') \/ InHand(r)' => Untold(r)'
  BY <1>1, <1>2 DEF Owned, Untold, InHand
<1>13. \A r \in 1 .. Len(reports) :
         InQueue(r)' \/ InHand(r)' \/ ~Untold(r)' \/ \E v \in Workers : job'[v] = r
  <2> TAKE r \in 1 .. Len(reports)
  <2>1. CASE InQueue(r)
    <3>1. PICK i \in 1 .. Len(queue) : queue[i] = r
      BY <2>1 DEF InQueue
    <3>2. CASE i = 1
      BY <1>10, <3>1, <3>2
    <3>3. CASE i # 1
      <4>1. i - 1 \in 1 .. Len(queue') /\ queue'[i - 1] = r
        BY <1>3, <3>1, <3>3
      <4> QED BY <4>1 DEF InQueue
    <3> QED BY <3>2, <3>3
  <2>2. CASE InHand(r) \/ ~Untold(r)
    BY <1>1, <1>2, <2>2 DEF InHand, Untold
  <2>3. CASE \E v \in Workers : job[v] = r
    <3>1. PICK v \in Workers : job[v] = r
      BY <2>3
    <3>2. v # w
      BY <1>5, <3>1
    <3> QED BY <1>10, <3>1, <3>2
  <2> QED BY <2>1, <2>2, <2>3 DEF Owned
<1> QED BY <1>2, <1>6, <1>7, <1>8, <1>9, <1>10, <1>11, <1>12, <1>13 DEF Owned

LEMMA FinishesOwned ==
  ASSUME TypeInv, Owned, NEW w \in Workers, NEW what \in Outcomes, Finishes(w, what)
  PROVE  Owned'
<1> USE DEF TypeInv, collectorVars
<1>1. pc'["reporter"] = pc["reporter"]
  BY WorkerNames, ReporterStays DEF Finishes, Finish
<1>2. UNCHANGED <<queue, reports>>
  BY DEF Finishes
<1>3. job[w] \in Ids /\ job[w] # 0
  BY BusyWorker DEF Finishes, Ids
<1>4. told' = [told EXCEPT ![job[w]] = what] /\ what # "nothing"
  BY DEF Finishes, Finish, Outcomes
<1>5. \A r \in Ids : Untold(r)' <=> Untold(r) /\ r # job[w]
  BY <1>3, <1>4 DEF TypeOK, Untold
<1>6. \A v \in Workers : job'[v] = IF v = w THEN 0 ELSE job[v]
  BY DEF Finishes, Finish, TypeOK
<1>7. \A i \in 1 .. Len(queue) : queue[i] \in Ids /\ queue[i] # job[w]
  BY <1>3, BoundsAssumption DEF TypeOK, Owned, Ahead, Ids
<1>8. \A v \in Workers : job'[v] # 0 => job'[v] = job[v] /\ job[v] \in Ids /\ job[v] # job[w]
  BY <1>6 DEF TypeOK, Owned
<1>9. \A r \in Ids : r > Len(reports) \/ InHand(r) => r # job[w]
  BY <1>3, BoundsAssumption DEF Owned, Ahead, InHand, TypeOK, Ids
<1>10. \A i \in 1 .. Len(queue') : Untold(queue[i])'
  BY <1>2, <1>4, <1>7 DEF Owned, Untold, TypeOK
<1>11. \A v \in Workers : job'[v] # 0 => Untold(job[v])' /\ Ahead(job[v])'
  <2> SUFFICES ASSUME NEW v \in Workers, job'[v] # 0 PROVE Untold(job[v])' /\ Ahead(job[v])'
    OBVIOUS
  <2>1. job'[v] = job[v] /\ job[v] \in Ids /\ job[v] # job[w] /\ Untold(job[v]) /\ Ahead(job[v])
    BY <1>8 DEF Owned
  <2>2. told'[job[v]] = told[job[v]]
    BY <1>4, <2>1 DEF TypeOK
  <2> QED BY <1>1, <1>2, <2>1, <2>2 DEF Untold, Ahead
<1>12. \A r \in Ids : r > Len(reports') \/ InHand(r)' => Untold(r)'
  BY <1>1, <1>2, <1>5, <1>9 DEF Owned, InHand
<1>13. \A r \in 1 .. Len(reports) :
         InQueue(r)' \/ InHand(r)' \/ ~Untold(r)' \/ \E v \in Workers : job'[v] = r
  <2> TAKE r \in 1 .. Len(reports)
  <2>1. r \in Ids
    BY BoundsAssumption DEF TypeOK, Ids
  <2>2. CASE r = job[w]
    BY <1>5, <2>1, <2>2
  <2>3. CASE r # job[w]
    <3>1. CASE InQueue(r) \/ InHand(r) \/ ~Untold(r)
      BY <1>1, <1>2, <1>5, <2>1, <3>1 DEF InQueue, InHand
    <3>2. CASE \E v \in Workers : job[v] = r
      BY <1>6, <2>3, <3>2
    <3> QED BY <3>1, <3>2 DEF Owned
  <2> QED BY <2>2, <2>3
<1> QED BY <1>1, <1>2, <1>8, <1>10, <1>11, <1>12, <1>13 DEF Owned

(* Reports move when the reporter collects one or puts it into the channel *)
(* and when a worker takes one or is done with it, and at no other step.   *)
LEMMA ReportsMove ==
  ASSUME TypeInv, [Next]_vars
  PROVE  \/ Report \/ Enqueue \/ \E w \in Workers : Take(w)
         \/ /\ UNCHANGED <<queue, reports>>
            /\ (pc["reporter"] = "send") <=> (pc'["reporter"] = "send")
            /\ \/ UNCHANGED <<job, told>>
               \/ \E w \in Workers, what \in Outcomes : Finishes(w, what)
<1> USE DEF workerVars, serverVars, historyVars, collectorVars
<1>m. {"main", "poller", "sysPoller"} \subseteq Goroutines \ {"reporter"}
  BY DEF Goroutines
<1>1. CASE PollTick \/ ReportTick \/ Collect \/ CollectSystemMetrics \/ UNCHANGED vars
  BY <1>1 DEF PollTick, ReportTick, Collect, CollectSystemMetrics, vars
<1>6. CASE \E q \in Requests : Responds(q) \/ Retry(q)
  BY <1>6, ServerOutcomes DEF ServerMoves
<1>2. CASE SendOnClosed \/ Signal \/ MainSteps
  <2>1. PICK place : pc' = [pc EXCEPT !["main"] = place]
    BY <1>2 DEF SendOnClosed, Signal, MainSteps, Cancel, Close, Exit, MainGoes
  <2>2. UNCHANGED <<queue, job, reports, told>>
    BY <1>2 DEF SendOnClosed, Signal, MainSteps, Cancel, Close, Exit, MainGoes
  <2> QED BY <1>m, <2>1, <2>2, ReporterStays
<1>3. CASE StopLoop("poller") \/ StopLoop("sysPoller")
  <2>1. pc'["reporter"] = pc["reporter"]
    BY <1>3, <1>m, ReporterStays DEF StopLoop
  <2> QED BY <1>3, <2>1 DEF StopLoop
<1>4. CASE StopLoop("reporter")
  <2>1. pc["reporter"] = "select" /\ pc'["reporter"] = "stopped"
    BY <1>4 DEF StopLoop, TypeInv, TypeOK, Goroutines
  <2> QED BY <1>4, <2>1 DEF StopLoop
<1>5. CASE \E w \in Workers : Worker(w)
  <2> PICK w \in Workers : Worker(w)
    BY <1>5
  <2>1. CASE \E what \in Outcomes : Finishes(w, what)
    <3>1. pc'["reporter"] = pc["reporter"]
      BY <2>1, WorkerNames, ReporterStays DEF Finishes, Finish
    <3> QED BY <2>1, <3>1 DEF Finishes
  <2>2. CASE PostsBatch(w) \/ SendMetric(w) \/ MetricResponse(w) \/ WorkerStops(w) \/ FallsBack(w)
    <3>1. PICK place : pc' = [pc EXCEPT ![w] = place]
      BY <2>2 DEF PostsBatch, SendMetric, MetricResponse, WorkerStops, StopLoop, FallsBack, FallBack
    <3>2. UNCHANGED <<queue, job, reports, told>>
      BY <2>2 DEF PostsBatch, SendMetric, MetricResponse, WorkerStops, StopLoop, FallsBack
    <3> QED BY <3>1, <3>2, WorkerNames, ReporterStays
  <2> QED BY <2>1, <2>2, WorkerMoves
<1> QED BY <1>1, <1>2, <1>3, <1>4, <1>5, <1>6 DEF Next, Poller, SysPoller, Reporter

LEMMA OwnedStep ==
  ASSUME TypeInv, Owned, [Next]_vars
  PROVE  Owned'
BY ReportsMove, ReportOwned, EnqueueOwned, TakeOwned, FinishesOwned, StillOwned

LEMMA OwnedInvariant == Spec => []Owned
<1>1. Init => Owned
  <2> SUFFICES ASSUME Init PROVE Owned
    OBVIOUS
  <2>1. Len(reports) = 0 /\ Len(queue) = 0 /\ pc["reporter"] = "select"
    BY DEF Init, Goroutines
  <2>2. (\A w \in Workers : job[w] = 0) /\ \A r \in Ids : told[r] = "nothing"
    BY DEF Init
  <2> QED BY <2>1, <2>2 DEF Owned, Untold
<1> QED BY <1>1, OwnedStep, TypeInvariant, PTL DEF Spec

(* As long as the agent runs each report that was collected is with the    *)
(* reporter, in the channel, with one worker or finished, and only there:  *)
(* neither pool nor faults nor the ctx.Done branches of a shutdown lose one*)
(* or give it to two workers (main.go:201-216 against worker).             *)
THEOREM OneOwnerCorrect == Spec => []OneOwner
<1>1. TypeInv /\ Owned => OneOwner
  <2> SUFFICES ASSUME TypeInv, Owned, NEW r \in 1 .. Len(reports)
               PROVE  Cardinality(HeldBy(r)) + (IF InHand(r) THEN 1 ELSE 0)
                        + Cardinality({i \in 1 .. Len(queue) : queue[i] = r})
                        + (IF told[r] # "nothing" THEN 1 ELSE 0) = 1
    BY DEF OneOwner
  <2> DEFINE positions == {i \in 1 .. Len(queue) : queue[i] = r}
  <2>t. Len(reports) \in Nat /\ r \in Ids /\ \A i \in 1 .. Len(queue) : queue[i] \in Ids
    BY BoundsAssumption DEF TypeInv, TypeOK, Ids
  <2>1. HeldBy(r) = {} \/ \E w \in Workers : HeldBy(r) = {w} /\ job[w] = r
    BY <2>t DEF Owned, HeldBy, Ids
  <2>2. positions = {} \/ \E i \in 1 .. Len(queue) : positions = {i} /\ queue[i] = r
    <3> SUFFICES ASSUME NEW i \in positions PROVE positions = {i}
      OBVIOUS
    <3>1. \A j \in 1 .. Len(queue) : queue[j] = r => j = i
      BY <2>t DEF Owned, Ids, TypeInv, TypeOK
    <3> QED BY <3>1
  <2>3. /\ HeldBy(r) = {} => Cardinality(HeldBy(r)) = 0
        /\ HeldBy(r) # {} => Cardinality(HeldBy(r)) = 1
        /\ positions = {} => Cardinality(positions) = 0
        /\ positions # {} => Cardinality(positions) = 1
    BY <2>1, <2>2, FS_EmptySet, FS_Singleton
  <2>4. HeldBy(r) # {} => positions = {} /\ ~InHand(r) /\ told[r] = "nothing"
    BY <2>1, <2>t DEF Owned, Ahead, Untold, InHand, Ids
  <2>5. positions # {} => ~InHand(r) /\ told[r] = "nothing"
    BY <2>2, <2>t DEF Owned, Untold, InHand, Ids
  <2>6. InHand(r) => told[r] = "nothing"
    BY <2>t DEF Owned, Untold
  <2>7. HeldBy(r) # {} \/ positions # {} \/ InHand(r) \/ told[r] # "nothing"
    BY DEF Owned, HeldBy, InQueue, Untold
  <2> HIDE DEF positions
  <2>8. Cardinality(HeldBy(r)) + (IF InHand(r) THEN 1 ELSE 0) + Cardinality(positions)
          + (IF told[r] # "nothing" THEN 1 ELSE 0) = 1
    BY <2>3, <2>4, <2>5, <2>6, <2>7
  <2> QED BY <2>8 DEF positions
<1> QED BY <1>1, OwnedInvariant, TypeInvariant, PTL

--------------------------------------------------------------------------------
(* The end *)

(* "Agent stopped" is the last thing the agent does, whatever its pool is: *)
(* no worker is in the middle of a report (main.go:232).                   *)
THEOREM StoppedCorrect == Spec => []StoppedMeansIdle
<1> DEFINE AllStopped == pc["main"] = "exited" => \A w \in Workers : pc[w] = "stopped"
<1>1. Init => AllStopped
  BY DEF Init, Goroutines
<1>2. TypeInv /\ AllStopped /\ [Next]_vars => AllStopped'
  <2> SUFFICES ASSUME TypeInv, AllStopped, [Next]_vars PROVE AllStopped'
    OBVIOUS
  <2> USE DEF workerVars, serverVars, historyVars, collectorVars
  <2>m. "main" \in Goroutines /\ {"main", "poller", "sysPoller", "reporter"} \cap Workers = {}
    BY WorkersAssumption DEF Goroutines
  <2>1. CASE Exit
    BY <2>1, <2>m DEF Exit, MainGoes, TypeInv, TypeOK
  <2>2. CASE Signal \/ Cancel \/ Close \/ SendOnClosed
    BY <2>2, <2>m DEF Signal, Cancel, Close, SendOnClosed, MainGoes, TypeInv, TypeOK
  <2>3. CASE UNCHANGED pc
    BY <2>3
  <2>4. CASE Alive /\ \E g \in Goroutines \ {"main"} : \E place : pc' = [pc EXCEPT ![g] = place]
    BY <2>4, <2>m DEF Alive, TypeInv, TypeOK
  <2>5. CASE PollTick \/ ReportTick \/ Collect \/ CollectSystemMetrics
             \/ (\E q \in Requests : Responds(q) \/ Retry(q)) \/ UNCHANGED vars
    BY <2>3, <2>5, ServerOutcomes
       DEF PollTick, ReportTick, Collect, CollectSystemMetrics, ServerMoves, vars
  <2>6. CASE Report \/ Enqueue
    <3>1. "reporter" \in Goroutines \ {"main"} /\ Alive
      BY <2>6 DEF Report, Enqueue, Goroutines
    <3> QED BY <2>3, <2>4, <2>6, <3>1 DEF Report, Enqueue
  <2>7. CASE StopLoop("poller") \/ StopLoop("sysPoller") \/ StopLoop("reporter")
    <3>1. {"poller", "sysPoller", "reporter"} \subseteq Goroutines \ {"main"}
      BY DEF Goroutines
    <3> QED BY <2>4, <2>7, <3>1 DEF StopLoop
  <2>8. CASE \E w \in Workers : Worker(w)
    <3>1. PICK w \in Workers : Worker(w)
      BY <2>8
    <3>2. w \in Goroutines \ {"main"}
      BY WorkerNames
    <3>3. Alive /\ \E place : pc' = [pc EXCEPT ![w] = place]
      BY <3>1 DEF Worker, Take, SendBatch, BatchResponse, SendMetric, MetricResponse, SendDone,
                  ConnectionError, WorkerStops, ChannelEnds, StopLoop, FallBack, Finish
    <3> QED BY <2>4, <3>2, <3>3
  <2> QED BY <2>1, <2>2, <2>5, <2>6, <2>7, <2>8 DEF Next, Poller, SysPoller, Reporter, MainSteps
<1>3. TypeInv /\ AllStopped => StoppedMeansIdle
  BY DEF TypeInv, Travelling, StoppedMeansIdle
<1> QED BY <1>1, <1>2, <1>3, TypeInvariant, PTL DEF Spec

--------------------------------------------------------------------------------
(* The order of the reports *)

(* Nothing overtakes the channel: what was taken from it stays ahead.      *)
LEMMA AheadStays ==
  ASSUME TypeInv, Owned, [Next]_vars, NEW r \in Nat, Ahead(r)
  PROVE  Ahead(r)'
<1> USE DEF TypeInv
<1>1. CASE Report
  <2>1. CASE UNCHANGED <<reports, pc>>
    BY <1>1, <2>1 DEF Report, Ahead
  <2>2. CASE reports' = Append(reports, Collected) /\ UNCHANGED queue
    <3>1. Len(reports') = Len(reports) + 1 /\ Len(reports) \in Nat
      BY <2>2, BoundsAssumption DEF TypeOK
    <3> QED BY <2>2, <3>1 DEF Ahead
  <2> QED BY <1>1, <2>1, <2>2 DEF Report
<1>2. CASE Enqueue
  <2>1. pc["reporter"] = "send" /\ pc'["reporter"] = "select" /\ reports' = reports
    BY <1>2 DEF Enqueue, TypeOK, Goroutines, collectorVars
  <2>2. /\ Len(queue') = Len(queue) + 1 /\ Len(queue) \in Nat
        /\ \A i \in 1 .. Len(queue) : queue'[i] = queue[i]
        /\ queue'[Len(queue) + 1] = Len(reports)
    BY <1>2, BoundsAssumption DEF Enqueue, TypeOK
  <2> QED BY <2>1, <2>2 DEF Ahead
<1>3. CASE \E w \in Workers : Take(w)
  <2> PICK w \in Workers : Take(w)
    BY <1>3
  <2>1. pc'["reporter"] = pc["reporter"] /\ reports' = reports
    BY WorkerNames, ReporterStays DEF Take, collectorVars
  <2>2. \A i \in 1 .. Len(queue') : i + 1 \in 1 .. Len(queue) /\ queue'[i] = queue[i + 1]
    BY BoundsAssumption DEF Take, TypeOK
  <2> QED BY <2>1, <2>2 DEF Ahead
<1>4. CASE UNCHANGED <<queue,
      reports>> /\ ((pc["reporter"] = "send") <=> (pc'["reporter"] = "send"))
  BY <1>4 DEF Ahead
<1> QED BY <1>1, <1>2, <1>3, <1>4, ReportsMove

Alone == \A v, w \in Workers : v = w

(* What the server has or may yet get is ahead of the channel; a single    *)
(* worker is never behind any of it.                                       *)
Ordered ==
  /\ Ahead(gauge)
  /\ \A q \in net : Ahead(q.report)
  /\ Alone => \A w \in Workers : job[w] # 0 => /\ gauge <= job[w]
                                               /\ \A q \in net : q.report <= job[w]

(* New requests are a worker's, about its report.                          *)
LEMMA NewRequests ==
  ASSUME TypeInv, [Next]_vars, NEW q \in net' \ net
  PROVE  \E w \in Workers : q.report = job[w] /\ job[w] # 0 /\ job' = job /\ gauge' = gauge
<1> USE DEF workerVars, serverVars, historyVars, collectorVars
<1>1. CASE \E w \in Workers : Worker(w)
  <2> PICK w \in Workers : Worker(w)
    BY <1>1
  <2>1. PostsBatch(w) \/ SendMetric(w)
    BY WorkerMoves DEF Take, MetricResponse, WorkerStops, StopLoop, FallsBack, Finishes
  <2>2. q.report = job[w] /\ job' = job /\ gauge' = gauge
    BY <2>1 DEF PostsBatch, SendMetric, Post
  <2>3. job[w] # 0
    BY <2>1, BusyWorker DEF PostsBatch, SendMetric, Ids
  <2> QED BY <2>2, <2>3
<1>2. CASE UNCHANGED net
  BY <1>2
<1>3. CASE \E p \in Requests : Responds(p) \/ Retry(p)
  BY <1>3, ServerOutcomes DEF ServerMoves
<1>4. ASSUME NEW g, StopLoop(g) PROVE UNCHANGED net
  BY <1>4 DEF StopLoop
<1> QED
  BY <1>1, <1>2, <1>3, <1>4
     DEF Next, PollTick, ReportTick, Poller, Collect, SysPoller, CollectSystemMetrics, Reporter,
         Report, Enqueue, SendOnClosed, Signal, MainSteps, Cancel, Close, Exit, MainGoes, vars

(* The gauge of the server moves when it executes a request, and to the    *)
(* report of that request.                                                 *)
LEMMA GaugeMoves ==
  ASSUME TypeInv, [Next]_vars, gauge' # gauge
  PROVE  /\ \E q \in net : gauge' = q.report /\ executed'[q] > executed[q]
         /\ net' \subseteq net /\ job' = job
<1> USE DEF workerVars, serverVars, historyVars, collectorVars
<1>1. CASE \E q \in Requests : Responds(q) \/ Retry(q)
  <2> PICK q \in Requests : Responds(q) \/ Retry(q)
    BY <1>1
  <2>1. /\ q \in net /\ gauge' = q.report /\ net' \subseteq net /\ job' = job
        /\ executed' = [executed EXCEPT ![q] = @ + 1]
    BY ServerOutcomes DEF ServerMoves
  <2>2. executed'[q] > executed[q]
    BY <2>1 DEF TypeInv, TypeOK
  <2> QED BY <2>1, <2>2
<1>2. ASSUME NEW w \in Workers, Worker(w) PROVE UNCHANGED gauge
  BY <1>2 DEF Worker, Take, SendBatch, BatchResponse, SendMetric, MetricResponse, SendDone,
              ConnectionError, WorkerStops, ChannelEnds, StopLoop
<1>3. ASSUME NEW g, StopLoop(g) PROVE UNCHANGED gauge
  BY <1>3 DEF StopLoop
<1> QED
  BY <1>1, <1>2, <1>3
     DEF Next, PollTick, ReportTick, Poller, Collect, SysPoller, CollectSystemMetrics, Reporter,
         Report, Enqueue, SendOnClosed, Signal, MainSteps, Cancel, Close, Exit, MainGoes, vars

(* A worker gets a report from the head of the channel only.               *)
LEMMA JobsMove ==
  ASSUME TypeInv, [Next]_vars, NEW w \in Workers, job'[w] # job[w], job'[w] # 0
  PROVE  /\ Len(queue) > 0 /\ job'[w] = queue[1]
         /\ UNCHANGED <<gauge, net>>
<1>1. CASE \E v \in Workers : Take(v)
  <2> PICK v \in Workers : Take(v)
    BY <1>1
  <2>1. Len(queue) > 0 /\ Head(queue) = queue[1]
    BY BoundsAssumption DEF TypeInv, TypeOK, Take
  <2> QED BY <2>1 DEF Take, TypeInv, TypeOK, serverVars
<1>2. CASE \E v \in Workers, what \in Outcomes : Finishes(v, what)
  BY <1>2 DEF Finishes, Finish, TypeInv, TypeOK
<1> QED BY <1>1, <1>2, ReportsMove DEF Report, Enqueue, workerVars

LEMMA OrderedStep ==
  ASSUME TypeInv, Owned, Ordered, [Next]_vars, TypeInv'
  PROVE  Ordered'
<1>n. /\ gauge \in Nat /\ gauge' \in Nat
      /\ \A q \in net : q.report \in Nat
      /\ \A w \in Workers : job[w] \in Nat /\ job'[w] \in Nat
  BY DEF TypeInv, TypeOK, Ids, Requests
<1>1. \A q \in net' : Ahead(q.report)'
  <2> SUFFICES ASSUME NEW q \in net' PROVE Ahead(q.report)'
    OBVIOUS
  <2>1. q.report \in Nat /\ Ahead(q.report)
    BY <1>n, NewRequests DEF Ordered, Owned
  <2> QED BY <2>1, AheadStays
<1>2. Ahead(gauge)'
  <2>1. \A r \in Nat : r = gauge' => Ahead(r)
    BY <1>n, GaugeMoves DEF Ordered
  <2>2. \A r \in Nat : r = gauge' => Ahead(r)'
    BY <2>1, AheadStays
  <2> QED BY <1>n, <2>2 DEF Ahead
<1>3. ASSUME Alone, NEW w \in Workers, job'[w] # 0
      PROVE  gauge' <= job'[w] /\ \A q \in net' : q.report <= job'[w]
  <2>1. CASE job'[w] # job[w]
    <3>1. Len(queue) > 0 /\ job'[w] = queue[1] /\ UNCHANGED <<gauge, net>>
      BY <1>3, <2>1, JobsMove
    <3>2. Len(queue) \in Nat /\ 1 \in 1 .. Len(queue)
      BY <3>1, BoundsAssumption DEF TypeInv, TypeOK
    <3> QED BY <1>n, <3>1, <3>2 DEF Ordered, Ahead
  <2>2. CASE job'[w] = job[w]
    <3>1. \A q \in net' : q.report <= job[w]
      BY <1>3, <1>n, <2>2, NewRequests DEF Ordered, Alone
    <3>2. gauge' <= job[w]
      BY <1>3, <1>n, <2>2, GaugeMoves DEF Ordered, Alone
    <3> QED BY <2>2, <3>1, <3>2
  <2> QED BY <2>1, <2>2
<1> QED BY <1>1, <1>2, <1>3 DEF Ordered, Alone

LEMMA OrderedInvariant == Spec => []Ordered
<1>1. Init => Ordered
  <2> SUFFICES ASSUME Init PROVE Ordered
    OBVIOUS
  <2>1. /\ Len(reports) = 0 /\ Len(queue) = 0 /\ pc["reporter"] = "select"
        /\ gauge = 0 /\ net = {} /\ \A w \in Workers : job[w] = 0
    BY DEF Init, Goroutines
  <2> QED BY <2>1 DEF Ordered, Ahead
<1> QED BY <1>1, OrderedStep, OwnedInvariant, TypeInvariant, PTL DEF Spec

(* With a pool of one the server's gauges go backwards only through a      *)
(* request that the worker had given up and that the server executes late, *)
(* or again, whatever the channel holds and whatever else fails            *)
(* (main.go:171, db_storage.go:79-82).                                     *)
THEOREM GaugesCorrect == Spec => GaugesMoveForward
<1>1. TypeInv /\ Ordered /\ [Next]_vars
        => [Cardinality(Workers) = 1 /\ gauge' < gauge => ExecutesGivenUp]_vars
  <2> SUFFICES ASSUME TypeInv, Ordered, [Next]_vars, Cardinality(Workers) = 1, gauge' < gauge
               PROVE  ExecutesGivenUp
    OBVIOUS
  <2>1. Alone
    <3>1. PICK x : Workers = {x}
      BY WorkersAssumption, FS_Singleton
    <3> QED BY <3>1 DEF Alone
  <2>2. gauge \in Nat /\ gauge' # gauge
    BY DEF TypeInv, TypeOK, Ids
  <2>3. PICK q \in net : gauge' = q.report /\ executed'[q] > executed[q]
    BY <2>2, GaugeMoves
  <2>4. ASSUME NEW w \in Workers, request[w] = q PROVE FALSE
    <3>1. q # None
      BY DEF TypeInv, TypeOK, Requests, None, Ids
    <3>2. pc[w] \in {"waitBatch", "waitSingle"}
      BY <2>4, <3>1 DEF TypeInv, Waiting
    <3>a. q.report = job[w]
      <4>1. \E k : q = [report |-> job[w], kind |-> k]
        BY <2>4, <3>2 DEF TypeInv, Waiting
      <4> QED BY <4>1
    <3>3. job[w] \in Ids /\ job[w] # 0
      BY <3>2, BusyWorker DEF Ids
    <3>4. gauge <= job[w]
      BY <2>1, <3>3 DEF Ordered
    <3> QED BY <2>2, <2>3, <3>a, <3>3, <3>4 DEF Ids
  <2> QED BY <2>3, <2>4 DEF ExecutesGivenUp
<1> QED BY <1>1, OrderedInvariant, TypeInvariant, PTL DEF Spec, GaugesMoveForward

--------------------------------------------------------------------------------
(* How often the server stores what the agent asks *)

(* A worker that has fallen back has yet to send k of r by itself.         *)
Due(r, k) == \E w \in Workers : job[w] = r /\ k \in left[w]

Unasked(r) == \A q \in net : q.report # r

(* No worker has sent anything of r.                                       *)
Fresh(r) ==
  \/ r > Len(reports) \/ InQueue(r) \/ InHand(r)
  \/ \E w \in Workers : job[w] = r /\ pc[w] = "batch"

Unstored(r) == \A q \in Requests : q.report = r => executed[q] = 0

(* The server has nothing of q and is not asked for it.                    *)
Untouched(q) == q \notin net /\ executed[q] = 0

(* What the server has done with a batch, as its worker knows it from the  *)
(* answer.                                                                 *)
Answered(r, status) ==
  /\ r \notin ambiguous
  /\ \A k \in Metrics : Untouched(Single(r, k))
  /\ Batch(r) \in net <=> status = "none"
  /\ status = "refused" => executed[Batch(r)] = 0
  /\ status = "ok" /\ ~Database => executed[Batch(r)] = 1

(* A request that the server may still execute has an execution left.      *)
Bounded ==
  \A q \in Requests : executed[q] <= Limit(q) /\ (q \in net => executed[q] < Limit(q))

DueUntouched == \A r \in Ids, k \in Metrics : Due(r, k) => Untouched(Single(r, k))

(* A batch and a metric of its own are not both asked for, unless the batch*)
(* was given up.                                                           *)
Exclusive ==
  \A r \in Ids, k \in Metrics :
    \/ r \in ambiguous \/ Untouched(Batch(r))
    \/ Untouched(Single(r, k)) /\ ~Due(r, k)

NothingLeft == \A w \in Workers : pc[w] \notin {"single", "waitSingle"} => left[w] = {}

FreshUntouched ==
  \A r \in Ids : Fresh(r) => Unasked(r) /\ r \notin ambiguous /\ Unstored(r)

AnswersKnown ==
  \A w \in Workers : pc[w] = "waitBatch" => Answered(job[w], response[w])

SentSettled ==
  \A r \in Ids : told[r] = "batchSent" =>
    /\ Unasked(r)
    /\ \A k \in Metrics : executed[Single(r, k)] = 0
    /\ ~Database => executed[Batch(r)] = 1

Counted ==
  /\ Bounded /\ DueUntouched /\ Exclusive /\ NothingLeft
  /\ FreshUntouched /\ AnswersKnown /\ SentSettled

(* A step that is neither a worker's nor the server's.                     *)
Elsewhere ==
  /\ UNCHANGED <<job, left, request, response, net, executed, ambiguous, told>>
  /\ \A w \in Workers : pc'[w] = pc[w]

LEMMA StepKinds ==
  ASSUME TypeInv, [Next]_vars
  PROVE  \/ Elsewhere
         \/ \E w \in Workers : \/ Take(w) \/ PostsBatch(w) \/ SendMetric(w) \/ MetricResponse(w)
                               \/ WorkerStops(w) \/ FallsBack(w)
                               \/ \E what \in Outcomes : Finishes(w, what)
         \/ \E q \in Requests : Responds(q) \/ Retry(q)
<1> USE DEF workerVars, serverVars, historyVars, collectorVars
<1>1. CASE PollTick \/ ReportTick \/ Collect \/ CollectSystemMetrics \/ UNCHANGED vars
  BY <1>1 DEF PollTick, ReportTick, Collect, CollectSystemMetrics, vars, Elsewhere
<1>2. CASE Report \/ Enqueue \/ SendOnClosed \/ Signal \/ MainSteps
           \/ StopLoop("poller") \/ StopLoop("sysPoller") \/ StopLoop("reporter")
  <2>1. \/ UNCHANGED pc
        \/ \E g \in {"main", "poller", "sysPoller", "reporter"} : \E place :
             pc' = [pc EXCEPT ![g] = place]
    BY <1>2 DEF Report, Enqueue, SendOnClosed, Signal, MainSteps, Cancel, Close, Exit, MainGoes,
                StopLoop
  <2>2. \A w \in Workers : pc'[w] = pc[w]
    BY <2>1, WorkerNames DEF TypeInv, TypeOK
  <2>3. UNCHANGED <<job, left, request, response, net, executed, ambiguous, told>>
    BY <1>2 DEF Report, Enqueue, SendOnClosed, Signal, MainSteps, Cancel, Close, Exit, MainGoes,
                StopLoop
  <2> QED BY <2>2, <2>3 DEF Elsewhere
<1>3. CASE \E w \in Workers : Worker(w)
  BY <1>3, WorkerMoves
<1> QED BY <1>1, <1>2, <1>3 DEF Next, Poller, SysPoller, Reporter

(* A worker only comes to its batch by taking a report.                    *)
LEMMA BatchBefore ==
  ASSUME TypeInv, [Next]_vars, NEW w \in Workers, ~Take(w), pc'[w] = "batch"
  PROVE  pc[w] = "batch" /\ job'[w] = job[w]
<1>1. CASE Elsewhere
  BY <1>1 DEF Elsewhere
<1>2. CASE \E q \in Requests : Responds(q) \/ Retry(q)
  BY <1>2, ServerOutcomes DEF ServerMoves
<1>3. CASE \E v \in Workers : Take(v)
  BY <1>3, WorkerNames DEF Take, TypeInv, TypeOK
<1>4. CASE \E v \in Workers : \/ PostsBatch(v) \/ SendMetric(v) \/ MetricResponse(v)
                             \/ WorkerStops(v) \/ FallsBack(v)
                             \/ \E what \in Outcomes : Finishes(v, what)
  <2> PICK v \in Workers : \/ PostsBatch(v) \/ SendMetric(v) \/ MetricResponse(v)
                           \/ WorkerStops(v) \/ FallsBack(v)
                           \/ \E what \in Outcomes : Finishes(v, what)
    BY <1>4
  <2>1. \E place : place # "batch" /\ pc' = [pc EXCEPT ![v] = place]
    BY DEF PostsBatch, SendMetric, MetricResponse, WorkerStops, StopLoop, FallsBack, FallBack,
           Finishes, Finish
  <2>2. w # v /\ pc'[w] = pc[w]
    BY <2>1, WorkerNames DEF TypeInv, TypeOK
  <2>3. job' = job \/ job' = [job EXCEPT ![v] = 0]
    BY DEF PostsBatch, SendMetric, MetricResponse, WorkerStops, StopLoop, FallsBack,
           Finishes, Finish, workerVars
  <2> QED BY <2>2, <2>3 DEF TypeInv, TypeOK
<1> QED BY <1>1, <1>2, <1>3, <1>4, StepKinds

LEMMA FreshBefore ==
  ASSUME TypeInv, Owned, [Next]_vars, NEW r \in Ids, Fresh(r)'
  PROVE  Fresh(r)
<1> USE DEF TypeInv
<1>1. CASE \E w \in Workers : job'[w] = r /\ pc'[w] = "batch"
  <2>1. PICK w \in Workers : job'[w] = r /\ pc'[w] = "batch"
    BY <1>1
  <2>2. CASE Take(w)
    <3>1. Len(queue) > 0 /\ Len(queue) \in Nat /\ job'[w] = queue[1]
      BY <2>2, BoundsAssumption DEF Take, TypeOK
    <3> QED BY <2>1, <3>1 DEF Fresh, InQueue
  <2>3. CASE ~Take(w)
    BY <2>1, <2>3, BatchBefore DEF Fresh
  <2> QED BY <2>2, <2>3
<1>2. CASE r > Len(reports') \/ InQueue(r)' \/ InHand(r)'
  <2>1. CASE Report
    <3>1. CASE UNCHANGED <<reports, pc>>
      BY <1>2, <2>1, <3>1 DEF Report, Fresh, InQueue, InHand
    <3>2. CASE reports' = Append(reports, Collected) /\ UNCHANGED queue
      <4>1. Len(reports') = Len(reports) + 1 /\ Len(reports) \in Nat
        BY <3>2, BoundsAssumption DEF TypeOK
      <4> QED BY <1>2, <3>2, <4>1 DEF Fresh, InQueue, InHand, Ids
    <3> QED BY <2>1, <3>1, <3>2 DEF Report
  <2>2. CASE Enqueue
    <3>1. /\ Len(queue') = Len(queue) + 1 /\ Len(queue) \in Nat
          /\ \A i \in 1 .. Len(queue) : queue'[i] = queue[i]
          /\ queue'[Len(queue) + 1] = Len(reports)
          /\ pc["reporter"] = "send" /\ pc'["reporter"] = "select" /\ reports' = reports
      BY <2>2, BoundsAssumption DEF Enqueue, TypeOK, collectorVars, Goroutines
    <3> QED BY <1>2, <3>1 DEF Fresh, InQueue, InHand
  <2>3. CASE \E w \in Workers : Take(w)
    <3> PICK w \in Workers : Take(w)
      BY <2>3
    <3>1. pc'["reporter"] = pc["reporter"] /\ reports' = reports
      BY WorkerNames, ReporterStays DEF Take, collectorVars
    <3>2. \A i \in 1 .. Len(queue') : i + 1 \in 1 .. Len(queue) /\ queue'[i] = queue[i + 1]
      BY BoundsAssumption DEF Take, TypeOK
    <3> QED BY <1>2, <3>1, <3>2 DEF Fresh, InQueue, InHand
  <2>4. CASE /\ UNCHANGED <<queue, reports>>
             /\ (pc["reporter"] = "send") <=> (pc'["reporter"] = "send")
    BY <1>2, <2>4 DEF Fresh, InQueue, InHand
  <2> QED BY <2>1, <2>2, <2>3, <2>4, ReportsMove
<1> QED BY <1>1, <1>2 DEF Fresh

(* A step that touches no request, no report and no worker but one that it *)
(* lets pause.                                                             *)
LEMMA ElsewhereCounted ==
  ASSUME TypeInv, Owned, Counted, [Next]_vars, Elsewhere
  PROVE  Counted'
<1> USE DEF Elsewhere
<1>1. Bounded'
  BY DEF Counted, Bounded, Limit
<1>2. DueUntouched' /\ Exclusive'
  BY DEF Counted, DueUntouched, Exclusive, Due, Untouched, Single, Batch
<1>3. NothingLeft'
  BY DEF Counted, NothingLeft
<1>4. FreshUntouched'
  BY FreshBefore DEF Counted, FreshUntouched, Unasked, Unstored
<1>5. AnswersKnown'
  BY DEF Counted, AnswersKnown, Answered, Untouched, Single, Batch
<1>6. SentSettled'
  BY DEF Counted, SentSettled, Unasked, Single, Batch
<1> QED BY <1>1, <1>2, <1>3, <1>4, <1>5, <1>6 DEF Counted

LEMMA TakeCounted ==
  ASSUME TypeInv, Owned, Counted, [Next]_vars, NEW w \in Workers, Take(w)
  PROVE  Counted'
<1>0. /\ UNCHANGED <<left, request, response, net, executed, ambiguous, told>>
      /\ \A v \in Workers : v # w => pc'[v] = pc[v] /\ job'[v] = job[v]
      /\ pc[w] = "select" /\ pc'[w] = "batch" /\ left[w] = {}
  BY WorkerNames DEF Take, TypeInv, TypeOK, Counted, NothingLeft, serverVars, historyVars
<1>1. Bounded'
  BY <1>0 DEF Counted, Bounded, Limit
<1>2. DueUntouched' /\ Exclusive'
  <2>1. \A r \in Ids, k \in Metrics : Due(r, k)' => Due(r, k)
    BY <1>0 DEF Due
  <2> QED BY <1>0, <2>1 DEF Counted, DueUntouched, Exclusive, Untouched, Single, Batch
<1>3. NothingLeft'
  BY <1>0 DEF Counted, NothingLeft
<1>4. FreshUntouched'
  BY <1>0, FreshBefore DEF Counted, FreshUntouched, Unasked, Unstored
<1>5. AnswersKnown'
  BY <1>0 DEF Counted, AnswersKnown, Answered, Untouched, Single, Batch
<1>6. SentSettled'
  BY <1>0 DEF Counted, SentSettled, Unasked, Single, Batch
<1> QED BY <1>1, <1>2, <1>3, <1>4, <1>5, <1>6 DEF Counted

LEMMA PausesCounted ==
  ASSUME TypeInv, Owned, Counted, [Next]_vars, NEW w \in Workers,
         MetricResponse(w) \/ WorkerStops(w)
  PROVE  Counted'
<1>0. /\ UNCHANGED <<job, left, net, executed, ambiguous, told>>
      /\ \A v \in Workers : v # w => pc'[v] = pc[v] /\ response'[v] = response[v]
      /\ \/ pc[w] = "waitSingle" /\ pc'[w] = "single"
         \/ pc[w] = "select" /\ pc'[w] = "stopped"
  BY WorkerNames DEF MetricResponse, WorkerStops, StopLoop, Forget, TypeInv, TypeOK, serverVars,
                     historyVars, workerVars
<1>1. Bounded'
  BY <1>0 DEF Counted, Bounded, Limit
<1>2. DueUntouched' /\ Exclusive'
  BY <1>0 DEF Counted, DueUntouched, Exclusive, Due, Untouched, Single, Batch
<1>3. NothingLeft'
  BY <1>0 DEF Counted, NothingLeft
<1>4. FreshUntouched'
  BY <1>0, FreshBefore DEF Counted, FreshUntouched, Unasked, Unstored
<1>5. AnswersKnown'
  BY <1>0 DEF Counted, AnswersKnown, Answered, Untouched, Single, Batch
<1>6. SentSettled'
  BY <1>0 DEF Counted, SentSettled, Unasked, Single, Batch
<1> QED BY <1>1, <1>2, <1>3, <1>4, <1>5, <1>6 DEF Counted

LEMMA FinishesCounted ==
  ASSUME TypeInv, Owned, Counted, [Next]_vars,
         NEW w \in Workers, NEW what \in Outcomes, Finishes(w, what)
  PROVE  Counted'
<1>0. /\ UNCHANGED <<executed, ambiguous>> /\ net' \subseteq net /\ GivesUp(w)
      /\ \A v \in Workers : v # w => /\ pc'[v] = pc[v] /\ job'[v] = job[v]
                                     /\ left'[v] = left[v] /\ response'[v] = response[v]
      /\ pc'[w] = "select" /\ left'[w] = {} /\ job'[w] = 0
  BY WorkerNames DEF Finishes, Finish, Forget, TypeInv, TypeOK
<1>b. job[w] \in Ids /\ job[w] # 0
  BY BusyWorker DEF Finishes, Ids
<1>1. Bounded'
  BY <1>0 DEF Counted, Bounded, Limit
<1>2. DueUntouched' /\ Exclusive'
  <2>1. \A r \in Ids, k \in Metrics : Due(r, k)' => Due(r, k)
    BY <1>0 DEF Due
  <2>2. \A q : Untouched(q) => Untouched(q)'
    BY <1>0 DEF Untouched
  <2> QED BY <1>0, <2>1, <2>2 DEF Counted, DueUntouched, Exclusive, Untouched, Single, Batch
<1>3. NothingLeft'
  BY <1>0 DEF Counted, NothingLeft
<1>4. FreshUntouched'
  BY <1>0, FreshBefore DEF Counted, FreshUntouched, Unasked, Unstored
<1>5. AnswersKnown'
  <2> SUFFICES ASSUME NEW v \in Workers, pc'[v] = "waitBatch" PROVE Answered(job[v], response[v])'
    BY DEF AnswersKnown
  <2>1. /\ v # w /\ pc[v] = "waitBatch" /\ job'[v] = job[v] /\ response'[v] = response[v]
        /\ Answered(job[v], response[v])
    BY <1>0 DEF Counted, AnswersKnown
  <2>2. job[v] \in Ids /\ job[v] # job[w]
    BY <1>b, <2>1, BusyWorker DEF Owned
  <2>3. Batch(job[v]) \in net' <=> Batch(job[v]) \in net
    BY <1>0, <2>2 DEF GivesUp, Batch
  <2> QED BY <1>0, <2>1, <2>3 DEF Answered, Batch, Single, Untouched
<1>6. SentSettled'
  <2> SUFFICES ASSUME NEW r \in Ids, told'[r] = "batchSent"
               PROVE  /\ Unasked(r)' /\ \A k \in Metrics : executed[Single(r, k)] = 0
                      /\ ~Database => executed[Batch(r)] = 1
    BY <1>0 DEF SentSettled, Single, Batch
  <2>1. CASE told[r] = "batchSent"
    BY <1>0, <2>1 DEF Counted, SentSettled, Unasked
  <2>2. CASE told[r] # "batchSent"
    <3>1. r = job[w] /\ what = "batchSent"
      BY <1>b, <2>2 DEF Finishes, Finish, TypeInv, TypeOK
    <3>2. pc[w] = "waitBatch" /\ response[w] = "ok"
      BY <3>1 DEF Finishes
    <3>3. Answered(r, "ok")
      BY <3>1, <3>2 DEF Counted, AnswersKnown
    <3>4. Unasked(r)
      <4> SUFFICES ASSUME NEW q \in net, q.report = r PROVE FALSE
        BY DEF Unasked
      <4>1. q = Batch(r) \/ \E k \in Metrics : q = Single(r, k)
        BY DEF TypeInv, TypeOK, Requests, Batch, Single
      <4> QED BY <3>3, <4>1 DEF Answered, Untouched
    <3> QED BY <1>0, <3>3, <3>4 DEF Answered, Unasked, Untouched
  <2> QED BY <2>1, <2>2
<1> QED BY <1>1, <1>2, <1>3, <1>4, <1>5, <1>6 DEF Counted

(* What the steps of one worker leave alone of the others' batches and of  *)
(* the reports that were sent.                                             *)
LEMMA OthersKeep ==
  ASSUME TypeInv, Owned, Counted, NEW w \in Workers, job[w] # 0,
         UNCHANGED <<job, executed, told>>,
         \A q \in (net \ net') \cup (net' \ net) : q.report = job[w],
         \A r \in (ambiguous' \ ambiguous) : r = job[w],
         \A v \in Workers : v # w => pc'[v] = pc[v] /\ response'[v] = response[v]
  PROVE  /\ \A v \in Workers : v # w /\ pc'[v] = "waitBatch" => Answered(job[v], response[v])'
         /\ SentSettled'
<1>1. job[w] \in Ids /\ told[job[w]] = "nothing"
  BY DEF TypeInv, TypeOK, Owned, Untold
<1>2. ASSUME NEW v \in Workers, v # w, pc'[v] = "waitBatch"
      PROVE  Answered(job[v], response[v])'
  <2>1. pc[v] = "waitBatch" /\ response'[v] = response[v] /\ Answered(job[v], response[v])
    BY <1>2 DEF Counted, AnswersKnown
  <2>2. job[v] # job[w]
    BY <1>2 DEF Owned
  <2>3. \A k : [report |-> job[v], kind |-> k] \in net' <=> [report |-> job[v], kind |-> k] \in net
    BY <2>2
  <2>4. job[v] \in ambiguous' => job[v] \in ambiguous
    BY <2>2
  <2> QED BY <2>1, <2>3, <2>4 DEF Answered, Batch, Single, Untouched
<1>3. SentSettled'
  <2> SUFFICES ASSUME NEW r \in Ids, told[r] = "batchSent"
               PROVE  /\ Unasked(r)' /\ \A k \in Metrics : executed[Single(r, k)] = 0
                      /\ ~Database => executed[Batch(r)] = 1
    BY DEF SentSettled, Single, Batch
  <2>1. r # job[w]
    BY <1>1
  <2> QED BY <2>1 DEF Counted, SentSettled, Unasked
<1> QED BY <1>2, <1>3

(* What belongs to reports that no step of the worker is about stays.      *)
LEMMA FreshKept ==
  ASSUME TypeInv, TypeInv', Owned, Owned', Counted, [Next]_vars,
         NEW w \in Workers, job[w] # 0, pc'[w] # "batch", UNCHANGED <<job, executed>>,
         \A q \in net' \ net : q.report = job[w],
         \A r \in (ambiguous' \ ambiguous) : r = job[w]
  PROVE  FreshUntouched'
<1> SUFFICES ASSUME NEW r \in Ids, Fresh(r)'
             PROVE  Unasked(r)' /\ r \notin ambiguous' /\ Unstored(r)
  BY DEF FreshUntouched, Unstored
<1>1. Fresh(r)
  BY FreshBefore
<1>2. r # job[w]
  <2>1. job[w] \in Ids /\ job[w] <= Len(reports') /\ Len(reports') \in Nat
    BY BoundsAssumption DEF TypeInv, TypeOK, Owned, Ahead
  <2>2. ~InQueue(job[w])' /\ ~InHand(job[w])'
    BY <2>1 DEF Owned, Ahead, InQueue, InHand, Ids
  <2>3. \A v \in Workers : job'[v] = job[w] => v = w
    BY DEF Owned
  <2> QED BY <2>1, <2>2, <2>3 DEF Fresh, InQueue, InHand, Ids
<1> QED BY <1>1, <1>2 DEF Counted, FreshUntouched, Unasked

LEMMA PostsBatchCounted ==
  ASSUME TypeInv, TypeInv', Owned, Owned', Counted, [Next]_vars, NEW w \in Workers, PostsBatch(w)
  PROVE  Counted'
<1>b. job[w] \in Ids /\ job[w] # 0
  BY BusyWorker DEF PostsBatch, Ids
<1>0. /\ UNCHANGED <<job, left, executed, ambiguous, told, response>>
      /\ net' = net \cup {Batch(job[w])}
      /\ \A v \in Workers : v # w => pc'[v] = pc[v]
      /\ pc[w] = "batch" /\ pc'[w] = "waitBatch" /\ left[w] = {} /\ response[w] = "none"
  BY WorkerNames DEF PostsBatch, Post, Batch, TypeInv, TypeOK, Waiting, Counted, NothingLeft,
                     historyVars
<1>1. Unasked(job[w]) /\ job[w] \notin ambiguous /\ Unstored(job[w])
  BY <1>0, <1>b DEF Counted, FreshUntouched, Fresh
<1>2. Bounded'
  <2>1. Batch(job[w]) \in Requests /\ executed[Batch(job[w])] = 0
    BY <1>1, <1>b DEF Unstored, Batch, Requests
  <2>2. Limit(Batch(job[w])) > 0
    BY DEF Limit, Batch
  <2> QED BY <1>0, <2>1, <2>2 DEF Counted, Bounded, Limit
<1>3. \A k \in Metrics : Untouched(Single(job[w], k))' /\ ~Due(job[w], k)'
  <2> SUFFICES ASSUME NEW k \in Metrics
               PROVE  Untouched(Single(job[w], k))' /\ ~Due(job[w], k)'
    OBVIOUS
  <2>1. Single(job[w], k) # Batch(job[w]) /\ Single(job[w], k) \in Requests
    BY <1>b DEF Single, Batch, Metrics, Requests
  <2>2. Untouched(Single(job[w], k))'
    BY <1>0, <1>1, <2>1 DEF Untouched, Unasked, Unstored, Single
  <2>3. ~Due(job[w], k)'
    BY <1>0, <1>b DEF Due, Owned
  <2> QED BY <2>2, <2>3
<1>4. \A r \in Ids : r # job[w] => /\ Untouched(Batch(r)) => Untouched(Batch(r))'
                                  /\ \A k \in Metrics : /\ Due(r, k)' => Due(r, k)
                                                        /\ Untouched(Single(r, k))
                                                             => Untouched(Single(r, k))'
  BY <1>0 DEF Untouched, Due, Single, Batch
<1>5. DueUntouched'
  <2> SUFFICES ASSUME NEW r \in Ids, NEW k \in Metrics, Due(r, k)'
               PROVE  Untouched(Single(r, k))'
    BY DEF DueUntouched
  <2>1. r # job[w]
    <3> SUFFICES ASSUME r = job[w] PROVE FALSE
      OBVIOUS
    <3>1. Due(job[w], k)' <=> Due(r, k)'
      BY <1>0 DEF Due
    <3> QED BY <1>3, <3>1
  <2>2. Untouched(Single(r, k))
    BY <1>4, <2>1 DEF Counted, DueUntouched
  <2> QED BY <1>4, <2>1, <2>2
<1>6. Exclusive'
  BY <1>0, <1>3, <1>4 DEF Counted, Exclusive
<1>7. NothingLeft'
  BY <1>0 DEF Counted, NothingLeft
<1>8. FreshUntouched'
  BY <1>0, <1>b, FreshKept DEF Batch
<1>9. AnswersKnown' /\ SentSettled'
  <2>1. /\ \A v \in Workers : v # w /\ pc'[v] = "waitBatch" => Answered(job[v], response[v])'
        /\ SentSettled'
    BY <1>0, <1>b, OthersKeep DEF Batch
  <2>2. Answered(job[w], response[w])'
    BY <1>0, <1>1, <1>3 DEF Answered, Batch
  <2> QED BY <2>1, <2>2 DEF AnswersKnown
<1> QED BY <1>2, <1>5, <1>6, <1>7, <1>8, <1>9 DEF Counted

LEMMA SendMetricCounted ==
  ASSUME TypeInv, TypeInv', Owned, Owned', Counted, [Next]_vars, NEW w \in Workers, SendMetric(w)
  PROVE  Counted'
<1>b. job[w] \in Ids /\ job[w] # 0
  BY BusyWorker DEF SendMetric, Ids
<1> PICK m \in left[w] : Post(w, m) /\ left' = [left EXCEPT ![w] = @ \ {m}]
  BY DEF SendMetric
<1> DEFINE q == Single(job[w], m)
<1>0. /\ UNCHANGED <<job, executed, ambiguous, told, response>>
      /\ net' = net \cup {q} /\ m \in Metrics
      /\ \A v \in Workers : v # w => pc'[v] = pc[v] /\ left'[v] = left[v]
      /\ pc'[w] = "waitSingle" /\ left'[w] = left[w] \ {m}
  BY WorkerNames DEF SendMetric, Post, Single, TypeInv, TypeOK, historyVars
<1>1. Due(job[w], m) /\ executed[q] = 0 /\ q \in Requests /\ q.report = job[w]
  BY <1>0, <1>b DEF Due, Counted, DueUntouched, Untouched, Single, Requests
<1>2. Bounded'
  <2>1. Limit(q) > 0
    BY RetriesAssumption DEF Limit
  <2> QED BY <1>0, <1>1, <2>1 DEF Counted, Bounded, Limit
<1>3. \A r \in Ids : Untouched(Batch(r)) => Untouched(Batch(r))'
  BY <1>0 DEF Untouched, Single, Batch, Metrics
<1>4. \A r \in Ids, k \in Metrics :
        /\ Due(r, k)' => Due(r, k) /\ ~(r = job[w] /\ k = m)
        /\ ~(r = job[w] /\ k = m) /\ Untouched(Single(r, k)) => Untouched(Single(r, k))'
  <2> SUFFICES ASSUME NEW r \in Ids, NEW k \in Metrics
               PROVE  /\ Due(r, k)' => Due(r, k) /\ ~(r = job[w] /\ k = m)
                      /\ ~(r = job[w] /\ k = m) /\ Untouched(Single(r, k))
                           => Untouched(Single(r, k))'
    OBVIOUS
  <2>1. Due(r, k)' => Due(r, k) /\ ~(r = job[w] /\ k = m)
    BY <1>0, <1>b DEF Due, Owned
  <2>2. ~(r = job[w] /\ k = m) => Single(r, k) # q
    BY DEF Single
  <2> QED BY <1>0, <2>1, <2>2 DEF Untouched, Single
<1> HIDE DEF q
<1>5. DueUntouched'
  <2> SUFFICES ASSUME NEW r \in Ids, NEW k \in Metrics, Due(r, k)'
               PROVE  Untouched(Single(r, k))'
    BY DEF DueUntouched
  <2>1. Due(r, k) /\ ~(r = job[w] /\ k = m)
    BY <1>4
  <2>2. Untouched(Single(r, k))
    BY <2>1 DEF Counted, DueUntouched
  <2> QED BY <1>4, <2>1, <2>2
<1>6. Exclusive'
  <2> SUFFICES ASSUME NEW r \in Ids, NEW k \in Metrics
               PROVE  \/ r \in ambiguous \/ Untouched(Batch(r))'
                      \/ Untouched(Single(r, k))' /\ ~Due(r, k)'
    BY <1>0 DEF Exclusive
  <2> QED BY <1>1, <1>3, <1>4 DEF Counted, Exclusive
<1>7. NothingLeft'
  BY <1>0 DEF Counted, NothingLeft
<1>8. FreshUntouched'
  BY <1>0, <1>1, <1>b, FreshKept
<1>9. AnswersKnown' /\ SentSettled'
  BY <1>0, <1>1, <1>b, OthersKeep DEF AnswersKnown
<1> QED BY <1>2, <1>5, <1>6, <1>7, <1>8, <1>9 DEF Counted

LEMMA FallsBackCounted ==
  ASSUME TypeInv, TypeInv', Owned, Owned', Counted, [Next]_vars, NEW w \in Workers, FallsBack(w)
  PROVE  Counted'
<1>b. job[w] \in Ids /\ job[w] # 0
  BY BusyWorker DEF FallsBack, Ids
<1>0. /\ UNCHANGED <<job, executed, told>>
      /\ net' \subseteq net /\ \A q \in net \ net' : q.report = job[w]
      /\ ambiguous \subseteq ambiguous' /\ ambiguous' \subseteq ambiguous \cup {job[w]}
      /\ \A v \in Workers : v # w => /\ pc'[v] = pc[v] /\ left'[v] = left[v]
                                     /\ response'[v] = response[v]
      /\ pc'[w] = "single"
  <2>1. /\ UNCHANGED <<job, executed, told>>
        /\ net' \subseteq net /\ \A q \in net \ net' : q.report = job[w]
        /\ ambiguous \subseteq ambiguous' /\ ambiguous' \subseteq ambiguous \cup {job[w]}
    BY DEF FallsBack, GivesUp
  <2>2. /\ \A v \in Workers : v # w => /\ pc'[v] = pc[v] /\ left'[v] = left[v]
                                       /\ response'[v] = response[v]
        /\ pc'[w] = "single"
    BY WorkerNames DEF FallsBack, FallBack, Forget, TypeInv, TypeOK
  <2> QED BY <2>1, <2>2
<1>1. \A k \in Metrics : Untouched(Single(job[w], k))
  <2>1. CASE pc[w] = "batch"
    <3>1. Unasked(job[w]) /\ Unstored(job[w])
      BY <1>b, <2>1 DEF Counted, FreshUntouched, Fresh
    <3> QED BY <1>b, <3>1 DEF Unasked, Unstored, Untouched, Single, Requests
  <2>2. CASE pc[w] = "waitBatch"
    BY <2>2 DEF Counted, AnswersKnown, Answered
  <2> QED BY <2>1, <2>2 DEF FallsBack
<1>2. job[w] \in ambiguous' \/ Untouched(Batch(job[w]))
  <2>1. CASE pc[w] = "batch"
    <3>1. Unasked(job[w]) /\ Unstored(job[w])
      BY <1>b, <2>1 DEF Counted, FreshUntouched, Fresh
    <3> QED BY <1>b, <3>1 DEF Unasked, Unstored, Untouched, Batch, Requests
  <2>2. CASE pc[w] = "waitBatch" /\ response[w] = "refused"
    BY <2>2 DEF Counted, AnswersKnown, Answered, Untouched
  <2> QED BY <2>1, <2>2 DEF FallsBack
<1>3. \A q : Untouched(q) => Untouched(q)'
  BY <1>0 DEF Untouched
<1>4. \A r \in Ids, k \in Metrics : r # job[w] /\ Due(r, k)' => Due(r, k)
  BY <1>0 DEF Due
<1>5. Bounded'
  BY <1>0 DEF Counted, Bounded, Limit
<1>6. DueUntouched'
  <2> SUFFICES ASSUME NEW r \in Ids, NEW k \in Metrics, Due(r, k)'
               PROVE  Untouched(Single(r, k))'
    BY DEF DueUntouched
  <2>1. Untouched(Single(r, k))
    BY <1>1, <1>4 DEF Counted, DueUntouched
  <2> QED BY <1>0, <2>1 DEF Untouched
<1>7. Exclusive'
  <2> SUFFICES ASSUME NEW r \in Ids, NEW k \in Metrics, r \notin ambiguous'
               PROVE  \/ Untouched(Batch(r))'
                      \/ Untouched(Single(r, k))' /\ ~Due(r, k)'
    BY DEF Exclusive
  <2>1. \/ Untouched(Batch(r))
        \/ Untouched(Single(r, k)) /\ ~Due(r, k) /\ r # job[w]
    <3>1. CASE r = job[w]
      BY <1>2, <3>1
    <3>2. CASE r # job[w]
      <4>1. r \notin ambiguous
        BY <1>0
      <4> QED BY <3>2, <4>1 DEF Counted, Exclusive
    <3> QED BY <3>1, <3>2
  <2>2. Untouched(Batch(r)) => Untouched(Batch(r))'
    BY <1>0 DEF Untouched, Batch
  <2>3. Untouched(Single(r, k)) => Untouched(Single(r, k))'
    BY <1>0 DEF Untouched, Single
  <2> QED BY <1>4, <2>1, <2>2, <2>3
<1>8. NothingLeft'
  BY <1>0 DEF Counted, NothingLeft
<1>9. FreshUntouched'
  BY <1>0, <1>b, FreshKept
<1>10. AnswersKnown' /\ SentSettled'
  BY <1>0, <1>b, OthersKeep DEF AnswersKnown
<1> QED BY <1>5, <1>6, <1>7, <1>8, <1>9, <1>10 DEF Counted

(* The batch of a worker that waits for it, when the server is done.       *)
LEMMA ServedBatch ==
  ASSUME TypeInv, Counted, NEW w \in Workers, pc[w] = "waitBatch", Batch(job[w]) \in net,
         Responds(Batch(job[w])) \/ Retry(Batch(job[w]))
  PROVE  Answered(job[w], response[w])'
<1> DEFINE q == Batch(job[w])
<1>1. job[w] \in Ids /\ q \in Requests /\ request[w] = q /\ q.kind = "batch"
  BY BusyWorker DEF TypeInv, Waiting, Batch, Requests
<1>2. executed[q] = 0 /\ executed \in [Requests -> Nat]
  BY <1>1 DEF Counted, Bounded, Limit, TypeInv, TypeOK
<1>3. /\ \A k \in Metrics : Single(job[w], k) # q /\ Untouched(Single(job[w], k))
      /\ job[w] \notin ambiguous
  BY DEF Counted, AnswersKnown, Answered, Single, Batch, Metrics
<1>4. UNCHANGED <<job, ambiguous>> /\ net' \subseteq net
      /\ \A p \in Requests : p # q => executed'[p] = executed[p]
  BY <1>1, <1>2, ServerOutcomes DEF ServerMoves, historyVars
<1>5. /\ q \notin net' /\ response'[w] \in {"ok", "refused"}
      /\ response'[w] = "refused" => executed'[q] = 0
      /\ response'[w] = "ok" /\ ~Database => executed'[q] = 1
  BY <1>1, <1>2, ServerOutcomes DEF Answers
<1>6. \A k \in Metrics : Untouched(Single(job[w], k))'
  <2> SUFFICES ASSUME NEW k \in Metrics PROVE Untouched(Single(job[w], k))'
    OBVIOUS
  <2>1. Single(job[w], k) \in Requests /\ Single(job[w], k) # q
    BY <1>1, <1>3 DEF Single, Requests
  <2> QED BY <1>3, <1>4, <2>1 DEF Untouched, Single
<1>7. /\ Batch(job[w])' = q /\ (job[w] \in ambiguous)' = (job[w] \in ambiguous)
  BY <1>4 DEF Batch
<1> HIDE DEF q
<1>8. (job[w] \notin ambiguous)' /\ (\A k \in Metrics : Untouched(Single(job[w], k)))'
  BY <1>3, <1>4, <1>6
<1>9. (Batch(job[w]) \in net)' <=> response'[w] = "none"
  BY <1>5, <1>7
<1> QED BY <1>5, <1>7, <1>8, <1>9 DEF Answered

LEMMA ServerCounted ==
  ASSUME TypeInv, Owned, Counted, [Next]_vars, NEW q \in Requests, Responds(q) \/ Retry(q)
  PROVE  Counted'
<1>0. /\ UNCHANGED <<job, left, pc, request, ambiguous, told>>
      /\ q \in net /\ net' \subseteq net /\ \A p \in net \ net' : p = q
      /\ q.report \in Ids /\ executed \in [Requests -> Nat]
  BY ServerOutcomes DEF ServerMoves, Requests, historyVars, TypeInv, TypeOK
<1>1. \A p \in Requests : p # q => executed'[p] = executed[p]
  <2>1. executed' = [executed EXCEPT ![q] = @ + 1] \/ executed' = executed
    BY ServerOutcomes, Zenon DEF ServerMoves
  <2> QED BY <1>0, <2>1
<1>2. Bounded'
  <2> SUFFICES ASSUME NEW p \in Requests
               PROVE  executed'[p] <= Limit(p) /\ (p \in net' => executed'[p] < Limit(p))
    BY DEF Bounded, Limit
  <2>1. CASE p # q
    BY <1>0, <1>1, <2>1 DEF Counted, Bounded
  <2>2. CASE p = q
    <3>1. executed[q] < Limit(q) /\ executed[q] \in Nat
      BY <1>0 DEF Counted, Bounded
    <3>2. Limit(q) \in Nat
      BY RetriesAssumption DEF Limit
    <3>3. executed'[q] = executed[q] + 1 \/ executed'[q] = executed[q]
      <4>1. executed' = [executed EXCEPT ![q] = @ + 1] \/ executed' = executed
        BY ServerOutcomes, Zenon DEF ServerMoves
      <4> QED BY <1>0, <4>1
    <3>4. q \in net' => executed[q] + 1 < Limit(q)
      BY ServerOutcomes DEF Answers, Limit
    <3> QED BY <2>2, <3>1, <3>2, <3>3, <3>4
  <2> QED BY <2>1, <2>2
<1>3. \A p \in Requests : Untouched(p) => Untouched(p)'
  BY <1>0, <1>1 DEF Untouched
<1>4. /\ \A r \in Ids : Untouched(Batch(r)) => Untouched(Batch(r))'
      /\ \A r \in Ids, k \in Metrics : /\ Untouched(Single(r, k)) => Untouched(Single(r, k))'
                                       /\ Due(r, k)' => Due(r, k)
  <2>1. \A r \in Ids : Untouched(Batch(r)) => Untouched(Batch(r))'
    <3> SUFFICES ASSUME NEW r \in Ids, Untouched(Batch(r)) PROVE Untouched(Batch(r))'
      OBVIOUS
    <3>1. Batch(r) \in Requests
      BY DEF Batch, Requests
    <3> QED BY <1>0, <1>1, <3>1 DEF Untouched, Batch
  <2>2. \A r \in Ids, k \in Metrics : Untouched(Single(r, k)) => Untouched(Single(r, k))'
    <3> SUFFICES ASSUME NEW r \in Ids, NEW k \in Metrics, Untouched(Single(r, k))
                 PROVE  Untouched(Single(r, k))'
      OBVIOUS
    <3>1. Single(r, k) \in Requests
      BY DEF Single, Requests
    <3> QED BY <1>0, <1>1, <3>1 DEF Untouched, Single
  <2>3. \A r \in Ids, k \in Metrics : Due(r, k)' => Due(r, k)
    BY <1>0 DEF Due
  <2> QED BY <2>1, <2>2, <2>3
<1>5. DueUntouched' /\ Exclusive'
  BY <1>0, <1>4 DEF Counted, DueUntouched, Exclusive
<1>6. NothingLeft'
  BY <1>0 DEF Counted, NothingLeft
<1>7. FreshUntouched'
  BY <1>0, <1>1, FreshBefore DEF Counted, FreshUntouched, Unasked, Unstored
<1>8. AnswersKnown'
  <2> SUFFICES ASSUME NEW w \in Workers, pc'[w] = "waitBatch" PROVE Answered(job[w], response[w])'
    BY DEF AnswersKnown
  <2>1. pc[w] = "waitBatch" /\ Answered(job[w], response[w]) /\ job[w] \in Ids
        /\ request[w] = Batch(job[w])
    BY <1>0, BusyWorker DEF Counted, AnswersKnown, TypeInv, Waiting, Batch
  <2>2. CASE q = Batch(job[w])
    BY <1>0, <2>1, <2>2, ServedBatch
  <2>3. CASE q # Batch(job[w])
    <3>1. response'[w] = response[w]
      BY <2>1, <2>3, ServerOutcomes DEF Answers, TypeInv, TypeOK
    <3>2. Batch(job[w]) \in Requests /\ (Batch(job[w]) \in net' <=> Batch(job[w]) \in net)
      BY <1>0, <2>1, <2>3 DEF Batch, Requests
    <3>3. executed'[Batch(job[w])] = executed[Batch(job[w])]
      BY <1>1, <2>3, <3>2
    <3>4. UNCHANGED <<job, ambiguous>>
      BY <1>0
    <3> QED BY <1>4, <2>1, <3>1, <3>2, <3>3, <3>4 DEF Answered, Batch
  <2> QED BY <2>2, <2>3
<1>9. SentSettled'
  <2> SUFFICES ASSUME NEW r \in Ids, told[r] = "batchSent"
               PROVE  /\ Unasked(r)' /\ \A k \in Metrics : executed'[Single(r, k)] = 0
                      /\ ~Database => executed'[Batch(r)] = 1
    BY <1>0 DEF SentSettled, Single, Batch
  <2>1. /\ Unasked(r) /\ \A k \in Metrics : executed[Single(r, k)] = 0
        /\ ~Database => executed[Batch(r)] = 1
    BY DEF Counted, SentSettled
  <2>2. r # q.report
    BY <1>0, <2>1 DEF Unasked
  <2>3. /\ Batch(r) \in Requests /\ Batch(r) # q
        /\ \A k \in Metrics : Single(r, k) \in Requests /\ Single(r, k) # q
    BY <2>2 DEF Batch, Single, Requests
  <2> QED BY <1>0, <1>1, <2>1, <2>3 DEF Unasked
<1> QED BY <1>2, <1>5, <1>6, <1>7, <1>8, <1>9 DEF Counted

LEMMA CountedInvariant == Spec => []Counted
<1>1. Init => Counted
  <2> SUFFICES ASSUME Init PROVE Counted
    OBVIOUS
  <2>1. /\ net = {} /\ ambiguous = {}
        /\ \A q \in Requests : executed[q] = 0
        /\ \A r \in Ids : told[r] = "nothing"
        /\ \A w \in Workers : left[w] = {} /\ pc[w] = "select"
    BY WorkerNames DEF Init
  <2>2. \A r \in Ids, k \in Metrics : Untouched(Single(r, k)) /\ Untouched(Batch(r)) /\ ~Due(r, k)
    BY <2>1 DEF Untouched, Single, Batch, Requests, Due
  <2>3. Bounded
    BY <2>1, RetriesAssumption DEF Bounded, Limit
  <2> QED BY <2>1, <2>2, <2>3 DEF Counted, DueUntouched, Exclusive, NothingLeft, FreshUntouched,
                                  Unasked, Unstored, AnswersKnown, SentSettled
<1>2. TypeInv /\ TypeInv' /\ Owned /\ Owned' /\ Counted /\ [Next]_vars => Counted'
  BY StepKinds, ElsewhereCounted, TakeCounted, PausesCounted, PostsBatchCounted,
     SendMetricCounted, FallsBackCounted, FinishesCounted, ServerCounted
<1> QED BY <1>1, <1>2, OwnedInvariant, TypeInvariant, PTL DEF Spec

(* Whatever gets lost, late or refused, and whether the server keeps its   *)
(* metrics in memory or in a database whose answers come late, the server  *)
(* executes no request of the agent more often than it repeats it by       *)
(* itself, and never a batch and a metric of it unless the agent has given *)
(* the batch up without an answer (worker, main.go:34-50, against          *)
(* db_storage.go:85-95 and 255-288).                                       *)
THEOREM AtMostOnceCorrect == Spec => []AtMostOnce
<1>1. TypeInv /\ Counted => AtMostOnce
  <2> SUFFICES ASSUME TypeInv, Counted PROVE AtMostOnce
    OBVIOUS
  <2>1. \A q \in Requests : executed[q] <= Limit(q)
    BY DEF Counted, Bounded
  <2>2. ASSUME NEW r \in Ids, NEW k \in Metrics,
               executed[Batch(r)] > 0, executed[Single(r, k)] > 0
        PROVE  r \in ambiguous
    <3>1. r \in ambiguous \/ executed[Batch(r)] = 0 \/ executed[Single(r, k)] = 0
      BY DEF Counted, Exclusive, Untouched
    <3> QED BY <2>2, <3>1
  <2> QED BY <2>1, <2>2 DEF AtMostOnce
<1> QED BY <1>1, CountedInvariant, TypeInvariant, PTL

(* A batch that the agent logs as sent settles its report: nothing of it is*)
(* stored by another request, and a server that keeps its metrics in memory*)
(* has stored the batch exactly once (main.go:49, against                  *)
(* db_storage.go:217-223).                                                 *)
THEOREM BatchSentCorrect == Spec => []BatchSentIsSettled
<1>1. Counted => BatchSentIsSettled
  BY DEF Counted, SentSettled, BatchSentIsSettled
<1> QED BY <1>1, CountedInvariant, PTL
================================================================================
