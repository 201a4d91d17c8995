------------------------------- MODULE DBStorage -------------------------------
(***************************************************************************)
(* The PostgreSQL storage under the handlers of the server: statements that*)
(* commit by themselves, batches in a transaction, the loop that repeats an*)
(* operation, and what the handlers make of its errors.                    *)
(*                                                                         *)
(* The database is modelled as these statements need it: a transaction     *)
(* keeps a row it has written locked until it ends, a statement on a locked*)
(* row waits, a cycle of waiting transactions loses one of them, and an    *)
(* answer may be lost after, or before, the statement took effect.         *)
(***************************************************************************)
EXTENDS Integers, FiniteSets, SequencesExt

CONSTANTS
  Handlers,         \* goroutines that serve one request at a time
  Gauges, Counters, \* the rows of the two tables
  MaxBigint,        \* the largest value of a BIGINT column
  Calls,            \* requests that reach the storage, see CallsAssumption
  maxRetries,       \* attempts that retryOperation makes: 4
  Recognised,       \* the driver's server errors are the *pgconn.PgError that
                    \* isRetriableError looks for: not with pgx/v5, which main imports
  Faults,           \* statements may fail and answers may get lost
  Free, Absent, Nil \* no lock holder, no row, no error

Rows   == Gauges \cup Counters
Values == 0 .. MaxBigint
Items  == [row: Rows, value: Values]
Tables == [Rows -> Values \cup {Absent}]

ASSUME RowsAssumption    == Gauges \cap Counters = {}
ASSUME MarksAssumption   == Free \notin Handlers /\ Absent \notin Values
ASSUME LimitsAssumption  == MaxBigint \in Nat /\ maxRetries \in Nat \ {0}
ASSUME FlagsAssumption   == {Recognised, Faults} \subseteq BOOLEAN

(* A batch holds what is left of it when the elements without a value are  *)
(* skipped; it may write a row twice.                                      *)
ASSUME CallsAssumption ==
  /\ Calls \subseteq [op: {"update", "updateJSON", "get", "getAll", "batch"},
                      items: Seq(Items)]
  /\ \A c \in Calls : c.op \in {"update", "updateJSON", "get"} => Len(c.items) = 1

NoCall == [op |-> "none", items |-> << >>]

VARIABLES
  rows,     \* the committed tables
  locks,    \* which transaction has written a row and not ended
  pc,       \* where each handler is
  call, idx,\* its request, and its position in a batch
  tries,    \* the attempt of retryOperation it is in
  err,      \* the error that the update, the batch or the read returned
  ans,      \* the rows it has read for the response
  applied   \* history: how often its request has changed the tables

vars == <<rows, locks, pc, call, idx, tries, err, ans, applied>>

(* "timeout" is a net.Error with Timeout(), "broken" any other loss of the *)
(* connection, "failing" what a server reports that fails or shuts down,   *)
(* "refused" a statement that it cannot execute.                           *)
Errors == {"noRows", "deadlock", "failing", "timeout", "broken", "refused"}
ASSUME ErrorsAssumption == Nil \notin Errors

TypeOK ==
  /\ rows \in Tables
  /\ locks \in [Rows -> Handlers \cup {Free}]
  /\ pc \in [Handlers -> {"idle", "stmt", "begin", "exec", "query", "gauges", "counters",
                          "reply"}]
  /\ call \in [Handlers -> Calls \cup {NoCall}]
  /\ idx \in [Handlers -> Nat]
  /\ tries \in [Handlers -> 1 .. maxRetries]
  /\ err \in [Handlers -> Errors \cup {Nil}]
  /\ ans \in [Handlers -> Tables]
  /\ applied \in [Handlers -> 0 .. maxRetries]

NoRows == [r \in Rows |-> Absent]

Init ==
  /\ rows = NoRows
  /\ locks = [r \in Rows |-> Free]
  /\ pc = [h \in Handlers |-> "idle"]
  /\ call = [h \in Handlers |-> NoCall]
  /\ idx = [h \in Handlers |-> 1]
  /\ tries = [h \in Handlers |-> 1]
  /\ err = [h \in Handlers |-> Nil]
  /\ ans = [h \in Handlers |-> NoRows]
  /\ applied = [h \in Handlers |-> 0]

--------------------------------------------------------------------------------
(* SQL *)

(* INSERT ... ON CONFLICT DO UPDATE.                                       *)
Upsert(table, item) ==
  [table EXCEPT ![item.row] =
     IF item.row \in Counters /\ @ # Absent THEN @ + item.value ELSE item.value]

(* BIGINT does not wrap around: the statement fails.                       *)
Fits(table, item) == Upsert(table, item)[item.row] <= MaxBigint

Item(h)    == call[h].items[idx[h]]
Written(h) == FoldLeft(Upsert, rows, SubSeq(call[h].items, 1, idx[h] - 1))

Available(r, h) == locks[r] \in {Free, h}
Unlocked(h)     == [r \in Rows |-> IF locks[r] = h THEN Free ELSE locks[r]]

Waiting(h) == pc[h] = "exec" /\ idx[h] <= Len(call[h].items) /\ ~Available(Item(h).row, h)

(* A cycle: each of them waits for one of them, and is waited for.         *)
Deadlocked(h) ==
  \E S \in SUBSET {g \in Handlers : Waiting(g)} :
    h \in S /\ {locks[Item(g).row] : g \in S} = S

--------------------------------------------------------------------------------
(* retryOperation *)

(* "deadlock" and "failing" stand for the codes of lines 300 to 308.       *)
(* ErrConnDone comes from an sql.Conn only, which the storage does not use.*)
Retriable(e) == e = "timeout" \/ (Recognised /\ e \in {"deadlock", "failing"})

(* HandleUpdateMetricJSON reads the metric back whatever became of it.     *)
Return(h, e) ==
  /\ pc' = [pc EXCEPT ![h] = IF @ = "stmt" /\ call[h].op = "updateJSON" THEN "query" ELSE "reply"]
  /\ err' = IF pc[h] = "query" /\ call[h].op = "updateJSON" THEN err ELSE [err EXCEPT ![h] = e]
  /\ tries' = [tries EXCEPT ![h] = 1]

(* A bug: there is no last attempt. *)
EndlessFailed(h, e, place) ==
  IF Retriable(e)
  THEN /\ tries' = [tries EXCEPT ![h] = @ + 1]
       /\ pc' = [pc EXCEPT ![h] = place]
       /\ UNCHANGED err
  ELSE Return(h, e)

(* A bug: nil is returned after the last attempt. *)
ForgivingFailed(h, e, place) ==
  IF Retriable(e) /\ tries[h] < maxRetries
  THEN /\ tries' = [tries EXCEPT ![h] = @ + 1]
       /\ pc' = [pc EXCEPT ![h] = place]
       /\ UNCHANGED err
  ELSE Return(h, IF Retriable(e) THEN Nil ELSE e)

(* The operation returned e: it starts again at place, after a sleep, or   *)
(* its error goes to the caller.                                           *)
Failed(h, e, place) ==
  IF Retriable(e) /\ tries[h] < maxRetries
  THEN /\ tries' = [tries EXCEPT ![h] = @ + 1]
       /\ pc' = [pc EXCEPT ![h] = place]
       /\ UNCHANGED err
  ELSE Return(h, e)

Lost == {"failing", "timeout", "broken"}

--------------------------------------------------------------------------------
(* Handlers *)

Start(op) == CASE op \in {"update", "updateJSON"} -> "stmt"
               [] op = "batch"                    -> "begin"
               [] op = "get"                      -> "query"
               [] op = "getAll"                   -> "gauges"

Request(h) ==
  /\ pc[h] = "idle"
  /\ \E c \in Calls :
       /\ call' = [call EXCEPT ![h] = c]
       /\ pc' = [pc EXCEPT ![h] = Start(c.op)]
  /\ applied' = [applied EXCEPT ![h] = 0]
  /\ UNCHANGED <<rows, locks, idx, tries, err, ans>>

(* The handler is done, or net/http recovers its panic.                    *)
End(h) ==
  /\ pc' = [pc EXCEPT ![h] = "idle"]
  /\ call' = [call EXCEPT ![h] = NoCall]
  /\ err' = [err EXCEPT ![h] = Nil]
  /\ ans' = [ans EXCEPT ![h] = NoRows]
  /\ applied' = [applied EXCEPT ![h] = 0]
  /\ UNCHANGED <<rows, locks, idx, tries>>

Reply(h) == pc[h] = "reply" /\ End(h)

(* The status of the response.  The handlers of single updates do not look *)
(* at the error, those that read a metric take any error for a missing one.*)
Status(h) ==
  CASE call[h].op = "batch" -> IF err[h] = Nil THEN "200" ELSE "500"
    [] call[h].op = "get"   -> IF err[h] = Nil THEN "200" ELSE "404"
    [] OTHER                -> "200"

--------------------------------------------------------------------------------
(* SaveGaugeMetric and SaveCounterMetric *)

Apply(h, table) ==
  /\ rows' = table
  /\ applied' = [applied EXCEPT ![h] = @ + 1]

Exec(h) ==
  /\ pc[h] = "stmt" /\ Available(Item(h).row, h)
  /\ IF Fits(rows, Item(h))
     THEN Apply(h, Upsert(rows, Item(h))) /\ Return(h, Nil)
     ELSE Failed(h, "refused", "stmt") /\ UNCHANGED <<rows, applied>>
  /\ UNCHANGED <<locks, call, idx, ans>>

(* The connection is lost, with or without the statement executed.         *)
LoseExec(h) ==
  /\ Faults /\ pc[h] = "stmt"
  /\ \/ Available(Item(h).row, h) /\ Fits(rows, Item(h)) /\ Apply(h, Upsert(rows, Item(h)))
     \/ UNCHANGED <<rows, applied>>
  /\ \E e \in Lost : Failed(h, e, "stmt")
  /\ UNCHANGED <<locks, call, idx, ans>>

--------------------------------------------------------------------------------
(* UpdateMetricsBatch *)

Begin(h) ==
  /\ pc[h] = "begin"
  /\ pc' = [pc EXCEPT ![h] = "exec"]
  /\ UNCHANGED <<rows, locks, call, idx, tries, err, ans, applied>>

LoseBegin(h) ==
  /\ Faults /\ pc[h] = "begin"
  /\ \E e \in Lost : Failed(h, e, "begin")
  /\ UNCHANGED <<rows, locks, call, idx, ans, applied>>

(* A bug: the statements are not executed in the transaction. *)
AutocommittedExecTx(h) ==
  /\ pc[h] = "exec" /\ idx[h] <= Len(call[h].items)
  /\ Available(Item(h).row, h) /\ Fits(rows, Item(h))
  /\ rows' = Upsert(rows, Item(h))
  /\ idx' = [idx EXCEPT ![h] = @ + 1]
  /\ UNCHANGED <<locks, pc, call, tries, err, ans, applied>>

ExecTx(h) ==
  /\ pc[h] = "exec" /\ idx[h] <= Len(call[h].items)
  /\ Available(Item(h).row, h) /\ Fits(Written(h), Item(h))
  /\ locks' = [locks EXCEPT ![Item(h).row] = h]
  /\ idx' = [idx EXCEPT ![h] = @ + 1]
  /\ UNCHANGED <<rows, pc, call, tries, err, ans, applied>>

(* A bug: the transaction is left open. *)
LeakingRollback(h, e) ==
  /\ idx' = [idx EXCEPT ![h] = 1]
  /\ Failed(h, e, "begin")
  /\ UNCHANGED <<rows, locks, call, ans, applied>>

(* The deferred function ends the transaction, then the error goes to      *)
(* retryOperation.                                                         *)
Rollback(h, e) ==
  /\ locks' = Unlocked(h)
  /\ idx' = [idx EXCEPT ![h] = 1]
  /\ Failed(h, e, "begin")
  /\ UNCHANGED <<rows, call, ans, applied>>

(* The server refuses a statement, or chooses this transaction to break a  *)
(* deadlock.                                                               *)
Abort(h) ==
  /\ pc[h] = "exec" /\ idx[h] <= Len(call[h].items)
  /\ \/ Available(Item(h).row, h) /\ ~Fits(Written(h), Item(h)) /\ Rollback(h, "refused")
     \/ Deadlocked(h) /\ Rollback(h, "deadlock")

LoseTx(h) ==
  /\ Faults /\ pc[h] = "exec" /\ idx[h] <= Len(call[h].items)
  /\ \E e \in Lost : Rollback(h, e)

(* A bug that a repair may bring: the error of Commit reaches the loop. *)
RetriedLoseCommit(h) ==
  /\ Faults /\ pc[h] = "exec" /\ idx[h] > Len(call[h].items)
  /\ Apply(h, Written(h)) \/ UNCHANGED <<rows, applied>>
  /\ locks' = Unlocked(h)
  /\ idx' = [idx EXCEPT ![h] = 1]
  /\ \E e \in Lost : Failed(h, e, "begin")
  /\ UNCHANGED <<call, ans>>

Commit(h) ==
  /\ pc[h] = "exec" /\ idx[h] > Len(call[h].items)
  /\ Apply(h, Written(h))
  /\ locks' = Unlocked(h)
  /\ idx' = [idx EXCEPT ![h] = 1]
  /\ Return(h, Nil)
  /\ UNCHANGED <<call, ans>>

(* The deferred function assigns the error of Commit to err when the       *)
(* return value, nil, has been set: nobody sees it.                        *)
LoseCommit(h) ==
  /\ Faults /\ pc[h] = "exec" /\ idx[h] > Len(call[h].items)
  /\ Apply(h, Written(h)) \/ UNCHANGED <<rows, applied>>
  /\ locks' = Unlocked(h)
  /\ idx' = [idx EXCEPT ![h] = 1]
  /\ Return(h, Nil)
  /\ UNCHANGED <<call, ans>>

--------------------------------------------------------------------------------
(* GetGaugeMetric, GetCounterMetric and GetAllMetrics *)

Query(h) ==
  /\ pc[h] = "query"
  /\ IF rows[Item(h).row] = Absent
     THEN Failed(h, "noRows", "query") /\ UNCHANGED ans
     ELSE Return(h, Nil) /\ ans' = [ans EXCEPT ![h][Item(h).row] = rows[Item(h).row]]
  /\ UNCHANGED <<rows, locks, call, idx, applied>>

LoseQuery(h) ==
  /\ Faults /\ pc[h] = "query"
  /\ \E e \in Lost : Failed(h, e, "query")
  /\ UNCHANGED <<rows, locks, call, idx, ans, applied>>

Listed(h, table) == [r \in Rows |-> IF r \in table THEN rows[r] ELSE ans[h][r]]

(* Two statements, two snapshots.                                          *)
List(h) ==
  /\ \/ /\ pc[h] = "gauges"
        /\ ans' = [ans EXCEPT ![h] = Listed(h, Gauges)]
        /\ pc' = [pc EXCEPT ![h] = "counters"]
     \/ /\ pc[h] = "counters"
        /\ ans' = [ans EXCEPT ![h] = Listed(h, Counters)]
        /\ pc' = [pc EXCEPT ![h] = "reply"]
  /\ UNCHANGED <<rows, locks, call, idx, tries, err, applied>>

(* The connection is lost between two rows: the rest of the table is       *)
(* missing from the listing, which goes on.                                *)
ListPart(h) ==
  /\ Faults
  /\ \/ /\ pc[h] = "gauges"
        /\ \E part \in SUBSET Gauges : ans' = [ans EXCEPT ![h] = Listed(h, part)]
        /\ pc' = [pc EXCEPT ![h] = "counters"]
     \/ /\ pc[h] = "counters"
        /\ \E part \in SUBSET Counters : ans' = [ans EXCEPT ![h] = Listed(h, part)]
        /\ pc' = [pc EXCEPT ![h] = "reply"]
  /\ UNCHANGED <<rows, locks, call, idx, tries, err, applied>>

(* Err is called on the nil rows of a failed query: a panic.               *)
LoseList(h) == Faults /\ pc[h] \in {"gauges", "counters"} /\ End(h)

--------------------------------------------------------------------------------
Proceed(h) ==
  \/ Exec(h) \/ Begin(h) \/ ExecTx(h) \/ Abort(h) \/ Commit(h) \/ Query(h) \/ List(h)
  \/ Reply(h)

Lose(h) ==
  \/ LoseExec(h) \/ LoseBegin(h) \/ LoseTx(h) \/ LoseCommit(h) \/ LoseQuery(h) \/ LoseList(h)
  \/ ListPart(h)

Next == \E h \in Handlers : Request(h) \/ Proceed(h) \/ Lose(h)

Spec == Init /\ [][Next]_vars

(* The database answers, breaks deadlocks and hands a row lock to those who*)
(* wait for it in their order.  Nothing forces a request or a fault.       *)
Fairness ==
  \A h \in Handlers : WF_vars(Proceed(h)) /\ SF_vars(Exec(h)) /\ SF_vars(ExecTx(h))

FairSpec == Spec /\ Fairness

--------------------------------------------------------------------------------
(* Properties *)

Answered(h) == pc[h] = "reply"

(* A batch is stored at most once, however often it is tried, and not at   *)
(* all when the client is told that it failed: the agent then sends its    *)
(* metrics one by one (UpdateMetricsBatch under retryOperation).           *)
BatchOutcome ==
  \A h \in Handlers : call[h].op = "batch" =>
    /\ applied[h] <= 1
    /\ Answered(h) /\ Status(h) = "500" => applied[h] = 0

Updates(h) == call[h].op \in {"update", "updateJSON"}

(* When SaveGaugeMetric or SaveCounterMetric returns nil the metric is     *)
(* stored, and before each attempt it is stored at most as often as there  *)
(* were attempts: none stores it twice (retryOperation, lines 258-287).    *)
SavedMeansApplied ==
  \A h \in Handlers : Updates(h) =>
    /\ pc[h] \in {"query", "reply"} /\ err[h] = Nil => applied[h] >= 1
    /\ pc[h] = "stmt" => applied[h] <= tries[h] - 1

(* The tables change by whole requests only: no statement of a batch can be*)
(* seen, or survive, without the others (line 213 against line 233).       *)
ChangesAreWhole ==
  [][rows' # rows => \E h \in Handlers : rows' = FoldLeft(Upsert, rows, call[h].items)]_vars

(* Every request is answered, or its connection closed, though batches lock*)
(* the rows of each other in opposite orders, fail half-way and are tried  *)
(* again.                                                                  *)
RequestsAnswered == \A h \in Handlers : pc[h] # "idle" ~> pc[h] = "idle"

(* A batch that the client is told was stored is stored: UpdateMetricsBatch*)
(* returns an error when it failed (storage.go:29).                        *)
BatchAckedIsStored ==
  \A h \in Handlers : call[h].op = "batch" /\ Answered(h) /\ Status(h) = "200" => applied[h] >= 1

(* SaveCounterMetric increases a counter by the given delta                *)
(* (storage.go:10), so one call adds it once.                              *)
CountedOnce ==
  \A h \in Handlers : Updates(h) /\ call[h].items[1].row \in Counters => applied[h] <= 1

(* HandleUpdateMetricJSON answers with the value that was stored           *)
(* (handler.go:202), so it has been stored.                                *)
AnsweredMeansStored ==
  \A h \in Handlers : call[h].op = "updateJSON" /\ Answered(h) => applied[h] >= 1

(* All three are promised, so in every state at least one of them is kept. *)
(* A state without any breaks storage.go:10, storage.go:29 and             *)
(* handler.go:202 at once.                                                 *)
SomePromiseKept == BatchAckedIsStored \/ CountedOnce \/ AnsweredMeansStored
================================================================================
