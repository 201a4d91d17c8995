------------------------------- MODULE Collector -------------------------------
(***************************************************************************)
(* The collector of the agent: a Go map that Collect and GetMetrics use    *)
(* under a mutex and CollectSystemMetrics without it, and CollectAndStore, *)
(* which takes the mutex three times.  A write to the map has an extent:   *)
(* another goroutine may come upon it half done.                           *)
(*                                                                         *)
(* A gauge of Collect is represented by the number of the poll that read   *)
(* it; the values of CollectSystemMetrics are not told apart.              *)
(***************************************************************************)
EXTENDS Integers, FiniteSets

CONSTANTS
  Runtime,          \* the gauges of Collect
  System,           \* the gauges of CollectSystemMetrics
  Pollers,          \* goroutines that call Collect
  SystemPollers,    \* goroutines that call CollectSystemMetrics
  Reporters,        \* goroutines that call GetMetrics
  Storers,          \* goroutines that call CollectAndStore
  Free,             \* nobody holds the mutex
  MaxPolls          \* bound: calls of Collect

Goroutines == Pollers \cup SystemPollers \cup Reporters \cup Storers
Names      == Runtime \cup System \cup {"PollCount"}

ASSUME NamesAssumption == Runtime \cap (System \cup {"PollCount"}) = {}
                          /\ "PollCount" \notin System
ASSUME RolesAssumption ==
  /\ Pollers \cap (SystemPollers \cup Reporters \cup Storers) = {}
  /\ SystemPollers \cap (Reporters \cup Storers) = {}
  /\ Reporters \cap Storers = {}
  /\ Free \notin Goroutines
ASSUME FiniteAssumption == IsFiniteSet(Goroutines)
ASSUME MaxPollsAssumption == MaxPolls \in Nat

VARIABLES
  PollCount, lastPollCount, mu,
  metrics,          \* the map
  pc,               \* where each goroutine is
  todo,             \* the keys it has yet to write, to copy or to store
  key,              \* the key whose write it is in
  copy,             \* metricsCopy of GetMetrics
  store,            \* what CollectAndStore has put into its storage
  crashed,          \* the runtime has stopped the process
  raced,            \* history: two goroutines were in the map, one to write
  overtaken         \* history: a poll ended between the GetMetrics of a
                    \* CollectAndStore and its end

vars == <<PollCount, lastPollCount, mu, metrics, pc, todo, key, copy, store,
          crashed, raced, overtaken>>

Absent     == -1
Measured   == 0
NoMetrics  == [n \in Names |-> Absent]
Present(m) == {n \in Names : m[n] # Absent}

Writers == {g \in Goroutines : pc[g] = "put"}
Readers == {g \in Goroutines : pc[g] = "copy"}

TypeOK ==
  /\ PollCount \in 0 .. MaxPolls /\ lastPollCount \in 0 .. PollCount
  /\ mu \in Goroutines \cup {Free}
  /\ metrics \in [Names -> Int]
  /\ pc \in [Goroutines -> {"idle", "fill", "put", "get", "copy", "store"}]
  /\ todo \in [Goroutines -> SUBSET Names]
  /\ key \in [Goroutines -> Names]
  /\ copy \in [Goroutines -> [Names -> Int]]
  /\ store \in [Names -> Int]
  /\ {crashed, raced, overtaken} \subseteq BOOLEAN

Init ==
  /\ PollCount = 0 /\ lastPollCount = 0 /\ mu = Free
  /\ metrics = NoMetrics
  /\ pc = [g \in Goroutines |-> "idle"]
  /\ todo = [g \in Goroutines |-> {}]
  /\ key = [g \in Goroutines |-> "PollCount"]
  /\ copy = [g \in Goroutines |-> NoMetrics]
  /\ store = NoMetrics
  /\ crashed = FALSE /\ raced = FALSE /\ overtaken = FALSE

Goes(g, place, keys) ==
  /\ pc' = [pc EXCEPT ![g] = place]
  /\ todo' = [todo EXCEPT ![g] = keys]

--------------------------------------------------------------------------------
(* Collect and CollectSystemMetrics *)

(* Memory statistics are read with the mutex held.                         *)
LockCollect(g) ==
  /\ ~crashed /\ g \in Pollers \cup Storers
  /\ pc[g] = "idle" /\ mu = Free /\ PollCount < MaxPolls
  /\ mu' = g
  /\ Goes(g, "fill", Runtime \cup {"PollCount"})
  /\ UNCHANGED <<PollCount, lastPollCount, metrics, key, copy, store, crashed, raced, overtaken>>

(* Both readings of the system succeeded; there is no mutex here.          *)
MeasureSystem(g) ==
  /\ ~crashed /\ g \in SystemPollers /\ pc[g] = "idle"
  /\ Goes(g, "fill", System)
  /\ UNCHANGED <<PollCount, lastPollCount, mu, metrics, key, copy, store, crashed, raced,
                 overtaken>>

(* The write of one key begins.  Keys come in any order, PollCount last,   *)
(* right after the increment.                                              *)
StartPut(g) ==
  /\ ~crashed /\ pc[g] = "fill"
  /\ \E k \in todo[g] :
       /\ k = "PollCount" => todo[g] = {k}
       /\ key' = [key EXCEPT ![g] = k]
       /\ Goes(g, "put", todo[g] \ {k})
       /\ PollCount' = IF k = "PollCount" THEN PollCount + 1 ELSE PollCount
       /\ overtaken' = (overtaken \/ (/\ k = "PollCount"
                                      /\ \E s \in Storers \ {g} : pc[s] = "store"))
  /\ raced' = (raced \/ Writers # {} \/ Readers # {})
  /\ UNCHANGED <<lastPollCount, mu, metrics, copy, store, crashed>>

Value(g) == CASE key[g] \in Runtime     -> PollCount + 1
              [] key[g] = "PollCount"   -> PollCount
              [] OTHER                  -> Measured

(* A write that was not alone in the map may be lost.                      *)
EndPut(g) ==
  /\ ~crashed /\ pc[g] = "put"
  /\ \/ metrics' = [metrics EXCEPT ![key[g]] = Value(g)]
     \/ Writers # {g} /\ UNCHANGED metrics
  /\ Goes(g, "fill", todo[g])
  /\ key' = [key EXCEPT ![g] = "PollCount"]
  /\ UNCHANGED <<PollCount, lastPollCount, mu, copy, store, crashed, raced, overtaken>>

FinishFill(g) ==
  /\ ~crashed /\ pc[g] = "fill" /\ todo[g] = {}
  /\ Goes(g, IF g \in Storers THEN "get" ELSE "idle", {})
  /\ mu' = IF g \in SystemPollers THEN mu ELSE Free
  /\ UNCHANGED <<PollCount, lastPollCount, metrics, key, copy, store, crashed, raced, overtaken>>

(* "fatal error: concurrent map writes", or "... iteration and map write": *)
(* the runtime notices the race, if it happens to look.                    *)
Throw ==
  /\ ~crashed
  /\ \E g \in Writers : (Writers \cup Readers) \ {g} # {}
  /\ crashed' = TRUE
  /\ UNCHANGED <<PollCount, lastPollCount, mu, metrics, pc, todo, key, copy, store, raced,
                 overtaken>>

--------------------------------------------------------------------------------
(* GetMetrics *)

CallsGet(g) == \/ g \in Reporters /\ pc[g] = "idle"
               \/ g \in Storers /\ pc[g] = "get"

(* A bug: the mutex is not taken. *)
UnlockedLockGet(g) ==
  /\ ~crashed
  /\ CallsGet(g)
  /\ Goes(g, "copy", Present(metrics))
  /\ UNCHANGED <<PollCount, lastPollCount, mu, metrics, key, copy, store, crashed, raced,
                 overtaken>>

LockGet(g) ==
  /\ ~crashed /\ mu = Free
  /\ CallsGet(g)
  /\ mu' = g
  /\ Goes(g, "copy", Present(metrics))
  /\ raced' = (raced \/ Writers # {})
  /\ UNCHANGED <<PollCount, lastPollCount, metrics, key, copy, store, crashed, overtaken>>

(* An iteration may or may not come upon a key that is new in the map.     *)
CopyKey(g) ==
  /\ ~crashed /\ pc[g] = "copy"
  /\ \E k \in Present(metrics) \ Present(copy[g]) :
       /\ copy' = [copy EXCEPT ![g][k] = IF k = "PollCount" THEN PollCount - lastPollCount
                                                            ELSE metrics[k]]
       /\ todo' = [todo EXCEPT ![g] = @ \ {k}]
  /\ UNCHANGED <<PollCount, lastPollCount, mu, metrics, pc, key, store, crashed, raced, overtaken>>

(* The caller of GetMetrics owns the copy; a reporter's is of no interest. *)
FinishCopy(g) ==
  /\ ~crashed /\ pc[g] = "copy" /\ todo[g] = {}
  /\ mu' = Free
  /\ IF g \in Storers
     THEN Goes(g, "store", Present(copy[g])) /\ UNCHANGED copy
     ELSE Goes(g, "idle", {}) /\ copy' = [copy EXCEPT ![g] = NoMetrics]
  /\ UNCHANGED <<PollCount, lastPollCount, metrics, key, store, crashed, raced, overtaken>>

--------------------------------------------------------------------------------
(* The rest of CollectAndStore *)

(* SaveCounterMetric adds to what is there, a missing counter being 0.     *)
Sum(old, delta) == IF old = Absent THEN delta ELSE old + delta

StoredValue(g, k) == IF k = "PollCount" THEN Sum(store[k], copy[g][k]) ELSE copy[g][k]

(* A bug: the counter is saved like a gauge. *)
GaugeStoreKey(g) ==
  /\ ~crashed /\ pc[g] = "store"
  /\ \E k \in todo[g] :
       /\ store' = [store EXCEPT ![k] = copy[g][k]]
       /\ todo' = [todo EXCEPT ![g] = @ \ {k}]
  /\ UNCHANGED <<PollCount, lastPollCount, mu, metrics, pc, key, copy, crashed, raced, overtaken>>

StoreKey(g) ==
  /\ ~crashed /\ pc[g] = "store"
  /\ \E k \in todo[g] :
       /\ store' = [store EXCEPT ![k] = StoredValue(g, k)]
       /\ todo' = [todo EXCEPT ![g] = @ \ {k}]
  /\ UNCHANGED <<PollCount, lastPollCount, mu, metrics, pc, key, copy, crashed, raced, overtaken>>

(* A bug: lastPollCount stays where it is. *)
ForgetfulMark(g) ==
  /\ ~crashed /\ pc[g] = "store" /\ todo[g] = {} /\ mu = Free
  /\ Goes(g, "idle", {})
  /\ copy' = [copy EXCEPT ![g] = NoMetrics]
  /\ UNCHANGED <<PollCount, lastPollCount, mu, metrics, key, store, crashed, raced, overtaken>>

(* A bug: PollCount starts again as well. *)
ResettingMark(g) ==
  /\ ~crashed /\ pc[g] = "store" /\ todo[g] = {} /\ mu = Free
  /\ lastPollCount' = PollCount
  /\ PollCount' = 0
  /\ Goes(g, "idle", {})
  /\ copy' = [copy EXCEPT ![g] = NoMetrics]
  /\ UNCHANGED <<mu, metrics, key, store, crashed, raced, overtaken>>

(* Nobody can tell the time between Lock and the deferred Unlock.          *)
Mark(g) ==
  /\ ~crashed /\ pc[g] = "store" /\ todo[g] = {} /\ mu = Free
  /\ lastPollCount' = PollCount
  /\ Goes(g, "idle", {})
  /\ copy' = [copy EXCEPT ![g] = NoMetrics]
  /\ UNCHANGED <<PollCount, mu, metrics, key, store, crashed, raced, overtaken>>

--------------------------------------------------------------------------------
(* A process that has crashed does nothing more. *)
Dead == crashed /\ UNCHANGED vars

Next ==
  \/ \E g \in Goroutines :
       \/ LockCollect(g) \/ MeasureSystem(g) \/ StartPut(g) \/ EndPut(g) \/ FinishFill(g)
       \/ LockGet(g) \/ CopyKey(g) \/ FinishCopy(g) \/ StoreKey(g) \/ Mark(g)
  \/ Throw
  \/ Dead

Spec == Init /\ [][Next]_vars

--------------------------------------------------------------------------------
(* Properties *)

(* Whatever GetMetrics has copied of the gauges of Collect is of one poll, *)
(* the last, and its delta counts up to that poll; when it returns it has  *)
(* all of them or, before the first poll, none (lines 60-99 against        *)
(* 128-144, with three goroutines at work).                                *)
ReportIsOnePoll ==
  ~raced => \A g \in Readers :
    LET seen == Present(copy[g]) \ System
    IN /\ \A k \in seen : copy[g][k] = IF k = "PollCount" THEN PollCount - lastPollCount
                                                          ELSE PollCount
       /\ todo[g] = {} => seen = IF PollCount = 0 THEN {} ELSE Names \ System

(* The storage never counts a poll twice, though others poll while         *)
(* CollectAndStore is between its three critical sections, as long as one  *)
(* goroutine at a time calls it (lines 102-126).                           *)
StoredAtMostPolled == Cardinality(Storers) <= 1 => store["PollCount"] <= PollCount

(* When CollectAndStore is done and no poll fell between its GetMetrics and*)
(* its end, the storage has counted every poll and holds the gauges of the *)
(* last one it knows of (runtime_collector_test.go:98).                    *)
StoredExactly ==
  ~raced /\ ~overtaken /\ lastPollCount > 0 /\ Cardinality(Storers) <= 1
    /\ (\A s \in Storers : pc[s] # "store")
    => \A k \in Names \ System : store[k] = lastPollCount

(* The race detection of the CI (.github/workflows/mertricstest.yml:349):  *)
(* no goroutine writes to the map while another one is in it.              *)
NoDataRace == ~raced
================================================================================
