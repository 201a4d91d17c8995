-------------------------------- MODULE Metrics --------------------------------
(***************************************************************************)
(* The data of the metric storages: gauges and counters by name, and the   *)
(* updates that requests carry (storage.Metrics).                          *)
(***************************************************************************)
EXTENDS CounterCodec, Sequences

CONSTANTS
  Names,       \* metric IDs
  Finite,      \* float64 values that JSON can express
  NonFinite,   \* NaN and the infinities: ParseFloat accepts them, JSON has no form
  Absent,      \* a key that is not in the map
  Nil          \* a nil Delta or Value pointer

ASSUME ValuesAssumption ==
  /\ Absent \notin Int64 \cup Finite \cup NonFinite
  /\ Nil \notin Int64 \cup Finite \cup NonFinite
  /\ Finite \cap NonFinite = {}

Floats == Finite \cup NonFinite

Stores == [gauges: [Names -> Floats \cup {Absent}],
           counters: [Names -> Int64 \cup {Absent}]]

EmptyStore == [gauges |-> [n \in Names |-> Absent],
               counters |-> [n \in Names |-> Absent]]

(* One element of a batch, or the metric of a single update.  Types other  *)
(* than gauge and counter do reach UpdateMetricsBatch.                     *)
Items == [type: {"gauge"}, name: Names, value: Floats \cup {Nil}]
           \cup [type: {"counter"}, name: Names, value: Int64 \cup {Nil}]
           \cup [type: {"other"}, name: Names, value: {Nil}]

(* A bug: a counter grows without a limit. *)
OverflowingIncremented(old, delta) == IF old = Absent THEN delta ELSE old + delta

(* A map lookup of a missing counter yields 0, so the first delta is the   *)
(* first value.                                                            *)
Incremented(old, delta) == Plus(IF old = Absent THEN 0 ELSE old, delta)

(* The store after one update; a metric without its value is skipped.      *)
Updated(m, item) ==
  CASE item.type = "gauge" /\ item.value # Nil ->
         [m EXCEPT !.gauges[item.name] = item.value]
    [] item.type = "counter" /\ item.value # Nil ->
         [m EXCEPT !.counters[item.name] = Incremented(@, item.value)]
    [] OTHER -> m

(* Responses list values by name: all of them, one, or none for a 404.     *)
Listings == [Names -> Floats \cup Int64 \cup {Absent}]
NoAnswer == [n \in Names |-> Absent]

Lookup(m, item) ==
  [NoAnswer EXCEPT ![item.name] =
     IF item.type = "gauge" THEN m.gauges[item.name] ELSE m.counters[item.name]]

(* The single map that GetAllMetrics fills, first with the gauges: a       *)
(* counter takes the place of a gauge of its name.                         *)
Overlaid(listed, cs) == [n \in Names |-> IF cs[n] = Absent THEN listed[n] ELSE cs[n]]

(* json.Encode refuses the whole document when one number has no JSON form.*)
Encodable(m) == \A n \in Names : m.gauges[n] \notin NonFinite

(* The stores that Load may build from a complete file.                    *)
LoadedCounters(cs) ==
  { f \in [Names -> Int64 \cup {Absent}] :
      \A n \in Names : IF cs[n] = Absent THEN f[n] = Absent ELSE f[n] \in Decodings(cs[n]) }

Loaded(m) == [gauges: {m.gauges}, counters: LoadedCounters(m.counters)]
===============================================================================
