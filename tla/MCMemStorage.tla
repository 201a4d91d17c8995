----------------------------- MODULE MCMemStorage -----------------------------
(***************************************************************************)
(* Instances of MemStorage for TLC.                                        *)
(***************************************************************************)
EXTENDS MemStorageRefinement, TLC

CONSTANTS a, b, x, nan

GaugeItem(n, v)   == [type |-> "gauge", name |-> n, value |-> v]
CounterItem(n, d) == [type |-> "counter", name |-> n, value |-> d]
OtherItem         == [type |-> "other", name |-> a, value |-> Nil]

Batch    == [op |-> "save", items |-> <<GaugeItem(b, x), CounterItem(a, 1), OtherItem>>]
SaveNaN  == [op |-> "save", items |-> <<GaugeItem(b, nan)>>]
SaveJSON == [op |-> "saveAndGet", items |-> <<CounterItem(a, 1)>>]
GetGauge == [op |-> "get", items |-> <<GaugeItem(b, Nil)>>]
GetAll   == [op |-> "getAll", items |-> << >>]
GaugesJSON == [op |-> "saveAndGet", items |-> <<GaugeItem(b, x)>>]

SafetyCalls   == {Batch, SaveNaN, SaveJSON, GetGauge, GetAll}
ShutdownCalls == {GaugesJSON, SaveNaN}

MCIntMin == -2
MCIntMax == 1

(* The history since only serves ShutdownKeepsAcked. *)
WithoutSince == <<mem, lock, pc, call, idx, ans, tries, file, live>>

Symmetry == Permutations(Handlers)
===============================================================================
