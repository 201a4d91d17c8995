----------------------------- MODULE CounterWalk -----------------------------
(***************************************************************************)
(* Walks through every int64 of a small width and looks at what a restart  *)
(* makes of a counter of that value.                                       *)
(***************************************************************************)
EXTENDS CounterCodec

VARIABLE c

Init == c = IntMin
Next == c < IntMax /\ c' = c + 1
Spec == Init /\ [][Next]_c

(* A counter of no more bits than a float64 has comes back from the file as*)
(* it was (Flush and Load, mem_storage.go:93 and 133-138).                 *)
SmallCountersSurvive == Magnitude(c) < Pow2[Precision] => Decodings(c) = {c}

(* Save and load again: the loss of the first restart is the only one, a   *)
(* counter that came back from the file survives every further restart     *)
(* (Flush and Load, mem_storage.go:93 and 133).                            *)
RestartsDoNotDrift == \A d \in Decodings(c) : d \in Decodings(d)

(* Of two counters the larger one is never restored as the smaller one, as *)
(* long as no conversion overflows (mem_storage.go:136).                   *)
OrderSurvivesRestart ==
  [][ToFloat(c') <= IntMax => \A d \in Decodings(c), e \in Decodings(c') : d <= e]_c
===============================================================================
