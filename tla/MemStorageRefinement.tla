------------------------- MODULE MemStorageRefinement -------------------------
(***************************************************************************)
(* MemStorage as an implementation of MetricStore.  The maps change for    *)
(* its clients when the mutex is released; a handler that waits for it has *)
(* not begun.                                                              *)
(***************************************************************************)
EXTENDS MemStorage

Phase(p) ==
  CASE p \in {"save", "apply"} -> "update"
    [] p \in {"get", "read", "copy", "overlay"} -> "read"
    [] p = "reply" -> "reply"
    [] OTHER -> "idle"

Store == INSTANCE MetricStore WITH
  Clients <- Handlers,
  NoImage <- NoFile,
  store   <- live,
  image   <- IF file = Broken THEN NoFile ELSE file,
  up      <- Up,
  phase   <- [h \in Handlers |-> Phase(pc[h])],
  ans     <- [h \in Handlers |-> IF pc[h] = "reply" THEN ans[h] ELSE NoAnswer]

(* The storage with its mutex, its item-by-item batches, its map-by-map    *)
(* copies and its file implements the atomic store of MetricStore          *)
(* (mem_storage.go as a whole, under the handlers and main).               *)
ImplementsMetricStore == Store!Spec
===============================================================================
