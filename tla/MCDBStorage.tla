------------------------------ MODULE MCDBStorage ------------------------------
(***************************************************************************)
(* Instances of DBStorage for TLC.                                         *)
(***************************************************************************)
EXTENDS DBStorage

CONSTANTS alloc, polls

Alloc == [row |-> alloc, value |-> 1]
Polls == [row |-> polls, value |-> 1]

(* Batches come from a Go map: their order differs from one to the next.   *)
Batch1    == [op |-> "batch", items |-> <<Alloc, Polls>>]
Batch2    == [op |-> "batch", items |-> <<Polls, Alloc>>]
Update    == [op |-> "update", items |-> <<Polls>>]
JSON      == [op |-> "updateJSON", items |-> <<Polls>>]
GetPolls  == [op |-> "get", items |-> <<Polls>>]
GetAll    == [op |-> "getAll", items |-> << >>]

AllCalls   == {Batch1, Batch2, Update, JSON, GetPolls, GetAll}
WriteCalls == {Batch1, JSON}
================================================================================
