--------------------------- MODULE MemStorageProofs ---------------------------
(***************************************************************************)
(* The mutex of MemStorage and what it buys, for any number of handlers,   *)
(* any metrics and any requests; at the end, that MemStorage implements    *)
(* the atomic MetricStore.                                                 *)
(***************************************************************************)
EXTENDS MemStorageRefinement, SequenceTheorems, TLAPS

--------------------------------------------------------------------------------
(* The data *)

(* Counters stay int64: += wraps around (mem_storage.go:39 and 172).       *)
LEMMA PlusInt64 ==
  ASSUME NEW p \in Int64, NEW q \in Int64
  PROVE  Plus(p, q) \in Int64
<1> DEFINE width == IntMax - IntMin + 1
           sum   == p + q - IntMin
<1>1. width \in Nat /\ width > 0 /\ sum \in Int
  BY IntRangeAssumption DEF Int64
<1>2. sum % width \in 0 .. width - 1
  <2> HIDE DEF sum, width
  <2> QED BY <1>1
<1> QED
  BY <1>2, IntRangeAssumption DEF Plus, Int64

(* Only an int64 comes out of the file.                                    *)
LEMMA DecodingsInt64 ==
  ASSUME NEW c \in Int64
  PROVE  Decodings(c) \subseteq Int64
BY IntRangeAssumption DEF Decodings, ToInt, Int64

LEMMA IncrementedInt64 ==
  ASSUME NEW old \in Int64 \cup {Absent}, NEW delta \in Int64
  PROVE  Incremented(old, delta) \in Int64
<1>1. 0 \in Int64
  BY IntRangeAssumption DEF Int64
<1>2. CASE old = Absent
  BY <1>1, <1>2, PlusInt64 DEF Incremented
<1>3. CASE old # Absent
  BY <1>3, PlusInt64 DEF Incremented
<1> QED BY <1>2, <1>3

LEMMA UpdatedStores ==
  ASSUME NEW m \in Stores, NEW item \in Items
  PROVE  Updated(m, item) \in Stores
<1>1. CASE item.type = "gauge" /\ item.value # Nil
  BY <1>1 DEF Updated, Stores, Items
<1>2. CASE item.type = "counter" /\ item.value # Nil
  <2>1. item.name \in Names /\ item.value \in Int64
    BY <1>2 DEF Items
  <2>2. Incremented(m.counters[item.name], item.value) \in Int64
    BY <2>1, IncrementedInt64 DEF Stores
  <2>3. Updated(m, item) =
          [m EXCEPT !.counters[item.name] = Incremented(m.counters[item.name], item.value)]
    BY <1>2 DEF Updated
  <2> QED BY <2>1, <2>2, <2>3 DEF Stores
<1>3. CASE ~(item.type = "gauge" /\ item.value # Nil)
           /\ ~(item.type = "counter" /\ item.value # Nil)
  BY <1>3 DEF Updated
<1> QED BY <1>1, <1>2, <1>3

LEMMA LoadedStores ==
  ASSUME NEW m \in Stores
  PROVE  Loaded(m) \subseteq Stores
BY DecodingsInt64 DEF Loaded, LoadedCounters, Stores

LEMMA LookupListings ==
  ASSUME NEW m \in Stores, NEW item
  PROVE  Lookup(m, item) \in Listings
BY DEF Lookup, NoAnswer, Listings, Stores, Items

LEMMA OverlaidListings ==
  ASSUME NEW listed \in Listings, NEW m \in Stores
  PROVE  Overlaid(listed, m.counters) \in Listings
BY DEF Overlaid, Listings, Stores

--------------------------------------------------------------------------------
(* Types *)

LEMMA CallItems ==
  ASSUME NEW h \in Handlers, call \in [Handlers -> Calls \cup {NoCall}],
         NEW i \in 1 .. Len(call[h].items)
  PROVE  call[h].items[i] \in Items
<1>1. call[h] \in Calls \cup {NoCall}
  OBVIOUS
<1>2. call[h].items \in Seq(Items)
  BY <1>1, CallsAssumption DEF NoCall
<1> QED BY <1>2

LEMMA InitType == Init => TypeOK
<1> SUFFICES ASSUME Init PROVE TypeOK
  OBVIOUS
<1>1. EmptyStore \in Stores
  BY DEF EmptyStore, Stores
<1>2. NoAnswer \in Listings
  BY DEF NoAnswer, Listings
<1> QED BY <1>1, <1>2 DEF Init, TypeOK, MaxTries

LEMMA DieType == TypeOK /\ Die /\ since' \subseteq Stores => TypeOK'
<1> SUFFICES ASSUME TypeOK, Die, since' \subseteq Stores PROVE TypeOK'
  OBVIOUS
<1>1. EmptyStore \in Stores
  BY DEF EmptyStore, Stores
<1>2. NoAnswer \in Listings
  BY DEF NoAnswer, Listings
<1> QED BY <1>1, <1>2 DEF Die, TypeOK, MaxTries

LEMMA ProcessType == TypeOK /\ (Boot \/ Kill \/ Signal \/ Exit \/ Tick) => TypeOK'
<1> SUFFICES ASSUME TypeOK, Boot \/ Kill \/ Signal \/ Exit \/ Tick PROVE TypeOK'
  OBVIOUS
<1>1. CASE Boot
  <2>1. EmptyStore \in Stores
    BY DEF EmptyStore, Stores
  <2>2. mem' \in Stores
    BY <1>1, <2>1, LoadedStores DEF Boot, Readable, TypeOK
  <2> QED BY <1>1, <2>2 DEF Boot, TypeOK
<1>2. CASE Kill
  BY <1>2, DieType DEF Kill
<1>3. CASE Signal
  BY <1>3 DEF Signal, TypeOK, Threads, Flushers
<1>4. CASE Exit
  BY <1>4, DieType DEF Exit, TypeOK
<1>5. CASE Tick
  BY <1>5 DEF Tick, TypeOK, Threads, Flushers
<1> QED BY <1>1, <1>2, <1>3, <1>4, <1>5

LEMMA HandlerType ==
  ASSUME NEW h \in Handlers, TypeOK, Request(h) \/ Handle(h)
  PROVE  TypeOK'
<1> h \in Threads
  BY DEF Threads
<1>1. CASE Request(h)
  BY <1>1 DEF Request, TypeOK
<1>2. CASE LockSave(h)
  BY <1>2 DEF LockSave, TypeOK
<1>3. CASE ApplyItem(h)
  <2>1. call[h].items[idx[h]] \in Items
    BY <1>3, CallItems DEF ApplyItem, TypeOK
  <2>2. mem' \in Stores
    BY <1>3, <2>1, UpdatedStores DEF ApplyItem, TypeOK
  <2> QED BY <1>3, <2>2 DEF ApplyItem, TypeOK
<1>4. CASE UnlockSave(h)
  BY <1>4 DEF UnlockSave, TypeOK
<1>5. CASE LockGet(h)
  BY <1>5 DEF LockGet, TypeOK
<1>6. CASE CopyGauges(h)
  <2>1. mem.gauges \in Listings
    BY DEF TypeOK, Stores, Listings
  <2> QED BY <1>6, <2>1 DEF CopyGauges, TypeOK
<1>7. CASE OverlayCounters(h)
  <2>1. Overlaid(ans[h], mem.counters) \in Listings
    BY OverlaidListings DEF TypeOK
  <2> QED BY <1>7, <2>1 DEF OverlayCounters, TypeOK
<1>9. CASE Read(h)
  <2>1. Lookup(mem, Target(h)) \in Listings
    BY LookupListings DEF TypeOK
  <2> QED BY <1>9, <2>1 DEF Read, TypeOK
<1>8. CASE Reply(h)
  <2>1. NoAnswer \in Listings
    BY DEF NoAnswer, Listings
  <2> QED BY <1>8, <2>1 DEF Reply, TypeOK
<1> QED BY <1>1, <1>2, <1>3, <1>4, <1>5, <1>6, <1>7, <1>8, <1>9 DEF Handle

LEMMA FlushType ==
  ASSUME NEW t \in Flushers, TypeOK, Flush(t)
  PROVE  TypeOK'
<1> t \in Threads
  BY DEF Threads
<1>1. CASE LockFlush(t)
  BY <1>1 DEF LockFlush, Return, TypeOK, MaxTries
<1>2. CASE CreateFile(t)
  BY <1>2 DEF CreateFile, TypeOK
<1>3. CASE CreateFails(t)
  BY <1>3 DEF CreateFails, ReturnError, Return, TypeOK, MaxTries
<1>4. CASE WriteFile(t)
  BY <1>4 DEF WriteFile, Return, TypeOK, MaxTries
<1>5. CASE WriteFails(t)
  BY <1>5 DEF WriteFails, ReturnError, Return, TypeOK, MaxTries
<1> QED BY <1>1, <1>2, <1>3, <1>4, <1>5 DEF Flush

(* Every reachable state is well-typed; in particular no counter leaves    *)
(* the range of int64, however often it is incremented, and no response    *)
(* holds anything but values of metrics.                                   *)
THEOREM TypeCorrect == Spec => []TypeOK
<1>1. TypeOK /\ [Next]_vars => TypeOK'
  <2> SUFFICES ASSUME TypeOK, [Next]_vars PROVE TypeOK'
    OBVIOUS
  <2>1. CASE Boot \/ Kill \/ Signal \/ Exit \/ Tick
    BY <2>1, ProcessType
  <2>2. CASE \E h \in Handlers : Request(h) \/ Handle(h)
    BY <2>2, HandlerType
  <2>3. CASE \E t \in Flushers : Flush(t)
    BY <2>3, FlushType
  <2>4. CASE UNCHANGED vars
    BY <2>4 DEF vars, TypeOK
  <2> QED BY <2>1, <2>2, <2>3, <2>4 DEF Next
<1> QED BY <1>1, InitType, PTL DEF Spec

--------------------------------------------------------------------------------
(* The mutex *)

(* A process that does not run has no goroutines.                          *)
DownIsOff == ~Up => \A t \in Threads : pc[t] = "off"

(* The maps are what the completed updates made of them, except while an   *)
(* update is in progress, and that one holds the mutex.                    *)
Committed == (\A h \in Handlers : pc[h] # "apply") => mem = live

(* The inductive invariant.                                                *)
IInv == TypeOK /\ DownIsOff /\ MutualExclusion /\ Committed

(* Who is inside a critical section is alone there.                        *)
LEMMA OneOwner ==
  ASSUME IInv, NEW t \in Threads, NEW u \in Threads, u # t, pc[t] \in Critical
  PROVE  pc[u] \notin Critical
BY DEF IInv, MutualExclusion

(* While the saver or main has the mutex, no update is in progress.        *)
LEMMA FlushSeesCommitted ==
  ASSUME IInv, NEW t \in Flushers, pc[t] \in {"create", "write"}
  PROVE  mem = live
<1>1. \A h \in Handlers : pc[h] # "apply"
  <2> SUFFICES ASSUME NEW h \in Handlers, pc[h] = "apply" PROVE FALSE
    OBVIOUS
  <2>1. h \in Threads /\ t \in Threads /\ h # t
    BY ThreadsAssumption DEF Threads
  <2> QED BY <2>1, OneOwner DEF Critical
<1> QED BY <1>1 DEF IInv, Committed

LEMMA InitInductive == Init => IInv
BY InitType, ThreadsAssumption
   DEF Init, IInv, DownIsOff, MutualExclusion, Committed, Critical, Up, Threads, Flushers

LEMMA ProcessInductive ==
  ASSUME IInv, TypeOK', Boot \/ Kill \/ Signal \/ Exit \/ Tick
  PROVE  IInv'
<1> USE DEF IInv, TypeOK, Up, Threads, Flushers
<1>1. CASE Boot
  <2>1. lock = Nobody
    BY <1>1 DEF Boot, DownIsOff, MutualExclusion, Critical
  <2>2. DownIsOff' /\ Committed'
    BY <1>1, ThreadsAssumption DEF Boot, DownIsOff, Committed
  <2>3. MutualExclusion'
    BY <1>1, <2>1, ThreadsAssumption DEF Boot, MutualExclusion, Critical
  <2> QED BY <2>2, <2>3
<1>2. CASE Kill \/ Exit
  <2>1. Die
    BY <1>2 DEF Kill, Exit
  <2> QED BY <2>1, ThreadsAssumption
          DEF Die, DownIsOff, MutualExclusion, Committed, Critical
<1>3. CASE Signal
  <2>1. DownIsOff'
    BY <1>3 DEF Signal, DownIsOff
  <2>2. MutualExclusion'
    BY <1>3 DEF Signal, MutualExclusion, Critical
  <2>3. Committed'
    BY <1>3, ThreadsAssumption DEF Signal, Committed
  <2> QED BY <2>1, <2>2, <2>3
<1>4. CASE Tick
  <2>1. DownIsOff'
    BY <1>4 DEF Tick, DownIsOff
  <2>2. MutualExclusion'
    BY <1>4 DEF Tick, MutualExclusion, Critical
  <2>3. Committed'
    BY <1>4, ThreadsAssumption DEF Tick, Committed
  <2> QED BY <2>1, <2>2, <2>3
<1> QED BY <1>1, <1>2, <1>3, <1>4

LEMMA HandlerInductive ==
  ASSUME IInv, TypeOK', NEW h \in Handlers, Request(h) \/ Handle(h)
  PROVE  IInv'
<1> USE DEF IInv, TypeOK, Up, Threads, Flushers
<1>0. h \in Threads /\ h # Main
  BY ThreadsAssumption
<1>1. DownIsOff'
  BY <1>0 DEF Request, Handle, LockSave, ApplyItem, UnlockSave, LockGet, Read, CopyGauges,
              OverlayCounters, Reply, DownIsOff
<1>2. CASE Request(h)
  <2>1. MutualExclusion'
    BY <1>2 DEF Request, MutualExclusion, Critical
  <2>2. Committed'
    BY <1>2 DEF Request, Committed
  <2> QED BY <1>1, <2>1, <2>2
<1>3. CASE LockSave(h)
  <2>1. MutualExclusion'
    BY <1>3, ThreadsAssumption DEF LockSave, MutualExclusion, Critical
  <2>2. Committed'
    BY <1>3 DEF LockSave, Committed
  <2> QED BY <1>1, <2>1, <2>2
<1>4. CASE ApplyItem(h)
  <2>1. MutualExclusion'
    BY <1>4 DEF ApplyItem, MutualExclusion, Critical
  <2>2. Committed'
    BY <1>4 DEF ApplyItem, Committed
  <2> QED BY <1>1, <2>1, <2>2
<1>5. CASE UnlockSave(h)
  <2>1. MutualExclusion'
    BY <1>5, ThreadsAssumption DEF UnlockSave, MutualExclusion, Critical
  <2>2. Committed'
    BY <1>5 DEF UnlockSave, Committed
  <2> QED BY <1>1, <2>1, <2>2
<1>6. CASE LockGet(h)
  <2>1. MutualExclusion'
    BY <1>6, ThreadsAssumption DEF LockGet, MutualExclusion, Critical
  <2>2. Committed'
    BY <1>6 DEF LockGet, Committed
  <2> QED BY <1>1, <2>1, <2>2
<1>7. CASE Read(h) \/ OverlayCounters(h)
  <2>1. MutualExclusion'
    BY <1>7, ThreadsAssumption DEF Read, OverlayCounters, MutualExclusion, Critical
  <2>2. Committed'
    BY <1>7 DEF Read, OverlayCounters, Committed
  <2> QED BY <1>1, <2>1, <2>2
<1>8. CASE CopyGauges(h) \/ Reply(h)
  <2>1. MutualExclusion'
    BY <1>8 DEF CopyGauges, Reply, MutualExclusion, Critical
  <2>2. Committed'
    BY <1>8 DEF CopyGauges, Reply, Committed
  <2> QED BY <1>1, <2>1, <2>2
<1> QED BY <1>2, <1>3, <1>4, <1>5, <1>6, <1>7, <1>8 DEF Handle

LEMMA FlushInductive ==
  ASSUME IInv, TypeOK', NEW t \in Flushers, Flush(t)
  PROVE  IInv'
<1> USE DEF IInv, TypeOK, Up, Threads, Flushers
<1>0. t \in Threads /\ t \notin Handlers
  BY ThreadsAssumption
<1>1. DownIsOff'
  BY <1>0 DEF Flush, LockFlush, CreateFile, CreateFails, WriteFile, WriteFails, ReturnError,
              Return, DownIsOff
<1>2. Committed'
  BY <1>0 DEF Flush, LockFlush, CreateFile, CreateFails, WriteFile, WriteFails, ReturnError,
              Return, Committed
<1>3. CASE LockFlush(t)
  <2>1. MutualExclusion'
    BY <1>3, ThreadsAssumption DEF LockFlush, Return, MutualExclusion, Critical
  <2> QED BY <1>1, <1>2, <2>1
<1>4. CASE CreateFile(t)
  <2>1. MutualExclusion'
    BY <1>4 DEF CreateFile, MutualExclusion, Critical
  <2> QED BY <1>1, <1>2, <2>1
<1>5. CASE CreateFails(t)
  <2>1. MutualExclusion'
    BY <1>5, ThreadsAssumption DEF CreateFails, ReturnError, Return, MutualExclusion, Critical
  <2> QED BY <1>1, <1>2, <2>1
<1>6. CASE WriteFile(t) \/ WriteFails(t)
  <2>1. MutualExclusion'
    BY <1>6, ThreadsAssumption
       DEF WriteFile, WriteFails, ReturnError, Return, MutualExclusion, Critical
  <2> QED BY <1>1, <1>2, <2>1
<1> QED BY <1>3, <1>4, <1>5, <1>6 DEF Flush

LEMMA Invariance == Spec => []IInv
<1>1. IInv /\ TypeOK' /\ [Next]_vars => IInv'
  <2> SUFFICES ASSUME IInv, TypeOK', [Next]_vars PROVE IInv'
    OBVIOUS
  <2>1. CASE Boot \/ Kill \/ Signal \/ Exit \/ Tick
    BY <2>1, ProcessInductive
  <2>2. CASE \E h \in Handlers : Request(h) \/ Handle(h)
    BY <2>2, HandlerInductive
  <2>3. CASE \E t \in Flushers : Flush(t)
    BY <2>3, FlushInductive
  <2>4. CASE UNCHANGED vars
    BY <2>4 DEF vars, IInv, TypeOK, DownIsOff, MutualExclusion, Committed, Up
  <2> QED BY <2>1, <2>2, <2>3, <2>4 DEF Next
<1> QED BY <1>1, InitInductive, TypeCorrect, PTL DEF Spec

(* At any moment the mutex belongs to exactly the goroutine that is inside *)
(* a method of the storage, and to nobody when there is none: every error  *)
(* path of Flush and every retry gives it back, a crash leaves no owner.   *)
THEOREM MutexCorrect == Spec => []MutualExclusion
<1>1. IInv => MutualExclusion
  BY DEF IInv
<1> QED BY <1>1, Invariance, PTL

(* Whatever the saver, main and any number of handlers do, what reaches the*)
(* file is the store between two updates: no half of a batch and no state  *)
(* older than a finished update (Flush, mem_storage.go:78-100).            *)
THEOREM SnapshotsCommitted == Spec => SnapshotsAreCommitted
<1>1. IInv /\ [Next]_vars => [file' # file => file' \in {Broken, live}]_vars
  <2> SUFFICES ASSUME IInv, Next, file' # file PROVE file' \in {Broken, live}
    OBVIOUS
  <2>1. \A h \in Handlers : ~(Request(h) \/ Handle(h))
    BY DEF Request, Handle, LockSave, ApplyItem, UnlockSave, LockGet, Read, CopyGauges,
           OverlayCounters, Reply
  <2>2. ~(Boot \/ Kill \/ Signal \/ Exit \/ Tick)
    BY DEF Boot, Kill, Signal, Exit, Tick, Die
  <2>3. PICK t \in Flushers : Flush(t)
    BY <2>1, <2>2 DEF Next
  <2>4. CASE WriteFile(t)
    BY <2>4, FlushSeesCommitted DEF WriteFile
  <2>5. CASE CreateFile(t)
    BY <2>5 DEF CreateFile
  <2> QED BY <2>3, <2>4, <2>5 DEF Flush, LockFlush, CreateFails, WriteFails
<1> QED BY <1>1, Invariance, PTL DEF Spec, SnapshotsAreCommitted

--------------------------------------------------------------------------------
(* The shutdown *)

(* Since the signal, all that happened to the store is in since; once main *)
(* has saved it, only a saver that is inside Flush can leave something else*)
(* in the file, and if it does not replace it with the store, since ends.  *)
Saved ==
  /\ since # {} /\ Up => live \in since
  /\ since # {} /\ pc[Main] = "exit" => lock = Saver \/ file \in since
  /\ since # {} /\ ~Up => file \in since

ShutdownInv == IInv /\ (HasFile => Saved)

LEMMA SavedStep ==
  ASSUME IInv, Saved, HasFile, [Next]_vars
  PROVE  Saved'
<1> USE DEF IInv, TypeOK, Up, Threads, Flushers, Saved
<1> USE ThreadsAssumption
<1>1. CASE Boot
  BY <1>1 DEF Boot
<1>2. CASE Kill \/ Exit
  BY <1>2 DEF Kill, Exit, Die
<1>3. CASE Signal
  BY <1>3 DEF Signal
<1>4. CASE Tick
  BY <1>4 DEF Tick
<1>5. CASE \E h \in Handlers : Request(h) \/ Handle(h)
  <2> PICK h \in Handlers : Request(h) \/ Handle(h)
    BY <1>5
  <2>1. CASE UnlockSave(h)
    <3>1. Up /\ pc'[Main] = pc[Main] /\ lock = h
      BY <2>1 DEF UnlockSave, DownIsOff, MutualExclusion, Critical
    <3>2. live' = mem /\ since' = (IF since = {} THEN {} ELSE since \cup {mem}) /\ file' = file
      BY <2>1 DEF UnlockSave
    <3> QED BY <3>1, <3>2
  <2>2. CASE Request(h) \/ (Handle(h) /\ ~UnlockSave(h))
    <3>1. pc'[Main] = pc[Main]
      BY <2>2 DEF Request, Handle, LockSave, ApplyItem, LockGet, Read, CopyGauges,
                  OverlayCounters, Reply
    <3>2. UNCHANGED <<live, since, file>>
      BY <2>2 DEF Request, Handle, LockSave, ApplyItem, LockGet, Read, CopyGauges,
                  OverlayCounters, Reply
    <3>3. lock = Saver => lock' = Saver
      BY <2>2 DEF Request, Handle, LockSave, ApplyItem, LockGet, Read, CopyGauges,
                  OverlayCounters, Reply, MutualExclusion, Critical
    <3> QED BY <3>1, <3>2, <3>3
  <2> QED BY <2>1, <2>2
<1>6. CASE \E t \in Flushers : Flush(t)
  <2> PICK t \in Flushers : Flush(t)
    BY <1>6
  <2>1. pc[t] \in {"create", "write"} => lock = t
    BY DEF MutualExclusion, Critical
  <2>2. CASE LockFlush(t)
    BY <2>2 DEF LockFlush, DownIsOff
  <2>3. CASE CreateFile(t)
    BY <2>1, <2>3 DEF CreateFile, DownIsOff
  <2>4. CASE CreateFails(t)
    BY <2>1, <2>4 DEF CreateFails, ReturnError, Return, DownIsOff
  <2>5. CASE WriteFile(t)
    <3>1. mem = live /\ pc[t] = "write" /\ Up
      BY <2>5, FlushSeesCommitted DEF WriteFile, DownIsOff
    <3> QED BY <2>5, <3>1 DEF WriteFile, Return
  <2>6. CASE WriteFails(t)
    BY <2>1, <2>6 DEF WriteFails, ReturnError, Return, DownIsOff
  <2> QED BY <2>2, <2>3, <2>4, <2>5, <2>6 DEF Flush
<1>7. CASE UNCHANGED vars
  BY <1>7 DEF vars
<1> QED BY <1>1, <1>2, <1>3, <1>4, <1>5, <1>6, <1>7 DEF Next

(* A shutdown by signal whose save succeeds keeps every update that was    *)
(* acknowledged before the signal, even though the HTTP server goes on     *)
(* updating the store until main returns (main.go:96-106) and the saver    *)
(* goes on writing it, unless a Flush of the saver fails or is cut short.  *)
THEOREM ShutdownCorrect == Spec => [](HasFile => ShutdownKeepsAcked)
<1>1. Init => ShutdownInv
  <2> SUFFICES ASSUME Init PROVE ShutdownInv
    OBVIOUS
  <2>1. Saved
    BY DEF Init, Saved, Up, Threads, Flushers
  <2> QED BY <2>1, InitInductive DEF ShutdownInv
<1>2. ShutdownInv /\ IInv' /\ [Next]_vars => ShutdownInv'
  BY SavedStep DEF ShutdownInv
<1>3. ShutdownInv => (HasFile => ShutdownKeepsAcked)
  BY DEF ShutdownInv, Saved, ShutdownKeepsAcked
<1> QED BY <1>1, <1>2, <1>3, Invariance, PTL DEF Spec

--------------------------------------------------------------------------------
(* MemStorage implements MetricStore: every step of the storage is a step  *)
(* of the atomic store, or none.                                           *)

Updates == INSTANCE Folding WITH Op <- Updated

--------------------------------------------------------------------------------
(* The inductive invariant: IInv, and what each handler has done so far.   *)

(* A handler is where its request takes it.                                *)
Follows(h) ==
  /\ pc[h] \in {"save", "apply", "get", "read", "copy", "overlay"} => call[h] \in Calls
  /\ pc[h] \in {"save", "apply"} => call[h].op \in {"save", "saveAndGet"}
  /\ pc[h] \in {"get", "read", "copy", "overlay"} => call[h].op # "save"
  /\ pc[h] = "read" => call[h].op # "getAll"
  /\ pc[h] \in {"copy", "overlay"} => call[h].op = "getAll"

(* An update in progress has applied the items before its position to what *)
(* the last update left.                                                   *)
Applies(h) ==
  pc[h] = "apply" =>
    /\ idx[h] \in 1 .. Len(call[h].items) + 1
    /\ mem = Updates!After(live, call[h].items, idx[h] - 1)

(* The listing has taken the gauges, and they have not changed since.      *)
Answers(h) ==
  /\ pc[h] \notin {"overlay", "reply"} => ans[h] = NoAnswer
  /\ pc[h] = "overlay" => ans[h] = mem.gauges

HandlersInv == \A h \in Handlers : Follows(h) /\ Applies(h) /\ Answers(h)

RInv == IInv /\ HandlersInv

HandlerInv(h) == Follows(h) /\ Applies(h) /\ Answers(h)

(* A handler that nothing has touched, and whose maps are as they were.    *)
LEMMA HandlerStays ==
  ASSUME NEW g \in Handlers, HandlerInv(g),
         pc'[g] = pc[g], call'[g] = call[g], idx'[g] = idx[g], ans'[g] = ans[g],
         pc[g] = "apply" => mem' = mem /\ live' = live,
         pc[g] = "overlay" => mem' = mem
  PROVE  HandlerInv(g)'
BY DEF HandlerInv, Follows, Applies, Answers

(* While a handler is inside a critical section no other one depends on    *)
(* the maps.                                                               *)
LEMMA OthersOutside ==
  ASSUME IInv, NEW h \in Handlers, pc[h] \in Critical, NEW g \in Handlers, g # h
  PROVE  pc[g] \notin {"apply", "overlay"}
BY OneOwner DEF Threads, Critical

LEMMA NobodyInside ==
  ASSUME IInv, lock = Nobody
  PROVE  \A t \in Threads : pc[t] \notin Critical
BY ThreadsAssumption DEF IInv, MutualExclusion

LEMMA InitHandlers == Init => HandlersInv
BY DEF Init, HandlersInv, Follows, Applies, Answers, Threads

LEMMA RequestHandlers ==
  ASSUME RInv, NEW h \in Handlers, Request(h)
  PROVE  HandlersInv'
<1>1. PICK c \in Calls :
        /\ call' = [call EXCEPT ![h] = c]
        /\ pc' = [pc EXCEPT ![h] = IF c.op \in {"save", "saveAndGet"} THEN "save" ELSE "get"]
  BY DEF Request
<1>2. /\ call'[h] = c /\ pc'[h] = (IF c.op \in {"save", "saveAndGet"} THEN "save" ELSE "get")
      /\ ans'[h] = ans[h] /\ pc[h] = "idle"
  BY <1>1 DEF Request, RInv, IInv, TypeOK, Threads
<1>3. HandlerInv(h)'
  BY <1>2 DEF RInv, HandlersInv, HandlerInv, Follows, Applies, Answers
<1>4. ASSUME NEW g \in Handlers \ {h} PROVE HandlerInv(g)'
  <2>1. pc'[g] = pc[g] /\ call'[g] = call[g] /\ idx'[g] = idx[g] /\ ans'[g] = ans[g]
    BY <1>1 DEF Request, RInv, IInv, TypeOK, Threads
  <2>2. mem' = mem /\ live' = live
    BY DEF Request
  <2> QED  BY <2>1, <2>2, HandlerStays DEF RInv, HandlersInv, HandlerInv
<1> QED  BY <1>3, <1>4 DEF HandlersInv, HandlerInv

LEMMA LockSaveHandlers ==
  ASSUME RInv, NEW h \in Handlers, LockSave(h)
  PROVE  HandlersInv'
<1>1. /\ pc'[h] = "apply" /\ idx'[h] = 1 /\ pc[h] = "save" /\ lock = Nobody
      /\ \A g \in Handlers \ {h} : pc'[g] = pc[g] /\ idx'[g] = idx[g]
      /\ UNCHANGED <<mem, call, ans, live>>
  BY DEF LockSave, RInv, IInv, TypeOK, Threads
<1>2. HandlerInv(h)'
  <2>1. mem = live
    <3>1. \A g \in Handlers : pc[g] # "apply"
      BY <1>1, NobodyInside DEF RInv, Threads, Critical
    <3> QED  BY <3>1 DEF RInv, IInv, Committed
  <2>2. call[h] \in Calls /\ call[h].items \in Seq(Items)
    BY <1>1, CallsAssumption DEF RInv, HandlersInv, Follows
  <2>3. Len(call[h].items) \in Nat
    BY <2>2
  <2>4. Updates!After(live, call[h].items, 0) = live
    BY Updates!FoldEmpty
  <2>5. Applies(h)'
    BY <1>1, <2>1, <2>3, <2>4 DEF Applies
  <2> QED  BY <1>1, <2>5 DEF RInv, HandlersInv, HandlerInv, Follows, Answers
<1>3. ASSUME NEW g \in Handlers \ {h} PROVE HandlerInv(g)'
  BY <1>1, HandlerStays DEF RInv, HandlersInv, HandlerInv
<1> QED  BY <1>2, <1>3 DEF HandlersInv, HandlerInv

LEMMA ApplyItemHandlers ==
  ASSUME RInv, NEW h \in Handlers, ApplyItem(h)
  PROVE  HandlersInv'
<1> DEFINE items == call[h].items
           n == idx[h]
<1>1. /\ pc[h] = "apply" /\ n \in 1 .. Len(items) /\ idx'[h] = n + 1
      /\ mem' = Updated(mem, items[n])
      /\ \A g \in Handlers \ {h} : idx'[g] = idx[g]
      /\ UNCHANGED <<pc, call, ans, live>>
  BY DEF ApplyItem, RInv, IInv, TypeOK
<1>2. HandlerInv(h)'
  <2>1. call[h] \in Calls /\ items \in Seq(Items)
    BY <1>1, CallsAssumption DEF RInv, HandlersInv, Follows
  <2>2. mem = Updates!After(live, items, n - 1)
    BY <1>1 DEF RInv, HandlersInv, Applies
  <2>3. Updates!After(live, items, n) = Updated(Updates!After(live, items, n - 1), items[n])
    <3>1. items \in Seq(Items) /\ n \in 1 .. Len(items)
      BY <1>1, <2>1
    <3> HIDE DEF items, n
    <3> QED  BY Zenon, <3>1, Updates!FoldStep
  <2>4. mem' = Updates!After(live, items, n)
    BY <1>1, <2>2, <2>3
  <2>5. idx'[h] - 1 = n /\ n + 1 \in 1 .. Len(items) + 1
    BY <1>1, <2>1
  <2>6. Applies(h)'
    BY <1>1, <2>4, <2>5 DEF Applies
  <2> QED  BY <1>1, <2>6 DEF RInv, HandlersInv, HandlerInv, Follows, Answers
<1>3. ASSUME NEW g \in Handlers \ {h} PROVE HandlerInv(g)'
  <2>1. pc[g] \notin {"apply", "overlay"}
    BY <1>1, OthersOutside DEF RInv, Critical
  <2> QED  BY <1>1, <2>1, HandlerStays DEF RInv, HandlersInv, HandlerInv
<1> QED  BY <1>2, <1>3 DEF HandlersInv, HandlerInv

LEMMA UnlockSaveHandlers ==
  ASSUME RInv, NEW h \in Handlers, UnlockSave(h)
  PROVE  HandlersInv'
<1>1. /\ pc[h] = "apply" /\ pc'[h] = (IF call[h].op = "saveAndGet" THEN "get" ELSE "reply")
      /\ \A g \in Handlers \ {h} : pc'[g] = pc[g] /\ idx'[g] = idx[g]
      /\ UNCHANGED <<mem, call, ans>>
  BY DEF UnlockSave, RInv, IInv, TypeOK, Threads
<1>2. HandlerInv(h)'
  BY <1>1 DEF RInv, HandlersInv, HandlerInv, Follows, Applies, Answers
<1>3. ASSUME NEW g \in Handlers \ {h} PROVE HandlerInv(g)'
  <2>1. pc[g] \notin {"apply", "overlay"}
    BY <1>1, OthersOutside DEF RInv, Critical
  <2> QED  BY <1>1, <2>1, HandlerStays DEF RInv, HandlersInv, HandlerInv
<1> QED  BY <1>2, <1>3 DEF HandlersInv, HandlerInv

(* The steps of a read, and the response.                                  *)
LEMMA ReadHandlers ==
  ASSUME RInv, NEW h \in Handlers,
         LockGet(h) \/ Read(h) \/ CopyGauges(h) \/ OverlayCounters(h) \/ Reply(h)
  PROVE  HandlersInv'
<1>1. /\ \A g \in Handlers \ {h} :
           pc'[g] = pc[g] /\ idx'[g] = idx[g] /\ ans'[g] = ans[g] /\ call'[g] = call[g]
      /\ UNCHANGED <<mem, live>>
  BY DEF LockGet, Read, CopyGauges, OverlayCounters, Reply, RInv, IInv, TypeOK, Threads
<1>2. HandlerInv(h)'
  <2>1. CASE LockGet(h)
    <3>1. /\ pc[h] = "get" /\ pc'[h] = (IF call[h].op = "getAll" THEN "copy" ELSE "read")
          /\ UNCHANGED <<call, ans>>
      BY <2>1 DEF LockGet, RInv, IInv, TypeOK, Threads
    <3> QED  BY <3>1 DEF RInv, HandlersInv, HandlerInv, Follows, Applies, Answers
  <2>2. CASE CopyGauges(h)
    <3>1. /\ pc[h] = "copy" /\ pc'[h] = "overlay" /\ ans'[h] = mem.gauges
          /\ UNCHANGED <<call, mem>>
      BY <2>2 DEF CopyGauges, RInv, IInv, TypeOK, Threads
    <3> QED  BY <3>1 DEF RInv, HandlersInv, HandlerInv, Follows, Applies, Answers
  <2>3. CASE Read(h) \/ OverlayCounters(h)
    <3>1. pc'[h] = "reply"
      BY <2>3 DEF Read, OverlayCounters, RInv, IInv, TypeOK, Threads
    <3> QED  BY <3>1 DEF HandlerInv, Follows, Applies, Answers
  <2>4. CASE Reply(h)
    <3>1. pc'[h] = "idle" /\ ans'[h] = NoAnswer
      BY <2>4 DEF Reply, RInv, IInv, TypeOK, Threads
    <3> QED  BY <3>1 DEF HandlerInv, Follows, Applies, Answers
  <2> QED  BY <2>1, <2>2, <2>3, <2>4
<1>3. ASSUME NEW g \in Handlers \ {h} PROVE HandlerInv(g)'
  BY <1>1, HandlerStays DEF RInv, HandlersInv, HandlerInv
<1> QED  BY <1>2, <1>3 DEF HandlersInv, HandlerInv

(* The process and its saves.                                              *)
LEMMA ProcessHandlers ==
  ASSUME RInv, Boot \/ Kill \/ Signal \/ Exit \/ Tick
  PROVE  HandlersInv'
<1>1. CASE Boot
  <2>1. ASSUME NEW h \in Handlers PROVE HandlerInv(h)'
    <3>1. pc[h] = "off" /\ pc'[h] = "idle" /\ ans'[h] = ans[h]
      BY <1>1, ThreadsAssumption DEF Boot, RInv, IInv, DownIsOff, Threads, Flushers
    <3> QED  BY <3>1 DEF RInv, HandlersInv, HandlerInv, Follows, Applies, Answers
  <2> QED  BY <2>1 DEF HandlersInv, HandlerInv
<1>2. CASE Kill \/ Exit
  <2>1. ASSUME NEW h \in Handlers PROVE HandlerInv(h)'
    <3>1. pc'[h] = "off" /\ ans'[h] = NoAnswer
      BY <1>2 DEF Kill, Exit, Die, Threads
    <3> QED  BY <3>1 DEF HandlerInv, Follows, Applies, Answers
  <2> QED  BY <2>1 DEF HandlersInv, HandlerInv
<1>3. CASE Signal \/ Tick
  <2>1. ASSUME NEW h \in Handlers PROVE HandlerInv(h)'
    <3>1. pc'[h] = pc[h] /\ UNCHANGED <<mem, call, idx, ans, live>>
      BY <1>3, ThreadsAssumption DEF Signal, Tick, RInv, IInv, TypeOK, Threads, Flushers
    <3> QED  BY <3>1, HandlerStays DEF RInv, HandlersInv, HandlerInv
  <2> QED  BY <2>1 DEF HandlersInv, HandlerInv
<1> QED  BY <1>1, <1>2, <1>3

LEMMA FlushHandlers ==
  ASSUME RInv, NEW t \in Flushers, Flush(t)
  PROVE  HandlersInv'
<1>1. ASSUME NEW h \in Handlers PROVE HandlerInv(h)'
  <2>1. h # t /\ h \in Threads /\ t \in Threads
    BY ThreadsAssumption DEF Threads
  <2>2. pc'[h] = pc[h]
    BY <2>1 DEF Flush, LockFlush, CreateFile, CreateFails, WriteFile, WriteFails, ReturnError,
                Return, RInv, IInv, TypeOK
  <2>3. UNCHANGED <<mem, call, idx, ans, live>>
    BY DEF Flush, LockFlush, CreateFile, CreateFails, WriteFile, WriteFails, ReturnError, Return
  <2> QED  BY <2>2, <2>3, HandlerStays DEF RInv, HandlersInv, HandlerInv
<1> QED  BY <1>1 DEF HandlersInv, HandlerInv

LEMMA HandlersStep ==
  ASSUME RInv, [Next]_vars
  PROVE  HandlersInv'
<1>1. CASE \E h \in Handlers : Request(h) \/ Handle(h)
  BY <1>1, RequestHandlers, LockSaveHandlers, ApplyItemHandlers, UnlockSaveHandlers, ReadHandlers
  DEF Handle
<1>2. CASE UNCHANGED vars
  <2>1. ASSUME NEW h \in Handlers PROVE HandlerInv(h)'
    BY <1>2, HandlerStays DEF vars, RInv, HandlersInv, HandlerInv
  <2> QED  BY <2>1 DEF HandlersInv, HandlerInv
<1> QED  BY <1>1, <1>2, ProcessHandlers, FlushHandlers DEF Next

LEMMA RInvariance == Spec => []RInv
<1>1. IInv /\ HandlersInv /\ [Next]_vars => HandlersInv'
  BY HandlersStep DEF RInv
<1>2. IInv /\ HandlersInv => RInv
  BY DEF RInv
<1> QED  BY <1>1, <1>2, InitHandlers, Invariance, PTL DEF Spec

--------------------------------------------------------------------------------
(* The refinement mapping, by name.                                        *)

Image    == IF file = Broken THEN NoFile ELSE file
Phases   == [h \in Handlers |-> Phase(pc[h])]
Shown(h) == IF pc[h] = "reply" THEN ans[h] ELSE NoAnswer
Showing  == [h \in Handlers |-> Shown(h)]

LEMMA PhaseNames ==
  /\ Phase("save") = "update" /\ Phase("apply") = "update"
  /\ Phase("get") = "read" /\ Phase("read") = "read"
  /\ Phase("copy") = "read" /\ Phase("overlay") = "read"
  /\ Phase("reply") = "reply" /\ Phase("idle") = "idle" /\ Phase("off") = "idle"
<1>1. Phase("save") = "update" /\ Phase("apply") = "update"
  BY DEF Phase
<1>2. Phase("get") = "read" /\ Phase("read") = "read"
  BY DEF Phase
<1>3. Phase("copy") = "read" /\ Phase("overlay") = "read"
  BY DEF Phase
<1>4. Phase("reply") = "reply" /\ Phase("idle") = "idle" /\ Phase("off") = "idle"
  BY DEF Phase
<1> QED  BY <1>1, <1>2, <1>3, <1>4

(* The data of the two modules is the same.                                *)
LEMMA SameStores ==
  /\ Store!EmptyStore = EmptyStore /\ Store!NoAnswer = NoAnswer
  /\ \A m : Store!Loaded(m) = Loaded(m)
  /\ \A m, item : Store!Lookup(m, item) = Lookup(m, item)
  /\ \A listed, cs : Store!Overlaid(listed, cs) = Overlaid(listed, cs)
<1>1. Store!EmptyStore = EmptyStore /\ Store!NoAnswer = NoAnswer
  BY DEF EmptyStore, NoAnswer, Store!EmptyStore, Store!NoAnswer
<1>p. Store!Pow2 = Pow2
  BY DEF Pow2, Store!Pow2
<1>2. ASSUME NEW m PROVE Store!Loaded(m) = Loaded(m)
  BY <1>p DEF Loaded, LoadedCounters, Decodings, ToInt, ToFloat, Ulp, Magnitude, Int64,
         Store!Loaded, Store!LoadedCounters, Store!Decodings, Store!ToInt, Store!ToFloat,
         Store!Ulp, Store!Magnitude, Store!Int64
<1>3. ASSUME NEW m, NEW item PROVE Store!Lookup(m, item) = Lookup(m, item)
  BY DEF Lookup, NoAnswer, Store!Lookup, Store!NoAnswer
<1>4. ASSUME NEW listed, NEW cs PROVE Store!Overlaid(listed, cs) = Overlaid(listed, cs)
  BY DEF Overlaid, Store!Overlaid
<1> QED  BY <1>1, <1>2, <1>3, <1>4

LEMMA SameFold ==
  ASSUME NEW s, NEW items
  PROVE  Store!FoldLeft(Store!Updated, s, items) = Updates!FoldLeft(Updated, s, items)
BY DEF Updated, Incremented, Plus, Store!Updated, Store!Incremented, Store!Plus,
       Store!FoldLeft, Store!MapThenFoldSet, Store!Max,
       Updates!FoldLeft, Updates!MapThenFoldSet, Updates!Max

(* A step of one handler moves the phase and the answer of that one.       *)
LEMMA OneMoves ==
  ASSUME NEW h \in Handlers, \A g \in Handlers \ {h} : pc'[g] = pc[g] /\ ans'[g] = ans[g]
  PROVE  /\ Phases' = [Phases EXCEPT ![h] = Phase(pc'[h])]
         /\ Showing' = [Showing EXCEPT ![h] = Shown(h)']
         /\ Phase(pc'[h]) = Phase(pc[h]) => Phases' = Phases
         /\ Shown(h)' = Shown(h) => Showing' = Showing
<1>1. \A g \in Handlers \ {h} : Phase(pc'[g]) = Phase(pc[g]) /\ Shown(g)' = Shown(g)
  BY DEF Shown
<1>2. Phases' = [Phases EXCEPT ![h] = Phase(pc'[h])]
  BY <1>1 DEF Phases
<1>3. Showing' = [Showing EXCEPT ![h] = Shown(h)']
  BY <1>1 DEF Showing
<1>4. Phase(pc'[h]) = Phase(pc[h]) => Phases' = Phases
  BY <1>1 DEF Phases
<1>5. Shown(h)' = Shown(h) => Showing' = Showing
  BY <1>1 DEF Showing
<1> QED  BY <1>2, <1>3, <1>4, <1>5

LEMMA NoneMoves ==
  ASSUME \A g \in Handlers : pc'[g] = pc[g] /\ ans'[g] = ans[g]
  PROVE  Phases' = Phases /\ Showing' = Showing
BY DEF Phases, Showing, Shown

(* A step that MetricStore does not see.                                   *)
Stutter == UNCHANGED <<live, Image, Up, Phases, call, Showing>>

LEMMA StutterRefines ==
  ASSUME Stutter PROVE UNCHANGED Store!vars
BY DEF Stutter, Image, Phases, Showing, Shown, Store!vars

LEMMA InitRefines ==
  ASSUME Init PROVE Store!Init
<1>1. /\ live = EmptyStore /\ file = NoFile /\ ~Up
      /\ call = [h \in Handlers |-> NoCall]
      /\ \A h \in Handlers : pc[h] = "off" /\ ans[h] = NoAnswer
  BY DEF Init, Up, Threads, Flushers
<1>2. [h \in Handlers |-> Phase(pc[h])] = [h \in Handlers |-> "idle"]
  BY <1>1, PhaseNames
<1>3. [h \in Handlers |-> IF pc[h] = "reply" THEN ans[h] ELSE NoAnswer]
        = [h \in Handlers |-> NoAnswer]
  BY <1>1
<1>4. (IF file = Broken THEN NoFile ELSE file) = NoFile
  BY <1>1
<1> QED  BY <1>1, <1>2, <1>3, <1>4, SameStores DEF Store!Init

(* A handler that is somewhere is in a process that runs.                  *)
LEMMA RunsUp ==
  ASSUME RInv, NEW t \in Threads, pc[t] # "off"
  PROVE  Up
BY DEF RInv, IInv, DownIsOff

LEMMA BootRefines ==
  ASSUME RInv, Boot PROVE Store!Start
<1>1. ~Up /\ Up'
  BY ThreadsAssumption DEF Boot, Up, Threads, Flushers
<1>2. \A h \in Handlers : pc[h] = "off" /\ pc'[h] = "idle" /\ ans'[h] = ans[h]
  BY <1>1, ThreadsAssumption DEF Boot, RInv, IInv, DownIsOff, Threads, Flushers
<1>3. Phases' = Phases /\ Showing' = Showing
  BY <1>2, PhaseNames DEF Phases, Showing, Shown
<1>4. \/ Image # NoFile /\ live' \in Loaded(Image)
      \/ live' = EmptyStore
  BY DEF Boot, Readable, Image
<1>5. Image' = Image /\ call' = call
  BY DEF Boot, Image
<1> QED  BY <1>1, <1>3, <1>4, <1>5, SameStores
         DEF Store!Start, Image, Phases, Showing, Shown

LEMMA DieRefines ==
  ASSUME RInv, Kill \/ Exit PROVE Store!Stop
<1>1. Up /\ ~Up' /\ live' = EmptyStore /\ Image' = Image
      /\ call' = [h \in Handlers |-> NoCall]
  BY DEF Kill, Exit, Die, Up, Image, Threads, Flushers
<1>2. \A h \in Handlers : pc'[h] = "off"
  BY DEF Kill, Exit, Die, Threads
<1>3. Phases' = [h \in Handlers |-> "idle"] /\ Showing' = [h \in Handlers |-> NoAnswer]
  BY <1>2, PhaseNames DEF Phases, Showing, Shown
<1> QED  BY <1>1, <1>3, SameStores DEF Store!Stop, Image, Phases, Showing, Shown

LEMMA SignalRefines ==
  ASSUME RInv, Signal \/ Tick PROVE Stutter
<1>1. /\ \A h \in Handlers : pc'[h] = pc[h] /\ ans'[h] = ans[h]
      /\ UNCHANGED <<live, file, call>>
  BY ThreadsAssumption DEF Signal, Tick, RInv, IInv, TypeOK, Threads, Flushers
<1>2. Up /\ Up'
  <2>1. Up
    BY RunsUp DEF Signal, Tick, Threads, Flushers
  <2> QED  BY <2>1, ThreadsAssumption DEF Signal, Tick, Up, RInv, IInv, TypeOK, Threads, Flushers
<1> QED  BY <1>1, <1>2, NoneMoves DEF Stutter, Image

LEMMA FlushRefines ==
  ASSUME RInv, NEW t \in Flushers, Flush(t) PROVE Store!Persist \/ Stutter
<1>1. \A h \in Handlers : h # t /\ pc'[h] = pc[h] /\ ans'[h] = ans[h]
  <2>1. t \in Threads /\ t \notin Handlers /\ Handlers \subseteq Threads
    BY ThreadsAssumption DEF Threads
  <2> QED  BY <2>1 DEF Flush, LockFlush, CreateFile, CreateFails, WriteFile, WriteFails,
                       ReturnError, Return, RInv, IInv, TypeOK
<1>2. Phases' = Phases /\ Showing' = Showing
  BY <1>1, NoneMoves
<1>3. UNCHANGED <<mem, live, call>>
  BY DEF Flush, LockFlush, CreateFile, CreateFails, WriteFile, WriteFails, ReturnError, Return
<1>4. Up /\ Up'
  <2>1. Up
    BY RunsUp DEF Flush, LockFlush, CreateFile, CreateFails, WriteFile, WriteFails, Threads
  <2>2. pc'[t] # "off" /\ \A u \in Threads \ {t} : pc'[u] = pc[u]
    BY DEF Flush, LockFlush, CreateFile, CreateFails, WriteFile, WriteFails, ReturnError,
           Return, RInv, IInv, TypeOK, Threads
  <2> QED  BY <2>1, <2>2 DEF Up, Threads, Flushers
<1>5. Image' \in {Image, live, NoFile}
  <2>1. file' \in {file, Broken, live}
    <3>1. CASE WriteFile(t)
      <4>1. mem = live
        BY <3>1, FlushSeesCommitted DEF WriteFile, RInv
      <4> QED  BY <3>1, <4>1 DEF WriteFile
    <3>2. CASE ~WriteFile(t)
      BY <3>2 DEF Flush, LockFlush, CreateFile, CreateFails, WriteFails
    <3> QED  BY <3>1, <3>2
  <2>2. live # Broken
    BY FileAssumption DEF RInv, IInv, TypeOK
  <2> QED  BY <2>1, <2>2 DEF Image
<1>6. CASE Image' = Image
  BY <1>2, <1>3, <1>4, <1>6 DEF Stutter
<1>7. CASE Image' \in {live, NoFile}
  BY <1>2, <1>3, <1>4, <1>7 DEF Store!Persist, Image, Phases, Showing, Shown
<1> QED  BY <1>5, <1>6, <1>7

(* A handler does not start or end the process.                            *)
LEMMA HandlersStayUp ==
  ASSUME RInv, NEW h \in Handlers, Request(h) \/ Handle(h)
  PROVE  Up /\ Up'
<1>1. h \in Threads /\ h # Main /\ Main \in Threads
  BY ThreadsAssumption DEF Threads, Flushers
<1>2. pc[h] # "off"
  BY DEF Request, Handle, LockSave, ApplyItem, UnlockSave, LockGet, Read, CopyGauges,
         OverlayCounters, Reply
<1>3. pc'[Main] = pc[Main]
  BY <1>1 DEF Request, Handle, LockSave, ApplyItem, UnlockSave, LockGet, Read, CopyGauges,
              OverlayCounters, Reply, RInv, IInv, TypeOK
<1> QED  BY <1>1, <1>2, <1>3, RunsUp DEF Up

LEMMA RequestRefines ==
  ASSUME RInv, NEW h \in Handlers, Request(h) PROVE Store!Invoke(h)
<1>1. PICK c \in Calls :
        /\ call' = [call EXCEPT ![h] = c]
        /\ pc' = [pc EXCEPT ![h] = IF c.op \in {"save", "saveAndGet"} THEN "save" ELSE "get"]
  BY DEF Request
<1>2. /\ pc[h] = "idle" /\ \A g \in Handlers \ {h} : pc'[g] = pc[g] /\ ans'[g] = ans[g]
      /\ pc'[h] = (IF c.op \in {"save", "saveAndGet"} THEN "save" ELSE "get")
      /\ UNCHANGED <<live, file, ans>>
  BY <1>1 DEF Request, RInv, IInv, TypeOK, Threads
<1>3. Phase(pc[h]) = "idle"
      /\ Phase(pc'[h]) = (IF c.op \in {"get", "getAll"} THEN "read" ELSE "update")
  <2>1. c.op \in {"save", "saveAndGet", "get", "getAll"}
    BY CallsAssumption
  <2> QED  BY <1>2, <2>1, PhaseNames
<1>4. Shown(h)' = Shown(h)
  BY <1>2 DEF Shown, RInv, HandlersInv, Answers
<1>5. /\ Phases' = [Phases EXCEPT ![h] = IF c.op \in {"get", "getAll"} THEN "read" ELSE "update"]
      /\ Showing' = Showing /\ Phases[h] = "idle"
  BY <1>2, <1>3, <1>4, OneMoves DEF Phases
<1>6. Image' = Image /\ Up /\ Up'
  BY <1>2, HandlersStayUp DEF Image
<1> QED  BY <1>1, <1>2, <1>5, <1>6 DEF Store!Invoke, Image, Phases, Showing, Shown

(* The moment of an update is the release of the mutex.                    *)
LEMMA UnlockSaveRefines ==
  ASSUME RInv, NEW h \in Handlers, UnlockSave(h) PROVE Store!Update(h)
<1> DEFINE items == call[h].items
<1>1. /\ pc[h] = "apply" /\ idx[h] \notin 1 .. Len(items)
      /\ pc'[h] = (IF call[h].op = "saveAndGet" THEN "get" ELSE "reply")
      /\ \A g \in Handlers \ {h} : pc'[g] = pc[g] /\ ans'[g] = ans[g]
      /\ live' = mem /\ UNCHANGED <<call, ans, file>>
  BY DEF UnlockSave, RInv, IInv, TypeOK, Threads
<1>2. call[h] \in Calls /\ call[h].op \in {"save", "saveAndGet"} /\ items \in Seq(Items)
  BY <1>1, CallsAssumption DEF RInv, HandlersInv, Follows
<1>3. live' = Store!FoldLeft(Store!Updated, live, items)
  <2>1. idx[h] \in 1 .. Len(items) + 1 /\ mem = Updates!After(live, items, idx[h] - 1)
    BY <1>1 DEF RInv, HandlersInv, Applies
  <2>2. idx[h] - 1 = Len(items)
    BY <1>1, <1>2, <2>1
  <2>3. mem = Updates!After(live, items, Len(items))
    BY <2>1, <2>2
  <2>4. mem = Updates!FoldLeft(Updated, live, items)
    BY <1>2, <2>3, Updates!FoldWhole
  <2> QED  BY <1>1, <2>4, SameFold
<1>4. Phase(pc[h]) = "update"
      /\ Phase(pc'[h]) = (IF call[h].op = "save" THEN "reply" ELSE "read")
  BY <1>1, <1>2, PhaseNames
<1>5. Shown(h)' = Shown(h)
  BY <1>1 DEF Shown, RInv, HandlersInv, Answers
<1>6. /\ Phases' = [Phases EXCEPT ![h] = IF call[h].op = "save" THEN "reply" ELSE "read"]
      /\ Showing' = Showing /\ Phases[h] = "update"
  BY <1>1, <1>4, <1>5, OneMoves DEF Phases
<1>7. Image' = Image /\ Up /\ Up'
  BY <1>1, HandlersStayUp DEF Image, Handle
<1> QED  BY <1>1, <1>3, <1>6, <1>7 DEF Store!Update, Image, Phases, Showing, Shown

(* A reader has the mutex, so that it sees a store between two updates.    *)
LEMMA ReaderSeesCommitted ==
  ASSUME RInv, NEW h \in Handlers, pc[h] \in {"read", "overlay"}
  PROVE  mem = live
<1>1. \A g \in Handlers : pc[g] # "apply"
  BY OthersOutside DEF RInv, Critical
<1> QED  BY <1>1 DEF RInv, IInv, Committed

LEMMA GetRefines ==
  ASSUME RInv, NEW h \in Handlers, Read(h) \/ OverlayCounters(h) PROVE Store!Get(h)
<1> DEFINE result == IF call[h].op = "getAll" THEN Overlaid(live.gauges, live.counters)
                                              ELSE Lookup(live, call[h].items[1])
<1>1. /\ pc[h] \in {"read", "overlay"} /\ pc'[h] = "reply"
      /\ \A g \in Handlers \ {h} : pc'[g] = pc[g] /\ ans'[g] = ans[g]
      /\ UNCHANGED <<live, call, file>>
  BY DEF Read, OverlayCounters, RInv, IInv, TypeOK, Threads
<1>2. mem = live
  BY <1>1, ReaderSeesCommitted
<1>3. ans'[h] = result
  <2>1. CASE Read(h)
    <3>1. call[h].op # "getAll" /\ ans'[h] = Lookup(mem, call[h].items[1])
      BY <2>1 DEF Read, Target, RInv, HandlersInv, Follows, IInv, TypeOK
    <3> QED  BY <1>2, <3>1
  <2>2. CASE OverlayCounters(h)
    <3>1. call[h].op = "getAll" /\ ans[h] = mem.gauges
      BY <2>2 DEF OverlayCounters, RInv, HandlersInv, Follows, Answers
    <3>2. ans'[h] = Overlaid(ans[h], mem.counters)
      BY <2>2 DEF OverlayCounters, RInv, IInv, TypeOK
    <3> QED  BY <1>2, <3>1, <3>2
  <2> QED  BY <2>1, <2>2
<1>4. Phase(pc[h]) = "read" /\ Phase(pc'[h]) = "reply"
  BY <1>1, PhaseNames
<1>5. Shown(h)' = result
  BY <1>1, <1>3 DEF Shown
<1>6. /\ Phases' = [Phases EXCEPT ![h] = "reply"] /\ Phases[h] = "read"
      /\ Showing' = [Showing EXCEPT ![h] = result]
  BY <1>1, <1>4, <1>5, OneMoves DEF Phases
<1>7. Image' = Image /\ Up /\ Up'
  BY <1>1, HandlersStayUp DEF Image, Handle
<1>8. result = IF call[h].op = "getAll" THEN Store!Overlaid(live.gauges, live.counters)
                                        ELSE Store!Lookup(live, call[h].items[1])
  BY SameStores
<1> HIDE DEF result
<1> QED  BY <1>1, <1>6, <1>7, <1>8 DEF Store!Get, Image, Phases, Showing, Shown

LEMMA ReplyRefines ==
  ASSUME RInv, NEW h \in Handlers, Reply(h) PROVE Store!Respond(h)
<1>1. /\ pc[h] = "reply" /\ pc'[h] = "idle" /\ ans'[h] = NoAnswer
      /\ \A g \in Handlers \ {h} : pc'[g] = pc[g] /\ ans'[g] = ans[g]
      /\ call' = [call EXCEPT ![h] = NoCall] /\ UNCHANGED <<live, file>>
  BY DEF Reply, RInv, IInv, TypeOK, Threads
<1>2. Phase(pc[h]) = "reply" /\ Phase(pc'[h]) = "idle"
  BY <1>1, PhaseNames
<1>3. /\ Phases' = [Phases EXCEPT ![h] = "idle"] /\ Phases[h] = "reply"
      /\ Showing' = [Showing EXCEPT ![h] = NoAnswer]
  <2>1. Shown(h)' = NoAnswer
    BY <1>1 DEF Shown
  <2> QED  BY <1>1, <1>2, <2>1, OneMoves DEF Phases
<1>4. Image' = Image /\ Up /\ Up'
  BY <1>1, HandlersStayUp DEF Image, Handle
<1> QED  BY <1>1, <1>3, <1>4, SameStores DEF Store!Respond, Image, Phases, Showing, Shown

(* What happens between the locks is invisible.                            *)
LEMMA InsideRefines ==
  ASSUME RInv, NEW h \in Handlers,
         LockSave(h) \/ ApplyItem(h) \/ LockGet(h) \/ CopyGauges(h)
  PROVE  Stutter
<1>1. /\ \A g \in Handlers \ {h} : pc'[g] = pc[g] /\ ans'[g] = ans[g]
      /\ UNCHANGED <<live, call, file>>
  BY DEF LockSave, ApplyItem, LockGet, CopyGauges, RInv, IInv, TypeOK, Threads
<1>2. \/ pc[h] \in {"save", "apply"} /\ pc'[h] = "apply"
      \/ pc[h] \in {"get", "copy"} /\ pc'[h] \in {"read", "copy", "overlay"}
  BY DEF LockSave, ApplyItem, LockGet, CopyGauges, RInv, IInv, TypeOK, Threads
<1>3. Phase(pc'[h]) = Phase(pc[h])
  BY <1>2, PhaseNames
<1>4. Shown(h)' = Shown(h)
  BY <1>2 DEF Shown
<1>5. Phases' = Phases /\ Showing' = Showing
  BY <1>1, <1>3, <1>4, OneMoves
<1>6. Up /\ Up'
  BY HandlersStayUp DEF Handle
<1> QED  BY <1>1, <1>5, <1>6 DEF Stutter, Image

LEMMA StepRefines ==
  ASSUME RInv, [Next]_vars PROVE [Store!Next]_Store!vars
<1>1. CASE Boot \/ Kill \/ Exit
  BY <1>1, BootRefines, DieRefines DEF Store!Next
<1>2. CASE Signal \/ Tick
  BY <1>2, SignalRefines, StutterRefines
<1>3. ASSUME NEW h \in Handlers, Request(h) \/ Handle(h)
      PROVE  [Store!Next]_Store!vars
  <2>1. CASE Request(h)
    BY <2>1, RequestRefines DEF Store!Next
  <2>2. CASE UnlockSave(h)
    BY <2>2, UnlockSaveRefines DEF Store!Next
  <2>3. CASE Read(h) \/ OverlayCounters(h)
    BY <2>3, GetRefines DEF Store!Next
  <2>4. CASE Reply(h)
    BY <2>4, ReplyRefines DEF Store!Next
  <2>5. CASE LockSave(h) \/ ApplyItem(h) \/ LockGet(h) \/ CopyGauges(h)
    BY <2>5, InsideRefines, StutterRefines
  <2> QED  BY <1>3, <2>1, <2>2, <2>3, <2>4, <2>5 DEF Handle
<1>4. ASSUME NEW t \in Flushers, Flush(t)
      PROVE  [Store!Next]_Store!vars
  BY <1>4, FlushRefines, StutterRefines DEF Store!Next
<1>5. CASE UNCHANGED vars
  <2>1. Stutter
    BY <1>5 DEF vars, Stutter, Image, Up, Phases, Showing, Shown
  <2> QED  BY <2>1, StutterRefines
<1> QED  BY <1>1, <1>2, <1>3, <1>4, <1>5 DEF Next

(* To its clients the storage is a store in which every update, a batch of *)
(* any length included, and every read happens at one moment, and whose    *)
(* file holds some state of it or nothing: mutex, item-by-item updates,    *)
(* map-by-map copies, file errors, signals and crashes cannot be told      *)
(* apart from that (mem_storage.go under the handlers and main).           *)
THEOREM StorageImplementsStore == Spec => ImplementsMetricStore
<1>1. Init => Store!Init
  BY InitRefines
<1>2. RInv /\ [Next]_vars => [Store!Next]_Store!vars
  BY StepRefines
<1> QED  BY <1>1, <1>2, RInvariance, PTL DEF Spec, ImplementsMetricStore, Store!Spec
===============================================================================
