------------------------------ MODULE MemStorage ------------------------------
(***************************************************************************)
(* The server's in-memory storage and its file, inside the process that    *)
(* owns them: the goroutines that net/http runs the handlers in, the       *)
(* periodic saver and the main goroutine, which loads the file at start-up *)
(* and saves it on a signal.  One mutex guards both maps, and Flush keeps  *)
(* it over its retries.  The process may be killed at any moment.          *)
(***************************************************************************)
EXTENDS Metrics, FiniteSets

CONSTANTS
  Handlers,               \* goroutines that serve one request at a time
  Main, Saver,            \* the goroutines that call Flush
  Nobody,                 \* the mutex is free
  Calls,                  \* requests that reach the storage, see CallsAssumption
  Periodic,               \* StoreInterval > 0: the saver runs
  Restore,                \* load the file at start-up
  HasFile,                \* the file path is not empty
  Faults,                 \* the file system may fail
  NoFile, Broken          \* no file yet; a file that is no JSON document

Flushers == {Main, Saver}
Threads  == Handlers \cup Flushers
MaxTries == 4             \* retryFileOperation: one attempt and three more

ASSUME ThreadsAssumption ==
  Main # Saver /\ Handlers \cap Flushers = {} /\ Nobody \notin Threads

ASSUME FileAssumption == NoFile # Broken /\ {NoFile, Broken} \cap Stores = {}

ASSUME FlagsAssumption == {Periodic, Restore, HasFile, Faults} \subseteq BOOLEAN

(* The handlers reject a single update without a name, type or value before*)
(* they call the storage; the elements of a batch are not looked at.       *)
ASSUME CallsAssumption ==
  /\ Calls \subseteq [op: {"save", "saveAndGet", "get", "getAll"}, items: Seq(Items)]
  /\ \A c \in Calls :
       /\ c.op \in {"saveAndGet", "get"} => Len(c.items) = 1 /\ c.items[1].type # "other"
       /\ c.op = "saveAndGet" => c.items[1].value # Nil
       /\ c.op = "save" => c.items # << >>

NoCall == [op |-> "none", items |-> << >>]

VARIABLES
  mem,     \* the two maps
  lock,    \* who holds the mutex
  pc,      \* where each goroutine is; "off" when it does not exist
  call,    \* the request a handler works on
  idx,     \* its position in the items of the request
  ans,     \* what it read for the response
  tries,   \* attempts of the Flush in progress
  file,    \* NoFile, Broken or the store that was written
  live,    \* history: the maps at the last unlock after an update
  since    \* history: the values of live since the signal, {} before one
           \* and after a Flush on it that returned an error

vars == <<mem, lock, pc, call, idx, ans, tries, file, live, since>>

Target(h) == call[h].items[1]

TypeOK ==
  /\ mem \in Stores
  /\ lock \in Threads \cup {Nobody}
  /\ pc \in [Threads -> {"off", "idle", "save", "apply", "get", "read", "copy", "overlay",
                         "reply", "flush", "create", "write", "exit"}]
  /\ call \in [Handlers -> Calls \cup {NoCall}]
  /\ idx \in [Handlers -> Nat]
  /\ ans \in [Handlers -> Listings]
  /\ tries \in [Flushers -> 0 .. MaxTries]
  /\ file \in Stores \cup {NoFile, Broken}
  /\ live \in Stores
  /\ since \subseteq Stores

Up == pc[Main] # "off"

Init ==
  /\ mem = EmptyStore
  /\ lock = Nobody
  /\ pc = [t \in Threads |-> "off"]
  /\ call = [h \in Handlers |-> NoCall]
  /\ idx = [h \in Handlers |-> 0]
  /\ ans = [h \in Handlers |-> NoAnswer]
  /\ tries = [t \in Flushers |-> 0]
  /\ file = NoFile
  /\ live = EmptyStore
  /\ since = {}

--------------------------------------------------------------------------------
(* The process *)

Readable == Restore /\ HasFile /\ file \notin {NoFile, Broken}

(* NewMemStorage and Load, before anything else runs.  A file that cannot  *)
(* be opened or decoded is logged and the storage starts empty.            *)
Boot ==
  /\ ~Up
  /\ \/ Readable /\ mem' \in Loaded(file)
     \/ (Readable => Faults) /\ mem' = EmptyStore
  /\ live' = mem'
  /\ pc' = [t \in Threads |-> IF t = Saver /\ ~Periodic THEN "off" ELSE "idle"]
  /\ since' = {}
  /\ UNCHANGED <<lock, call, idx, ans, tries, file>>

(* The process is gone, in whatever state its goroutines are.              *)
Die ==
  /\ mem' = EmptyStore
  /\ live' = EmptyStore
  /\ lock' = Nobody
  /\ pc' = [t \in Threads |-> "off"]
  /\ call' = [h \in Handlers |-> NoCall]
  /\ idx' = [h \in Handlers |-> 0]
  /\ ans' = [h \in Handlers |-> NoAnswer]
  /\ tries' = [t \in Flushers |-> 0]
  /\ UNCHANGED file

Kill == Up /\ Die /\ since' = {}

(* A bug: the file is left as the last Flush wrote it. *)
UnsavedSignal ==
  /\ pc[Main] = "idle"
  /\ pc' = [pc EXCEPT ![Main] = "exit"]
  /\ since' = {live}
  /\ UNCHANGED <<mem, lock, call, idx, ans, tries, file, live>>

Signal ==
  /\ pc[Main] = "idle"
  /\ pc' = [pc EXCEPT ![Main] = "flush"]
  /\ since' = {live}
  /\ UNCHANGED <<mem, lock, call, idx, ans, tries, file, live>>

(* main returns: neither the HTTP server nor the saver is stopped before.  *)
Exit == pc[Main] = "exit" /\ Die /\ since' = IF lock = Saver THEN {} ELSE since

Tick ==
  /\ pc[Saver] = "idle"
  /\ pc' = [pc EXCEPT ![Saver] = "flush"]
  /\ UNCHANGED <<mem, lock, call, idx, ans, tries, file, live, since>>

--------------------------------------------------------------------------------
(* The handlers *)

Request(h) ==
  /\ pc[h] = "idle"
  /\ \E c \in Calls :
       /\ call' = [call EXCEPT ![h] = c]
       /\ pc' = [pc EXCEPT ![h] = IF c.op \in {"save", "saveAndGet"} THEN "save" ELSE "get"]
  /\ UNCHANGED <<mem, lock, idx, ans, tries, file, live, since>>

(* A bug: an update does not wait for the mutex. *)
BargingLockSave(h) ==
  /\ pc[h] = "save"
  /\ lock' = h
  /\ pc' = [pc EXCEPT ![h] = "apply"]
  /\ idx' = [idx EXCEPT ![h] = 1]
  /\ UNCHANGED <<mem, call, ans, tries, file, live, since>>

LockSave(h) ==
  /\ pc[h] = "save" /\ lock = Nobody
  /\ lock' = h
  /\ pc' = [pc EXCEPT ![h] = "apply"]
  /\ idx' = [idx EXCEPT ![h] = 1]
  /\ UNCHANGED <<mem, call, ans, tries, file, live, since>>

ApplyItem(h) ==
  /\ pc[h] = "apply" /\ idx[h] \in 1 .. Len(call[h].items)
  /\ mem' = Updated(mem, call[h].items[idx[h]])
  /\ idx' = [idx EXCEPT ![h] = @ + 1]
  /\ UNCHANGED <<lock, pc, call, ans, tries, file, live, since>>

(* HandleUpdateMetricJSON goes on to read the metric back, with the mutex  *)
(* free in between.                                                        *)
UnlockSave(h) ==
  /\ pc[h] = "apply" /\ idx[h] \notin 1 .. Len(call[h].items)
  /\ lock' = Nobody
  /\ live' = mem
  /\ since' = IF since = {} THEN {} ELSE since \cup {mem}
  /\ pc' = [pc EXCEPT ![h] = IF call[h].op = "saveAndGet" THEN "get" ELSE "reply"]
  /\ idx' = [idx EXCEPT ![h] = 0]
  /\ UNCHANGED <<mem, call, ans, tries, file>>

LockGet(h) ==
  /\ pc[h] = "get" /\ lock = Nobody
  /\ lock' = h
  /\ pc' = [pc EXCEPT ![h] = IF call[h].op = "getAll" THEN "copy" ELSE "read"]
  /\ UNCHANGED <<mem, call, idx, ans, tries, file, live, since>>

Read(h) ==
  /\ pc[h] = "read"
  /\ ans' = [ans EXCEPT ![h] = Lookup(mem, Target(h))]
  /\ lock' = Nobody
  /\ pc' = [pc EXCEPT ![h] = "reply"]
  /\ UNCHANGED <<mem, call, idx, tries, file, live, since>>

(* A bug: the two maps are copied in two critical sections. *)
ReleasingCopyGauges(h) ==
  /\ pc[h] = "copy"
  /\ ans' = [ans EXCEPT ![h] = mem.gauges]
  /\ lock' = Nobody
  /\ pc' = [pc EXCEPT ![h] = "overlay"]
  /\ UNCHANGED <<mem, call, idx, tries, file, live, since>>

CopyGauges(h) ==
  /\ pc[h] = "copy"
  /\ ans' = [ans EXCEPT ![h] = mem.gauges]
  /\ pc' = [pc EXCEPT ![h] = "overlay"]
  /\ UNCHANGED <<mem, lock, call, idx, tries, file, live, since>>

OverlayCounters(h) ==
  /\ pc[h] = "overlay"
  /\ ans' = [ans EXCEPT ![h] = Overlaid(@, mem.counters)]
  /\ lock' = Nobody
  /\ pc' = [pc EXCEPT ![h] = "reply"]
  /\ UNCHANGED <<mem, call, idx, tries, file, live, since>>

Reply(h) ==
  /\ pc[h] = "reply"
  /\ pc' = [pc EXCEPT ![h] = "idle"]
  /\ call' = [call EXCEPT ![h] = NoCall]
  /\ ans' = [ans EXCEPT ![h] = NoAnswer]
  /\ UNCHANGED <<mem, lock, idx, tries, file, live, since>>

--------------------------------------------------------------------------------
(* Flush, called by the saver on a tick and by main on a signal *)

Return(t) ==
  /\ lock' = Nobody
  /\ pc' = [pc EXCEPT ![t] = IF t = Main THEN "exit" ELSE "idle"]
  /\ tries' = [tries EXCEPT ![t] = 0]

ReturnError(t) == Return(t) /\ since' = {}

(* A bug: the maps are written without the mutex. *)
UnlockedFlush(t) ==
  /\ pc[t] = "flush" /\ HasFile
  /\ pc' = [pc EXCEPT ![t] = "create"]
  /\ tries' = [tries EXCEPT ![t] = 1]
  /\ UNCHANGED <<mem, lock, call, idx, ans, file, live, since>>

LockFlush(t) ==
  /\ pc[t] = "flush" /\ lock = Nobody
  /\ \/ ~HasFile /\ Return(t)
     \/ /\ HasFile
        /\ lock' = t
        /\ pc' = [pc EXCEPT ![t] = "create"]
        /\ tries' = [tries EXCEPT ![t] = 1]
  /\ UNCHANGED <<mem, call, idx, ans, file, live, since>>

(* os.Create truncates the file that the last Flush wrote.                 *)
CreateFile(t) ==
  /\ pc[t] = "create"
  /\ file' = Broken
  /\ pc' = [pc EXCEPT ![t] = "write"]
  /\ UNCHANGED <<mem, lock, call, idx, ans, tries, live, since>>

(* A bug: the attempts are not counted. *)
EndlessCreateFails(t) ==
  /\ Faults /\ pc[t] = "create"
  /\ tries' = [tries EXCEPT ![t] = 3 - @]
  /\ UNCHANGED <<mem, lock, pc, call, idx, ans, file, live, since>>

(* EAGAIN and EACCES are tried again after a sleep, with the mutex held;   *)
(* any other error, and the last of the attempts, ends the Flush.          *)
CreateFails(t) ==
  /\ Faults /\ pc[t] = "create"
  /\ \/ /\ tries[t] < MaxTries
        /\ tries' = [tries EXCEPT ![t] = @ + 1]
        /\ UNCHANGED <<lock, pc, since>>
     \/ ReturnError(t)
  /\ UNCHANGED <<mem, call, idx, ans, file, live>>

WriteFile(t) ==
  /\ pc[t] = "write" /\ Encodable(mem)
  /\ file' = mem
  /\ Return(t)
  /\ since' = IF t = Main THEN since \cup {live} ELSE since
  /\ UNCHANGED <<mem, call, idx, ans, live>>

(* A bug: an error returns without the deferred Unlock. *)
LeakingWriteFails(t) ==
  /\ pc[t] = "write" /\ (Faults \/ ~Encodable(mem))
  /\ pc' = [pc EXCEPT ![t] = IF t = Main THEN "exit" ELSE "idle"]
  /\ tries' = [tries EXCEPT ![t] = 0]
  /\ UNCHANGED <<mem, lock, call, idx, ans, file, live, since>>

(* Nothing, or a part of the document, was written.  The whole operation is*)
(* tried again after EAGAIN or EACCES; a value that has no JSON form, any  *)
(* other error and the last of the attempts end the Flush.                 *)
WriteFails(t) ==
  /\ pc[t] = "write" /\ (Faults \/ ~Encodable(mem))
  /\ \/ /\ Encodable(mem) /\ tries[t] < MaxTries
        /\ tries' = [tries EXCEPT ![t] = @ + 1]
        /\ pc' = [pc EXCEPT ![t] = "create"]
        /\ UNCHANGED <<lock, since>>
     \/ ReturnError(t)
  /\ UNCHANGED <<mem, call, idx, ans, file, live>>

--------------------------------------------------------------------------------
Handle(h) ==
  \/ LockSave(h) \/ ApplyItem(h) \/ UnlockSave(h)
  \/ LockGet(h) \/ Read(h) \/ CopyGauges(h) \/ OverlayCounters(h)
  \/ Reply(h)

Flush(t) ==
  LockFlush(t) \/ CreateFile(t) \/ CreateFails(t) \/ WriteFile(t) \/ WriteFails(t)

Next ==
  \/ Boot \/ Kill \/ Signal \/ Exit \/ Tick
  \/ \E h \in Handlers : Request(h) \/ Handle(h)
  \/ \E t \in Flushers : Flush(t)

Spec == Init /\ [][Next]_vars

(* A goroutine that can run does; one that waits for the mutex gets it, for*)
(* sync.Mutex hands itself over to a waiter that has waited a millisecond. *)
(* Nothing makes a request, a tick, a signal or a crash happen.            *)
Fairness ==
  /\ WF_vars(Exit)
  /\ \A h \in Handlers : WF_vars(Handle(h)) /\ SF_vars(LockSave(h)) /\ SF_vars(LockGet(h))
  /\ \A t \in Flushers : WF_vars(Flush(t)) /\ SF_vars(LockFlush(t))

FairSpec == Spec /\ Fairness

--------------------------------------------------------------------------------
(* Properties *)

Critical == {"apply", "read", "copy", "overlay", "create", "write"}

(* The mutex belongs to exactly the goroutine that is inside a method of   *)
(* the storage: every path out of a method, the error paths of Flush       *)
(* included, gives it back (the deferred Unlock calls of mem_storage.go).  *)
MutualExclusion == \A t \in Threads : lock = t <=> pc[t] \in Critical

(* What is written to the file is the state that the completed updates made*)
(* of the store: never half of a batch, never a state older than an update *)
(* that was finished before (Flush against UpdateMetricsBatch).            *)
SnapshotsAreCommitted == [][file' # file => file' \in {Broken, live}]_vars

(* After a shutdown by signal whose Flush returned nil the file holds the  *)
(* store as it was at the signal or later: no update acknowledged before   *)
(* the signal is lost (server main.go:96-103), whatever handlers do and    *)
(* whatever the saver has written.  A Flush of the saver that fails, or    *)
(* that main's return cuts short, may leave a truncated file, and ends     *)
(* since: those shutdowns are left out.                                    *)
ShutdownKeepsAcked == ~Up /\ since # {} => file \in since

(* A request is answered, even when it meets a Flush of the saver or of    *)
(* main that keeps the mutex while it retries (mem_storage.go:186-204),    *)
(* unless the process ends.                                                *)
RequestsAnswered == \A h \in Handlers : pc[h] # "idle" ~> pc[h] \in {"idle", "off"}

(* After a signal the process ends, whatever the saver, which may hold the *)
(* mutex and take it again, and the handlers do (server main.go:96-103).   *)
ShutdownTerminates == pc[Main] = "flush" ~> ~Up
===============================================================================
