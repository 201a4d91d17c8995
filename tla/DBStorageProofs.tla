---------------------------- MODULE DBStorageProofs ----------------------------
(***************************************************************************)
(* Proofs about DBStorage.                                                 *)
(***************************************************************************)
EXTENDS DBStorage, Induction, SequenceTheorems

--------------------------------------------------------------------------------
(* What the statements of a transaction make of the tables.                *)

Upserts == INSTANCE Folding WITH Op <- Upsert

(* FoldLeft is the same operator in the instance as here. *)
LEMMA SameFold ==
  ASSUME NEW base, NEW items
  PROVE  Upserts!FoldLeft(Upsert, base, items) = FoldLeft(Upsert, base, items)
BY DEF FoldLeft, MapThenFoldSet, Max, Upserts!FoldLeft, Upserts!MapThenFoldSet, Upserts!Max

IsTable(t) == t = [r \in Rows |-> t[r]]

(* An upsert touches one row, and looks at no other. *)
LEMMA UpsertRow ==
  ASSUME NEW t, IsTable(t), NEW item \in Items
  PROVE  /\ IsTable(Upsert(t, item))
         /\ \A r \in Rows \ {item.row} : Upsert(t, item)[r] = t[r]
         /\ Upsert(t, item)[item.row] =
              IF item.row \in Counters /\ t[item.row] # Absent THEN t[item.row] + item.value
                                                               ELSE item.value
BY DEF Upsert, Items, IsTable

(* So a row of the result depends on that row alone, and a row that no     *)
(* statement writes stays as it was.                                       *)
LEMMA FoldRows ==
  ASSUME NEW items \in Seq(Items), NEW t, NEW u, IsTable(t), IsTable(u)
  PROVE  \A n \in 0 .. Len(items) :
           /\ IsTable(Upserts!After(t, items, n)) /\ IsTable(Upserts!After(u, items, n))
           /\ \A r \in Rows :
                t[r] = u[r] => Upserts!After(t, items, n)[r] = Upserts!After(u, items, n)[r]
           /\ \A r \in Rows :
                (\A i \in 1 .. n : items[i].row # r) => Upserts!After(t, items, n)[r] = t[r]
<1> DEFINE F(b, n) == Upserts!After(b, items, n)
           Good(n) == /\ IsTable(F(t, n)) /\ IsTable(F(u, n))
                      /\ \A r \in Rows : t[r] = u[r] => F(t, n)[r] = F(u, n)[r]
                      /\ \A r \in Rows : (\A i \in 1 .. n : items[i].row # r)
                                           => F(t, n)[r] = t[r]
           S == {n \in Nat : n <= Len(items) => Good(n)}
<1>1. 0 \in S
  <2>2. F(t, 0) = t /\ F(u, 0) = u
    BY Upserts!FoldEmpty
  <2> HIDE DEF F
  <2> QED
    BY <2>2
<1>2. ASSUME NEW k \in Nat, k \in S PROVE k + 1 \in S
  <2>1. SUFFICES ASSUME k + 1 <= Len(items) PROVE Good(k + 1)
    OBVIOUS
  <2>2. k + 1 \in 1 .. Len(items) /\ (k + 1) - 1 = k /\ Good(k)
    BY <1>2, <2>1
  <2>3. items[k + 1] \in Items
    BY <2>2
  <2>4. F(t, k + 1) = Upsert(F(t, k), items[k + 1]) /\ F(u, k + 1) = Upsert(F(u, k), items[k + 1])
    <3>1. F(t, k + 1) = Upsert(F(t, (k + 1) - 1), items[k + 1])
      BY <2>2, Upserts!FoldStep, Zenon
    <3>2. F(u, k + 1) = Upsert(F(u, (k + 1) - 1), items[k + 1])
      BY <2>2, Upserts!FoldStep, Zenon
    <3> HIDE DEF F
    <3> QED
      BY <2>2, <3>1, <3>2
  <2> HIDE DEF F
  <2>5. IsTable(F(t, k)) /\ IsTable(F(u, k))
    BY <2>2
  <2>6. IsTable(F(t, k + 1)) /\ IsTable(F(u, k + 1))
    BY <2>3, <2>4, <2>5, UpsertRow
  <2>7. ASSUME NEW r \in Rows, t[r] = u[r] PROVE F(t, k + 1)[r] = F(u, k + 1)[r]
    <3>1. F(t, k)[r] = F(u, k)[r]
      BY <2>2, <2>7
    <3>2. CASE r = items[k + 1].row
      <4>1. /\ Upsert(F(t, k), items[k + 1])[r]
                  = IF r \in Counters /\ F(t, k)[r] # Absent THEN F(t, k)[r] + items[k + 1].value
                                                              ELSE items[k + 1].value
            /\ Upsert(F(u, k), items[k + 1])[r]
                  = IF r \in Counters /\ F(u, k)[r] # Absent THEN F(u, k)[r] + items[k + 1].value
                                                              ELSE items[k + 1].value
        BY <2>3, <2>5, <3>2, UpsertRow
      <4> QED
        BY <2>4, <3>1, <4>1
    <3>3. CASE r # items[k + 1].row
      <4>1. Upsert(F(t, k), items[k + 1])[r] = F(t, k)[r]
        BY <2>3, <2>5, <3>3, UpsertRow
      <4>2. Upsert(F(u, k), items[k + 1])[r] = F(u, k)[r]
        BY <2>3, <2>5, <3>3, UpsertRow
      <4> QED
        BY <2>4, <3>1, <4>1, <4>2
    <3> QED
      BY <3>2, <3>3
  <2>8. ASSUME NEW r \in Rows, \A i \in 1 .. k + 1 : items[i].row # r
        PROVE  F(t, k + 1)[r] = t[r]
    <3>1. r # items[k + 1].row /\ \A i \in 1 .. k : items[i].row # r
      BY <2>8
    <3>2. F(t, k)[r] = t[r]
      BY <2>2, <3>1
    <3>3. Upsert(F(t, k), items[k + 1])[r] = F(t, k)[r]
      BY <2>3, <2>5, <3>1, UpsertRow
    <3> QED
      BY <2>4, <3>2, <3>3
  <2> QED
    BY <2>6, <2>7, <2>8
<1> HIDE DEF S
<1>3. Nat \subseteq S
  BY <1>1, <1>2, SetInduction
<1>4. ASSUME NEW n \in 0 .. Len(items) PROVE Good(n)
  <2>1. n \in Nat /\ n <= Len(items)
    OBVIOUS
  <2> QED
    BY <1>3, <2>1 DEF S
<1> QED
  BY <1>4

--------------------------------------------------------------------------------
(* The inductive invariant. *)

(* A handler is where its request takes it, and counts positions only in a *)
(* transaction.                                                            *)
Serves(h) ==
  /\ (pc[h] = "idle") <=> (call[h] = NoCall)
  /\ pc[h] = "stmt" => call[h].op \in {"update", "updateJSON"}
  /\ pc[h] \in {"begin", "exec"} => call[h].op = "batch"
  /\ pc[h] = "query" => call[h].op \in {"get", "updateJSON"}
  /\ pc[h] \in {"gauges", "counters"} => call[h].op = "getAll"
  /\ idx[h] \in 1 .. Len(call[h].items) + 1
  /\ pc[h] # "exec" => idx[h] = 1

(* The rows that a transaction has locked are those it has written.        *)
Touched(h, r) == pc[h] = "exec" /\ \E i \in 1 .. idx[h] - 1 : call[h].items[i].row = r
LocksHeld(h)  == \A r \in Rows : (locks[r] = h) <=> Touched(h, r)

(* What a transaction has written so far fits into the tables.             *)
WritesFit(h) == pc[h] = "exec" => Written(h) \in Tables

(* How often a request has changed the tables, at every place of it.       *)
Counts(h) ==
  /\ pc[h] = "stmt" => applied[h] < tries[h]
  /\ call[h].op \in {"update", "updateJSON"} /\ pc[h] \in {"query", "reply"} /\ err[h] = Nil
       => applied[h] >= 1
  /\ pc[h] \in {"begin", "exec"} => applied[h] = 0
  /\ call[h].op = "batch" => applied[h] <= 1 /\ (err[h] # Nil => applied[h] = 0)

HInv(h) == Serves(h) /\ LocksHeld(h) /\ WritesFit(h) /\ Counts(h)

DBInv == TypeOK /\ \A h \in Handlers : HInv(h)

Places == {"idle", "stmt", "begin", "exec", "query", "gauges", "counters", "reply"}

LEMMA CallFacts ==
  /\ NoCall \notin Calls /\ NoCall.op = "none" /\ NoCall.items = << >>
  /\ \A c \in Calls :
       /\ c.op \in {"update", "updateJSON", "get", "getAll", "batch"}
       /\ c.items \in Seq(Items) /\ Len(c.items) \in Nat
       /\ \A i \in 1 .. Len(c.items) : c.items[i] \in Items
       /\ c.op \in {"update", "updateJSON", "get"} => Len(c.items) = 1
<1>1. ASSUME NEW c \in Calls
      PROVE  /\ c.op \in {"update", "updateJSON", "get", "getAll", "batch"}
             /\ c.items \in Seq(Items)
             /\ c.op \in {"update", "updateJSON", "get"} => Len(c.items) = 1
  BY CallsAssumption
<1>2. NoCall.op = "none" /\ NoCall.items = << >>
  BY DEF NoCall
<1> QED
  BY <1>1, <1>2

(* The row of a request's statement. *)
LEMMA ItemFacts ==
  ASSUME DBInv, NEW h \in Handlers,
         pc[h] \in {"stmt", "query"} \/ (pc[h] = "exec" /\ idx[h] <= Len(call[h].items))
  PROVE  /\ call[h] \in Calls /\ idx[h] \in 1 .. Len(call[h].items)
         /\ Item(h) \in Items /\ Item(h).row \in Rows /\ Item(h).value \in Values
         /\ pc[h] \in {"stmt", "query"} => Len(call[h].items) = 1 /\ idx[h] = 1
<1>1. call[h] \in Calls \cup {NoCall} /\ Serves(h)
  BY DEF DBInv, HInv, TypeOK
<1>2. call[h] \in Calls
  BY <1>1 DEF Serves
<1>3. pc[h] \in {"stmt", "query"} => Len(call[h].items) = 1 /\ idx[h] = 1
  BY <1>1, <1>2, CallFacts DEF Serves
<1>4. idx[h] \in 1 .. Len(call[h].items)
  <2>1. Len(call[h].items) \in Nat /\ idx[h] \in 1 .. Len(call[h].items) + 1
    BY <1>1, <1>2, CallFacts DEF Serves
  <2>2. CASE pc[h] \in {"stmt", "query"}
    <3>1. idx[h] = 1 /\ Len(call[h].items) = 1
      BY <1>3, <2>2
    <3>2. 1 \in 1 .. 1
      OBVIOUS
    <3> QED
      BY <3>1, <3>2, Zenon
  <2>3. CASE idx[h] <= Len(call[h].items)
    BY <2>1, <2>3
  <2> QED
    BY <2>2, <2>3
<1>5. Item(h) \in Items
  BY <1>2, <1>4, CallFacts DEF Item
<1> QED
  BY <1>2, <1>3, <1>4, <1>5 DEF Items

LEMMA UpsertType ==
  ASSUME NEW t \in Tables, NEW item \in Items, Fits(t, item)
  PROVE  Upsert(t, item) \in Tables
<1>1. /\ IsTable(t) /\ t[item.row] \in Values \cup {Absent}
      /\ item.row \in Rows /\ item.value \in Values
  BY DEF Tables, Items, IsTable
<1>2. Upsert(t, item)[item.row] \in Nat
  <2>1. CASE item.row \in Counters /\ t[item.row] # Absent
    <3>1. t[item.row] \in Values
      BY <1>1, <2>1
    <3>2. t[item.row] \in Nat /\ item.value \in Nat
      BY <1>1, <3>1, LimitsAssumption DEF Values
    <3>3. Upsert(t, item)[item.row] = t[item.row] + item.value
      BY <1>1, <2>1, UpsertRow
    <3> QED
      BY <3>2, <3>3
  <2>2. CASE ~(item.row \in Counters /\ t[item.row] # Absent)
    <3>1. Upsert(t, item)[item.row] = item.value
      BY <1>1, <2>2, UpsertRow
    <3> QED
      BY <1>1, <3>1, LimitsAssumption DEF Values
  <2> QED
    BY <2>1, <2>2
<1>3. Upsert(t, item)[item.row] \in Values
  BY <1>2, LimitsAssumption DEF Fits, Values
<1>4. Upsert(t, item) = [t EXCEPT ![item.row] = Upsert(t, item)[item.row]]
  BY <1>1 DEF Upsert
<1> QED
  BY <1>1, <1>3, <1>4 DEF Tables

(* The tables that a transaction would commit. *)
LEMMA WrittenIsAfter ==
  ASSUME NEW h \in Handlers
  PROVE  Written(h) = Upserts!After(rows, call[h].items, idx[h] - 1)
BY SameFold DEF Written, Upserts!After

--------------------------------------------------------------------------------
(* What one handler does leaves the invariant of the others alone.         *)

LeavesAlone(g) ==
  /\ pc'[g] = pc[g] /\ call'[g] = call[g] /\ idx'[g] = idx[g]
  /\ tries'[g] = tries[g] /\ err'[g] = err[g] /\ applied'[g] = applied[g]
  /\ \A r \in Rows : (locks'[r] = g) <=> (locks[r] = g)
  /\ \A r \in Rows : locks[r] = g => rows'[r] = rows[r]

LEMMA OthersKeep ==
  ASSUME DBInv, TypeOK', NEW g \in Handlers, LeavesAlone(g)
  PROVE  HInv(g)'
<1> USE DEF LeavesAlone
<1>0. HInv(g) /\ TypeOK
  BY DEF DBInv
<1>1. Serves(g)'
  BY <1>0 DEF HInv, Serves
<1>2. LocksHeld(g)'
  BY <1>0 DEF HInv, LocksHeld, Touched
<1>3. Counts(g)'
  BY <1>0 DEF HInv, Counts
<1>4. ASSUME pc[g] = "exec" PROVE Written(g)' \in Tables
  <2> DEFINE items == call[g].items
             n == idx[g] - 1
  <2>1. call[g] \in Calls /\ items \in Seq(Items) /\ n \in 0 .. Len(items)
    <3>1. call[g] \in Calls
      BY <1>0, <1>4 DEF HInv, Serves, TypeOK
    <3> QED
      BY <1>0, <3>1, CallFacts DEF HInv, Serves
  <2>2. rows \in Tables /\ rows' \in Tables /\ IsTable(rows) /\ IsTable(rows')
    BY <1>0 DEF TypeOK, Tables, IsTable
  <2>3. Written(g) \in Tables /\ Written(g) = Upserts!After(rows, items, n)
    BY <1>0, <1>4, WrittenIsAfter DEF HInv, WritesFit
  <2>4. Written(g)' = Upserts!After(rows', items, n)
    BY SameFold DEF Written, Upserts!After
  <2> HIDE DEF items, n
  <2>5. /\ IsTable(Upserts!After(rows', items, n))
        /\ \A r \in Rows : rows[r] = rows'[r]
                             => Upserts!After(rows, items, n)[r] = Upserts!After(rows', items, n)[r]
        /\ \A r \in Rows : (\A i \in 1 .. n : items[i].row # r)
                             => Upserts!After(rows', items, n)[r] = rows'[r]
    <3>1. /\ IsTable(Upserts!After(rows', items, n))
          /\ \A r \in Rows :
               rows[r] = rows'[r]
                 => Upserts!After(rows, items, n)[r] = Upserts!After(rows', items, n)[r]
      BY <2>1, <2>2, FoldRows
    <3>2. \A r \in Rows : (\A i \in 1 .. n : items[i].row # r)
                             => Upserts!After(rows', items, n)[r] = rows'[r]
      BY <2>1, <2>2, FoldRows
    <3> QED
      BY <3>1, <3>2
  <2>6. \A r \in Rows : locks[r] = g <=> \E i \in 1 .. n : items[i].row = r
    BY <1>0, <1>4 DEF HInv, LocksHeld, Touched, items, n
  <2>7. ASSUME NEW r \in Rows PROVE Upserts!After(rows', items, n)[r] \in Values \cup {Absent}
    <3>1. CASE locks[r] = g
      BY <2>3, <2>5, <3>1 DEF Tables
    <3>2. CASE locks[r] # g
      BY <2>2, <2>5, <2>6, <3>2 DEF Tables
    <3> QED
      BY <3>1, <3>2
  <2>8. Upserts!After(rows', items, n) \in Tables
    BY <2>5, <2>7 DEF IsTable, Tables
  <2> QED
    BY <2>4, <2>8
<1>5. WritesFit(g)'
  BY <1>4 DEF WritesFit
<1> QED
  BY <1>1, <1>2, <1>3, <1>5 DEF HInv

--------------------------------------------------------------------------------
(* retryOperation: where an attempt ends. *)

Returned(h, e) ==
  /\ tries'[h] = 1
  /\ pc'[h] = IF pc[h] = "stmt" /\ call[h].op = "updateJSON" THEN "query" ELSE "reply"
  /\ err'[h] = IF pc[h] = "query" /\ call[h].op = "updateJSON" THEN err[h] ELSE e

TriesAgain(h, place) ==
  tries[h] < maxRetries /\ tries'[h] = tries[h] + 1 /\ pc'[h] = place /\ err'[h] = err[h]

Loop(h) ==
  /\ pc' \in [Handlers -> Places]
  /\ tries' \in [Handlers -> 1 .. maxRetries]
  /\ err' \in [Handlers -> Errors \cup {Nil}]
  /\ \A g \in Handlers \ {h} : pc'[g] = pc[g] /\ tries'[g] = tries[g] /\ err'[g] = err[g]

LEMMA ReturnFacts ==
  ASSUME TypeOK, NEW h \in Handlers, NEW e \in Errors \cup {Nil}, Return(h, e)
  PROVE  Loop(h) /\ Returned(h, e)
<1>1. /\ pc \in [Handlers -> Places] /\ tries \in [Handlers -> 1 .. maxRetries]
      /\ err \in [Handlers -> Errors \cup {Nil}] /\ 1 \in 1 .. maxRetries
  BY LimitsAssumption DEF TypeOK, Places
<1>2. /\ pc' \in [Handlers -> Places]
      /\ \A g \in Handlers \ {h} : pc'[g] = pc[g]
      /\ pc'[h] = IF pc[h] = "stmt" /\ call[h].op = "updateJSON" THEN "query" ELSE "reply"
  BY <1>1 DEF Return, Places
<1>3. /\ tries' \in [Handlers -> 1 .. maxRetries] /\ tries'[h] = 1
      /\ \A g \in Handlers \ {h} : tries'[g] = tries[g]
  BY <1>1 DEF Return
<1>4. /\ err' \in [Handlers -> Errors \cup {Nil}]
      /\ \A g \in Handlers \ {h} : err'[g] = err[g]
      /\ err'[h] = IF pc[h] = "query" /\ call[h].op = "updateJSON" THEN err[h] ELSE e
  BY <1>1 DEF Return
<1> QED
  BY <1>2, <1>3, <1>4 DEF Loop, Returned

LEMMA FailedFacts ==
  ASSUME TypeOK, NEW h \in Handlers, NEW e \in Errors, NEW place \in Places,
         Failed(h, e, place)
  PROVE  Loop(h) /\ (Returned(h, e) \/ TriesAgain(h, place))
<1>1. CASE Retriable(e) /\ tries[h] < maxRetries
  <2>1. /\ pc \in [Handlers -> Places] /\ tries \in [Handlers -> 1 .. maxRetries]
        /\ err \in [Handlers -> Errors \cup {Nil}] /\ tries[h] + 1 \in 1 .. maxRetries
    BY <1>1, LimitsAssumption DEF TypeOK, Places
  <2>2. /\ tries' = [tries EXCEPT ![h] = tries[h] + 1]
        /\ pc' = [pc EXCEPT ![h] = place]
        /\ err' = err
    BY <1>1 DEF Failed
  <2> QED
    BY <1>1, <2>1, <2>2 DEF Loop, TriesAgain
<1>2. CASE ~(Retriable(e) /\ tries[h] < maxRetries)
  <2>1. Return(h, e)
    BY <1>2 DEF Failed
  <2> QED
    BY <2>1, ReturnFacts
<1> QED
  BY <1>1, <1>2

(* What a transaction leaves behind when it ends. *)
LEMMA UnlockedFacts ==
  ASSUME TypeOK, NEW h \in Handlers
  PROVE  /\ Unlocked(h) \in [Rows -> Handlers \cup {Free}]
         /\ \A r \in Rows : Unlocked(h)[r] # h
         /\ \A g \in Handlers \ {h}, r \in Rows : (Unlocked(h)[r] = g) <=> (locks[r] = g)
BY MarksAssumption DEF TypeOK, Unlocked

LEMMA InitDB == Init => DBInv
<1> SUFFICES ASSUME Init PROVE DBInv
  OBVIOUS
<1> USE DEF Init
<1>1. TypeOK
  BY LimitsAssumption DEF TypeOK, NoRows, Tables
<1>2. ASSUME NEW h \in Handlers PROVE HInv(h)
  <2>1. Serves(h)
    BY CallFacts DEF Serves
  <2>2. LocksHeld(h)
    BY MarksAssumption DEF LocksHeld, Touched
  <2>3. WritesFit(h)
    BY DEF WritesFit
  <2>4. Counts(h)
    BY CallFacts DEF Counts
  <2> QED
    BY <2>1, <2>2, <2>3, <2>4 DEF HInv
<1> QED
  BY <1>1, <1>2 DEF DBInv

--------------------------------------------------------------------------------
(* One lemma per kind of action.  An action changes nothing of any other   *)
(* handler but, perhaps, the rows that handler has not locked.             *)

(* Outside a transaction a handler holds no lock. *)
LEMMA NoLocks ==
  ASSUME DBInv, NEW h \in Handlers, pc[h] # "exec"
  PROVE  \A r \in Rows : locks[r] # h
BY DEF DBInv, HInv, LocksHeld, Touched

(* To establish the invariant of a handler that is not in a transaction    *)
(* after the step, it is enough to know where it is and what it has done.  *)
LEMMA OutsideKeeps ==
  ASSUME TypeOK', NEW h \in Handlers, Serves(h)', Counts(h)', pc'[h] # "exec",
         \A r \in Rows : locks'[r] # h
  PROVE  HInv(h)'
<1>1. LocksHeld(h)'
  BY DEF LocksHeld, Touched
<1>2. WritesFit(h)'
  BY DEF WritesFit
<1> QED
  BY <1>1, <1>2 DEF HInv

LEMMA RequestKeeps ==
  ASSUME DBInv, NEW h \in Handlers, Request(h)
  PROVE  DBInv'
<1> USE DEF Request
<1>1. PICK c \in Calls : call' = [call EXCEPT ![h] = c] /\ pc' = [pc EXCEPT ![h] = Start(c.op)]
  OBVIOUS
<1>2. TypeOK /\ HInv(h)
  BY DEF DBInv
<1>3. Start(c.op) \in {"stmt", "begin", "query", "gauges"}
  BY CallFacts DEF Start
<1>4. TypeOK'
  <2>1. pc' \in [Handlers -> Places]
    BY <1>1, <1>2, <1>3 DEF TypeOK, Places
  <2>2. call' \in [Handlers -> Calls \cup {NoCall}]
    BY <1>1, <1>2 DEF TypeOK
  <2>3. applied' \in [Handlers -> 0 .. maxRetries]
    BY <1>2, LimitsAssumption DEF TypeOK
  <2> QED
    BY <1>2, <2>1, <2>2, <2>3 DEF TypeOK, Places
<1>5. /\ pc[h] = "idle" /\ pc'[h] = Start(c.op) /\ call'[h] = c /\ applied'[h] = 0
      /\ idx'[h] = idx[h] /\ tries'[h] = tries[h] /\ tries[h] \in 1 .. maxRetries
  BY <1>1, <1>2 DEF TypeOK
<1>6. HInv(h)'
  <2>1. Serves(h)'
    <3>1. idx[h] = 1 /\ Len(c.items) \in Nat
      BY <1>2, <1>5, CallFacts DEF HInv, Serves
    <3> QED
      BY <1>3, <1>5, <3>1, CallFacts DEF Serves, Start
  <2>2. Counts(h)'
    BY <1>3, <1>5, CallFacts, LimitsAssumption DEF Counts, Start
  <2>3. pc'[h] # "exec" /\ \A r \in Rows : locks'[r] # h
    BY <1>3, <1>5, NoLocks
  <2> QED
    BY <1>4, <2>1, <2>2, <2>3, OutsideKeeps
<1>7. ASSUME NEW g \in Handlers, g # h PROVE HInv(g)'
  <2>1. LeavesAlone(g)
    BY <1>1, <1>2, <1>7 DEF LeavesAlone, TypeOK
  <2> QED
    BY <1>4, <2>1, OthersKeep
<1> QED
  BY <1>4, <1>6, <1>7 DEF DBInv

LEMMA EndKeeps ==
  ASSUME DBInv, NEW h \in Handlers, pc[h] # "exec", End(h)
  PROVE  DBInv'
<1> USE DEF End
<1>1. TypeOK /\ HInv(h)
  BY DEF DBInv
<1>2. TypeOK'
  BY <1>1, LimitsAssumption DEF TypeOK, NoRows, Tables
<1>3. /\ pc'[h] = "idle" /\ call'[h] = NoCall /\ applied'[h] = 0 /\ idx'[h] = idx[h]
      /\ idx[h] = 1
  BY <1>1 DEF TypeOK, HInv, Serves
<1>4. HInv(h)'
  <2>1. Serves(h)'
    BY <1>3, CallFacts DEF Serves
  <2>2. Counts(h)'
    BY <1>3, CallFacts DEF Counts
  <2>3. pc'[h] # "exec" /\ \A r \in Rows : locks'[r] # h
    BY <1>3, NoLocks
  <2> QED
    BY <1>2, <2>1, <2>2, <2>3, OutsideKeeps
<1>5. ASSUME NEW g \in Handlers, g # h PROVE HInv(g)'
  <2>1. LeavesAlone(g)
    BY <1>1, <1>5 DEF LeavesAlone, TypeOK
  <2> QED
    BY <1>2, <2>1, OthersKeep
<1> QED
  BY <1>2, <1>4, <1>5 DEF DBInv

(* An attempt of a statement outside a transaction, or at its beginning.   *)
Stored(h) ==
  \/ UNCHANGED <<rows, applied>>
  \/ /\ pc[h] = "stmt" /\ Available(Item(h).row, h) /\ Fits(rows, Item(h))
     /\ Apply(h, Upsert(rows, Item(h)))

LEMMA AttemptKeeps ==
  ASSUME DBInv, NEW h \in Handlers, NEW e \in Errors \cup {Nil},
         pc[h] \in {"stmt", "begin", "query"},
         Loop(h), Returned(h, e) \/ TriesAgain(h, pc[h]),
         UNCHANGED <<locks, call, idx>>, ans' \in [Handlers -> Tables],
         Stored(h),
         pc[h] = "stmt" /\ e = Nil => applied'[h] = applied[h] + 1
  PROVE  DBInv'
<1>1. TypeOK /\ HInv(h)
  BY DEF DBInv
<1>2. /\ applied[h] \in Nat /\ applied[h] \in 0 .. maxRetries /\ tries[h] \in 1 .. maxRetries
      /\ maxRetries \in Nat /\ call[h] \in Calls
  BY <1>1, LimitsAssumption DEF TypeOK, HInv, Serves
<1>3. applied'[h] = applied[h] \/ (applied'[h] = applied[h] + 1 /\ pc[h] = "stmt")
  BY <1>1 DEF Stored, Apply, TypeOK
<1>4. \A g \in Handlers \ {h} : applied'[g] = applied[g]
  BY <1>1 DEF Stored, Apply, TypeOK
<1>5. /\ rows' \in Tables
      /\ \A r \in Rows, g \in Handlers \ {h} : locks[r] = g => rows'[r] = rows[r]
  <2>1. CASE UNCHANGED <<rows, applied>>
    BY <1>1, <2>1 DEF TypeOK
  <2>2. CASE ~ UNCHANGED <<rows, applied>>
    <3>1. /\ pc[h] = "stmt" /\ Available(Item(h).row, h) /\ Fits(rows, Item(h))
          /\ rows' = Upsert(rows, Item(h))
      BY <2>2 DEF Stored, Apply
    <3>2. Item(h) \in Items /\ Item(h).row \in Rows
      BY <3>1, ItemFacts
    <3>3. rows \in Tables /\ IsTable(rows)
      BY <1>1 DEF TypeOK, Tables, IsTable
    <3>4. \A r \in Rows \ {Item(h).row} : rows'[r] = rows[r]
      BY <3>1, <3>2, <3>3, UpsertRow
    <3>5. \A g \in Handlers \ {h} : locks[Item(h).row] # g
      BY <3>1, MarksAssumption DEF Available
    <3> QED
      BY <3>1, <3>2, <3>3, <3>4, <3>5, UpsertType
  <2> QED
    BY <2>1, <2>2
<1>6. TypeOK'
  <2>1. applied' \in [Handlers -> 0 .. maxRetries]
    <3>1. applied'[h] \in 0 .. maxRetries
      BY <1>1, <1>2, <1>3 DEF HInv, Counts
    <3>2. applied' = [applied EXCEPT ![h] = applied'[h]]
      BY <1>1 DEF Stored, Apply, TypeOK
    <3> QED
      BY <1>1, <3>1, <3>2 DEF TypeOK
  <2> QED
    BY <1>1, <1>5, <2>1 DEF TypeOK, Loop, Places
<1>7. HInv(h)'
  <2>1. Serves(h)'
    <3>1. call'[h] = call[h] /\ idx'[h] = idx[h] /\ pc'[h] \in {pc[h], "query", "reply"}
          /\ (pc'[h] = "query" => pc[h] = "query" \/ call[h].op = "updateJSON")
      BY DEF Returned, TriesAgain
    <3>2. call[h] # NoCall
      BY <1>2, CallFacts
    <3> QED
      BY <1>1, <3>1, <3>2 DEF HInv, Serves
  <2>2. Counts(h)'
    <3>1. call'[h] = call[h]
      OBVIOUS
    <3>2. CASE TriesAgain(h, pc[h])
      BY <1>1, <1>2, <1>3, <3>1, <3>2 DEF HInv, Counts, Serves, TriesAgain
    <3>3. CASE Returned(h, e)
      <4>1. CASE pc[h] = "stmt"
        <5>1. /\ call[h].op \in {"update", "updateJSON"}
              /\ pc'[h] \in {"query", "reply"} /\ err'[h] = e
          BY <1>1, <3>3, <4>1 DEF HInv, Serves, Returned
        <5>2. err'[h] = Nil => applied'[h] >= 1
          BY <1>2, <4>1, <5>1
        <5> QED
          BY <3>1, <5>1, <5>2 DEF Counts
      <4>2. CASE pc[h] = "begin"
        BY <1>1, <1>2, <1>3, <3>1, <3>3, <4>2 DEF HInv, Counts, Serves, Returned
      <4>3. CASE pc[h] = "query"
        BY <1>1, <1>2, <1>3, <3>1, <3>3, <4>3 DEF HInv, Counts, Serves, Returned
      <4> QED
        BY <4>1, <4>2, <4>3
    <3> QED
      BY <3>2, <3>3
  <2>3. pc'[h] # "exec" /\ \A r \in Rows : locks'[r] # h
    BY NoLocks DEF Returned, TriesAgain
  <2> QED
    BY <1>6, <2>1, <2>2, <2>3, OutsideKeeps
<1>8. ASSUME NEW g \in Handlers, g # h PROVE HInv(g)'
  <2>1. LeavesAlone(g)
    BY <1>4, <1>5, <1>8 DEF LeavesAlone, Loop
  <2> QED
    BY <1>6, <2>1, OthersKeep
<1> QED
  BY <1>6, <1>7, <1>8 DEF DBInv

LEMMA ExecKeeps ==
  ASSUME DBInv, NEW h \in Handlers, Exec(h)
  PROVE  DBInv'
<1> USE DEF Exec
<1>1. TypeOK /\ "refused" \in Errors /\ "stmt" \in Places
  BY DEF DBInv, Errors, Places
<1>2. CASE Fits(rows, Item(h))
  <2>1. Loop(h) /\ Returned(h, Nil)
    BY <1>1, <1>2, ReturnFacts
  <2>2. Stored(h) /\ applied'[h] = applied[h] + 1
    BY <1>1, <1>2 DEF Stored, Apply, TypeOK
  <2> QED
    BY <1>1, <2>1, <2>2, AttemptKeeps DEF TypeOK
<1>3. CASE ~Fits(rows, Item(h))
  <2>1. Loop(h) /\ (Returned(h, "refused") \/ TriesAgain(h, "stmt"))
    BY <1>1, <1>3, FailedFacts
  <2>2. Stored(h) /\ "refused" # Nil
    BY <1>1, <1>3, ErrorsAssumption DEF Stored
  <2> QED
    BY <1>1, <2>1, <2>2, AttemptKeeps DEF TypeOK
<1> QED
  BY <1>2, <1>3

(* An answer that is lost. *)
LEMMA LoseKeeps ==
  ASSUME DBInv, NEW h \in Handlers, LoseExec(h) \/ LoseBegin(h) \/ LoseQuery(h)
  PROVE  DBInv'
<1>1. PICK e \in Lost : Failed(h, e, pc[h])
  BY DEF LoseExec, LoseBegin, LoseQuery
<1>2. TypeOK /\ e \in Errors /\ e # Nil /\ pc[h] \in Places
  BY ErrorsAssumption DEF DBInv, Lost, Errors, Places, LoseExec, LoseBegin, LoseQuery
<1>3. Loop(h) /\ (Returned(h, e) \/ TriesAgain(h, pc[h]))
  BY <1>1, <1>2, FailedFacts
<1>4. Stored(h) /\ UNCHANGED <<locks, call, idx, ans>> /\ pc[h] \in {"stmt", "begin", "query"}
  BY DEF LoseExec, LoseBegin, LoseQuery, Stored
<1> QED
  BY <1>2, <1>3, <1>4, AttemptKeeps DEF TypeOK

LEMMA QueryKeeps ==
  ASSUME DBInv, NEW h \in Handlers, Query(h)
  PROVE  DBInv'
<1> USE DEF Query
<1>1. TypeOK /\ "noRows" \in Errors /\ "query" \in Places
  BY DEF DBInv, Errors, Places
<1>2. Stored(h) /\ UNCHANGED <<locks, call, idx>>
  BY DEF Stored
<1>3. CASE rows[Item(h).row] = Absent
  <2>1. Loop(h) /\ (Returned(h, "noRows") \/ TriesAgain(h, "query"))
    BY <1>1, <1>3, FailedFacts
  <2> QED
    BY <1>1, <1>2, <1>3, <2>1, AttemptKeeps DEF TypeOK
<1>4. CASE rows[Item(h).row] # Absent
  <2>1. Loop(h) /\ Returned(h, Nil)
    BY <1>1, <1>4, ReturnFacts
  <2>2. Item(h).row \in Rows
    BY ItemFacts
  <2>3. ans' \in [Handlers -> Tables]
    <3> DEFINE r == Item(h).row
               answer == [ans[h] EXCEPT ![r] = rows[r]]
    <3>1. ans[h] \in Tables /\ rows \in Tables /\ ans \in [Handlers -> Tables]
      BY <1>1 DEF TypeOK
    <3>2. answer \in Tables
      BY <2>2, <3>1 DEF Tables
    <3>3. ans' = [ans EXCEPT ![h] = answer]
      BY <1>4
    <3> HIDE DEF answer
    <3> QED
      BY <3>1, <3>2, <3>3
  <2> QED
    BY <1>1, <1>2, <2>1, <2>3, AttemptKeeps
<1> QED
  BY <1>3, <1>4

(* A listing reads one table, or a part of it, and goes on.                *)
LEMMA ListKeeps ==
  ASSUME DBInv, NEW h \in Handlers, List(h) \/ ListPart(h)
  PROVE  DBInv'
<1>1. TypeOK /\ HInv(h)
  BY DEF DBInv
<1>2. PICK part : /\ ans' = [ans EXCEPT ![h] = Listed(h, part)]
                  /\ \/ pc[h] = "gauges" /\ pc' = [pc EXCEPT ![h] = "counters"]
                     \/ pc[h] = "counters" /\ pc' = [pc EXCEPT ![h] = "reply"]
                  /\ UNCHANGED <<rows, locks, call, idx, tries, err, applied>>
  <2>1. CASE List(h)
    BY <2>1 DEF List
  <2>2. CASE ListPart(h)
    BY <2>2 DEF ListPart
  <2> QED
    BY <2>1, <2>2
<1>3. TypeOK'
  <2>1. Listed(h, part) \in Tables
    BY <1>1 DEF Listed, TypeOK, Tables
  <2> QED
    BY <1>1, <1>2, <2>1 DEF TypeOK
<1>4. pc'[h] \in {"counters", "reply"} /\ (pc[h] = "counters" => pc'[h] = "reply")
      /\ pc[h] \in {"gauges", "counters"}
  BY <1>1, <1>2 DEF TypeOK
<1>5. HInv(h)'
  <2>1. call[h].op = "getAll"
    BY <1>1, <1>4 DEF HInv, Serves
  <2>2. Serves(h)'
    BY <1>1, <1>2, <1>4, <2>1 DEF HInv, Serves
  <2>3. Counts(h)'
    BY <1>2, <1>4, <2>1 DEF Counts
  <2>4. pc'[h] # "exec" /\ \A r \in Rows : locks'[r] # h
    BY <1>2, <1>4, NoLocks
  <2> QED
    BY <1>3, <2>2, <2>3, <2>4, OutsideKeeps
<1>6. ASSUME NEW g \in Handlers, g # h PROVE HInv(g)'
  <2>1. LeavesAlone(g)
    BY <1>1, <1>2, <1>6 DEF LeavesAlone, TypeOK
  <2> QED
    BY <1>3, <2>1, OthersKeep
<1> QED
  BY <1>3, <1>5, <1>6 DEF DBInv

--------------------------------------------------------------------------------
(* Transactions *)

LEMMA BeginKeeps ==
  ASSUME DBInv, NEW h \in Handlers, Begin(h)
  PROVE  DBInv'
<1> USE DEF Begin
<1>1. TypeOK /\ HInv(h)
  BY DEF DBInv
<1>2. TypeOK'
  BY <1>1 DEF TypeOK
<1>3. pc'[h] = "exec" /\ idx'[h] = 1 /\ call'[h] = call[h] /\ call[h] # NoCall
  BY <1>1 DEF TypeOK, HInv, Serves
<1>4. HInv(h)'
  <2>1. Serves(h)'
    BY <1>1, <1>3 DEF HInv, Serves
  <2>2. LocksHeld(h)'
    BY <1>3, NoLocks DEF LocksHeld, Touched
  <2>3. WritesFit(h)'
    <3>1. Written(h)' = Upserts!After(rows, call[h].items, 0)
      BY <1>3, SameFold DEF Written, Upserts!After
    <3> QED
      BY <1>1, <3>1, Upserts!FoldEmpty DEF WritesFit, TypeOK
  <2>4. Counts(h)'
    BY <1>1, <1>3 DEF HInv, Counts
  <2> QED
    BY <2>1, <2>2, <2>3, <2>4 DEF HInv
<1>5. ASSUME NEW g \in Handlers, g # h PROVE HInv(g)'
  <2>1. LeavesAlone(g)
    BY <1>1, <1>5 DEF LeavesAlone, TypeOK
  <2> QED
    BY <1>2, <2>1, OthersKeep
<1> QED
  BY <1>2, <1>4, <1>5 DEF DBInv

(* One more statement of a batch: its row is locked, and what the          *)
(* transaction has written still fits.                                     *)
LEMMA ExecTxKeeps ==
  ASSUME DBInv, NEW h \in Handlers, ExecTx(h)
  PROVE  DBInv'
<1> USE DEF ExecTx
<1> DEFINE items == call[h].items
           n == idx[h]
<1>1. TypeOK /\ HInv(h)
  BY DEF DBInv
<1>2. /\ call[h] \in Calls /\ n \in 1 .. Len(items) /\ items \in Seq(Items)
      /\ Item(h) = items[n] /\ Item(h) \in Items /\ Item(h).row \in Rows
  BY ItemFacts, CallFacts DEF Item
<1>3. /\ n \in Nat /\ n # 0 /\ Len(items) \in Nat
  BY <1>2, CallFacts
<1>4. TypeOK'
  <2>1. locks' \in [Rows -> Handlers \cup {Free}] /\ idx' \in [Handlers -> Nat]
    BY <1>1, <1>2, <1>3 DEF TypeOK
  <2> QED
    BY <1>1, <2>1 DEF TypeOK
<1>5. idx'[h] = n + 1 /\ pc'[h] = "exec" /\ call'[h] = call[h]
  BY <1>1 DEF TypeOK
<1>6. \A r \in Rows : locks'[r] = IF r = Item(h).row THEN h ELSE locks[r]
  BY <1>1, <1>2 DEF TypeOK
<1>7. HInv(h)'
  <2>1. Serves(h)'
    BY <1>1, <1>2, <1>3, <1>5 DEF HInv, Serves
  <2>2. LocksHeld(h)'
    <3>1. \A r \in Rows : locks[r] = h <=> \E i \in 1 .. n - 1 : items[i].row = r
      BY <1>1 DEF HInv, LocksHeld, Touched
    <3>2. \A r \in Rows : (\E i \in 1 .. (n + 1) - 1 : items[i].row = r)
                            <=> (items[n].row = r \/ \E i \in 1 .. n - 1 : items[i].row = r)
      <4>1. \A i : i \in 1 .. (n + 1) - 1 <=> (i = n \/ i \in 1 .. n - 1)
        BY <1>3
      <4> QED
        BY <4>1
    <3>3. ASSUME NEW r \in Rows PROVE locks'[r] = h <=> Touched(h, r)'
      <4>1. Touched(h, r)' <=> \E i \in 1 .. (n + 1) - 1 : items[i].row = r
        BY <1>5 DEF Touched
      <4>2. locks'[r] = h <=> (items[n].row = r \/ locks[r] = h)
        BY <1>2, <1>6
      <4> HIDE DEF ExecTx, items, n
      <4> QED
        BY <3>1, <3>2, <4>1, <4>2
    <3> QED
      BY <3>3 DEF LocksHeld
  <2>3. WritesFit(h)'
    <3>1. Written(h) \in Tables
      BY <1>1 DEF HInv, WritesFit
    <3>2. Upsert(Written(h), Item(h)) \in Tables
      BY <1>2, <3>1, UpsertType
    <3>3. Upserts!After(rows, items, n) = Upsert(Upserts!After(rows, items, n - 1), items[n])
      <4> HIDE DEF items, n
      <4> QED
        BY <1>2, Upserts!FoldStep, Zenon
    <3>4. Written(h)' = Upserts!After(rows, items, (n + 1) - 1)
      BY <1>5, SameFold DEF Written, Upserts!After
    <3>5. Written(h) = Upserts!After(rows, items, n - 1) /\ (n + 1) - 1 = n
      BY <1>3, WrittenIsAfter
    <3> QED
      BY <1>2, <3>2, <3>3, <3>4, <3>5 DEF WritesFit
  <2>4. Counts(h)'
    BY <1>1, <1>5 DEF HInv, Counts
  <2> QED
    BY <2>1, <2>2, <2>3, <2>4 DEF HInv
<1>8. ASSUME NEW g \in Handlers, g # h PROVE HInv(g)'
  <2>1. locks[Item(h).row] # g
    BY <1>8, MarksAssumption DEF Available
  <2>2. LeavesAlone(g)
    BY <1>1, <1>6, <1>8, <2>1 DEF LeavesAlone, TypeOK
  <2> QED
    BY <1>4, <2>2, OthersKeep
<1> QED
  BY <1>4, <1>7, <1>8 DEF DBInv

(* A transaction ends: it leaves no lock, and all of what it has written,  *)
(* after its last statement, or nothing.                                   *)
Ends(h) ==
  /\ locks' = Unlocked(h) /\ idx' = [idx EXCEPT ![h] = 1]
  /\ UNCHANGED <<call, ans>>
  /\ \/ UNCHANGED <<rows, applied>>
     \/ idx[h] > Len(call[h].items) /\ Apply(h, Written(h))

LEMMA EndsKeeps ==
  ASSUME DBInv, NEW h \in Handlers, pc[h] = "exec", Loop(h), Ends(h),
         pc'[h] \in {"begin", "reply"},
         applied'[h] # applied[h] => pc'[h] = "reply" /\ err'[h] = Nil
  PROVE  DBInv'
<1> USE DEF Ends
<1>1. TypeOK /\ HInv(h)
  BY DEF DBInv
<1>2. call[h] \in Calls /\ call[h].op = "batch" /\ applied[h] = 0 /\ Written(h) \in Tables
  BY <1>1 DEF HInv, Serves, WritesFit, Counts, TypeOK
<1>3. /\ applied'[h] \in {0, 1} /\ \A g \in Handlers \ {h} : applied'[g] = applied[g]
      /\ applied' = [applied EXCEPT ![h] = applied'[h]]
  BY <1>1, <1>2 DEF Apply, TypeOK
<1>4. rows' \in Tables /\ rows' \in {rows, Written(h)}
  BY <1>1, <1>2 DEF Apply, TypeOK
<1>5. TypeOK'
  <2>1. applied' \in [Handlers -> 0 .. maxRetries]
    BY <1>1, <1>3, LimitsAssumption DEF TypeOK
  <2>2. locks' \in [Rows -> Handlers \cup {Free}] /\ idx' \in [Handlers -> Nat]
    BY <1>1, UnlockedFacts DEF TypeOK
  <2> QED
    BY <1>1, <1>4, <2>1, <2>2 DEF TypeOK, Loop, Places
<1>6. HInv(h)'
  <2>1. idx'[h] = 1 /\ call'[h] = call[h]
    BY <1>1 DEF TypeOK
  <2>2. Serves(h)'
    BY <1>2, <2>1, CallFacts DEF Serves
  <2>3. Counts(h)'
    <3>1. pc'[h] = "begin" => applied'[h] = 0
      BY <1>2
    <3>2. err'[h] # Nil => applied'[h] = 0
      BY <1>2
    <3> QED
      BY <1>2, <1>3, <2>1, <3>1, <3>2 DEF Counts
  <2>4. \A r \in Rows : locks'[r] # h
    BY <1>1, UnlockedFacts
  <2> QED
    BY <1>5, <2>2, <2>3, <2>4, OutsideKeeps
<1>7. ASSUME NEW g \in Handlers, g # h PROVE HInv(g)'
  <2>1. \A r \in Rows : (locks'[r] = g) <=> (locks[r] = g)
    BY <1>1, <1>7, UnlockedFacts
  <2>2. ASSUME NEW r \in Rows, locks[r] = g PROVE rows'[r] = rows[r]
    <3> DEFINE items == call[h].items
               n == idx[h] - 1
    <3>1. \A i \in 1 .. n : items[i].row # r
      BY <1>1, <1>7, <2>2 DEF HInv, LocksHeld, Touched
    <3>2. items \in Seq(Items) /\ n \in 0 .. Len(items) /\ IsTable(rows)
      BY <1>1, <1>2, CallFacts DEF HInv, Serves, TypeOK, Tables, IsTable
    <3>3. Written(h) = Upserts!After(rows, items, n)
      BY WrittenIsAfter
    <3> HIDE DEF items, n
    <3>4. Upserts!After(rows, items, n)[r] = rows[r]
      BY <3>1, <3>2, FoldRows
    <3> QED
      BY <1>4, <3>3, <3>4
  <2>3. idx'[g] = idx[g] /\ call'[g] = call[g]
    BY <1>1, <1>7 DEF TypeOK
  <2>4. LeavesAlone(g)
    BY <1>3, <1>7, <2>1, <2>2, <2>3 DEF LeavesAlone, Loop
  <2> QED
    BY <1>5, <2>4, OthersKeep
<1> QED
  BY <1>5, <1>6, <1>7 DEF DBInv

LEMMA RollbackKeeps ==
  ASSUME DBInv, NEW h \in Handlers, pc[h] = "exec", NEW e \in Errors, Rollback(h, e)
  PROVE  DBInv'
<1> USE DEF Rollback
<1>1. TypeOK /\ "begin" \in Places
  BY DEF DBInv, Places
<1>2. Loop(h) /\ (Returned(h, e) \/ TriesAgain(h, "begin"))
  BY <1>1, FailedFacts
<1>3. Ends(h) /\ applied'[h] = applied[h] /\ pc'[h] \in {"begin", "reply"}
  BY <1>2 DEF Ends, Returned, TriesAgain
<1> QED
  BY <1>2, <1>3, EndsKeeps

LEMMA CommitKeeps ==
  ASSUME DBInv, NEW h \in Handlers, Commit(h) \/ LoseCommit(h)
  PROVE  DBInv'
<1> USE DEF Commit, LoseCommit
<1>1. TypeOK
  BY DEF DBInv
<1>2. Loop(h) /\ Returned(h, Nil)
  BY <1>1, ReturnFacts
<1>3. pc[h] = "exec" /\ Ends(h) /\ pc'[h] = "reply" /\ err'[h] = Nil
  BY <1>2 DEF Ends, Returned
<1> QED
  BY <1>2, <1>3, EndsKeeps

--------------------------------------------------------------------------------
(* The invariant, and what follows from it. *)

LEMMA NextKeeps == DBInv /\ [Next]_vars => DBInv'
<1> SUFFICES ASSUME DBInv, [Next]_vars PROVE DBInv'
  OBVIOUS
<1>1. CASE UNCHANGED vars
  <2>1. TypeOK'
    BY <1>1 DEF vars, DBInv, TypeOK
  <2>2. ASSUME NEW g \in Handlers PROVE HInv(g)'
    <3>1. LeavesAlone(g)
      BY <1>1 DEF vars, LeavesAlone
    <3> QED
      BY <2>1, <3>1, OthersKeep
  <2> QED
    BY <2>1, <2>2 DEF DBInv
<1>2. ASSUME NEW h \in Handlers, Request(h) PROVE DBInv'
  BY <1>2, RequestKeeps
<1>3. ASSUME NEW h \in Handlers, Proceed(h) PROVE DBInv'
  <2>1. ASSUME Reply(h) PROVE DBInv'
    BY <2>1, EndKeeps DEF Reply
  <2>2. ASSUME Abort(h) PROVE DBInv'
    BY <2>2, RollbackKeeps DEF Abort, Errors
  <2> QED
    BY <1>3, <2>1, <2>2, ExecKeeps, BeginKeeps, ExecTxKeeps, CommitKeeps, QueryKeeps, ListKeeps
       DEF Proceed
<1>4. ASSUME NEW h \in Handlers, Lose(h) PROVE DBInv'
  <2>1. ASSUME LoseList(h) PROVE DBInv'
    BY <2>1, EndKeeps DEF LoseList
  <2>2. ASSUME LoseTx(h) PROVE DBInv'
    BY <2>2, RollbackKeeps DEF LoseTx, Lost, Errors
  <2> QED
    BY <1>4, <2>1, <2>2, LoseKeeps, CommitKeeps, ListKeeps DEF Lose
<1> QED
  BY <1>1, <1>2, <1>3, <1>4 DEF Next

LEMMA InvariantHolds == Spec => []DBInv
BY InitDB, NextKeeps, PTL DEF Spec

(* The tables never hold anything but values a BIGINT column can hold, and *)
(* no attempt of retryOperation is made beyond the last one.               *)
THEOREM TypeCorrect == Spec => []TypeOK
<1>1. DBInv => TypeOK
  BY DEF DBInv
<1> QED
  BY <1>1, InvariantHolds, PTL

(* A batch is stored once at most however often retryOperation repeats it, *)
(* and never when its client is told that it failed (db_storage.go:209 and *)
(* 258): the error of a commit, which would be ambiguous, reaches nobody.  *)
THEOREM BatchOutcomeCorrect == Spec => []BatchOutcome
<1>1. DBInv => BatchOutcome
  <2> SUFFICES ASSUME DBInv, NEW h \in Handlers, call[h].op = "batch"
               PROVE  /\ applied[h] <= 1
                      /\ Answered(h) /\ Status(h) = "500" => applied[h] = 0
    BY DEF BatchOutcome
  <2> QED
    BY DEF DBInv, HInv, Counts, Status
<1> QED
  BY <1>1, InvariantHolds, PTL

(* When SaveGaugeMetric or SaveCounterMetric returns nil the metric has    *)
(* been stored (db_storage.go:73), and no attempt of retryOperation has    *)
(* stored it twice: before each of them the tables were changed at most as *)
(* often as there were attempts (db_storage.go:258).                       *)
THEOREM SavedMeansAppliedCorrect == Spec => []SavedMeansApplied
<1>1. ASSUME DBInv, NEW h \in Handlers, Updates(h)
      PROVE  /\ pc[h] \in {"query", "reply"} /\ err[h] = Nil => applied[h] >= 1
             /\ pc[h] = "stmt" => applied[h] <= tries[h] - 1
  <2>1. Counts(h) /\ applied[h] \in Int /\ tries[h] \in Int
    BY <1>1, LimitsAssumption DEF DBInv, HInv, TypeOK
  <2> QED
    BY <1>1, <2>1 DEF Counts, Updates
<1>2. DBInv => SavedMeansApplied
  BY <1>1, Zenon DEF SavedMeansApplied
<1> QED
  BY <1>2, InvariantHolds, PTL

(* The tables change by whole requests only (db_storage.go:213 to 233): a  *)
(* statement of a batch is never seen, and never survives, without the     *)
(* others, whatever is refused, lost or deadlocked in between.             *)
THEOREM ChangesAreWholeCorrect == Spec => ChangesAreWhole
<1> DEFINE Whole ==
      rows' # rows => \E h \in Handlers : rows' = FoldLeft(Upsert, rows, call[h].items)
<1>1. DBInv /\ [Next]_vars => [Whole]_vars
  <2> SUFFICES ASSUME DBInv, Next, rows' # rows
               PROVE  \E h \in Handlers : rows' = FoldLeft(Upsert, rows, call[h].items)
    BY DEF vars
  <2>1. PICK h \in Handlers : Request(h) \/ Proceed(h) \/ Lose(h)
    BY DEF Next
  <2>2. \/ pc[h] = "stmt" /\ rows' = Upsert(rows, Item(h))
        \/ pc[h] = "exec" /\ idx[h] > Len(call[h].items) /\ rows' = Written(h)
    BY <2>1 DEF Request, Proceed, Lose, Exec, Begin, ExecTx, Abort, Rollback, Commit, Query, List,
                Reply, End, LoseExec, LoseBegin, LoseTx, LoseCommit, LoseQuery, LoseList, ListPart,
                Apply
  <2>3. call[h] \in Calls /\ call[h].items \in Seq(Items) /\ Serves(h)
    BY <2>2, CallFacts DEF DBInv, HInv, Serves, TypeOK
  <2>4. CASE pc[h] = "stmt" /\ rows' = Upsert(rows, Item(h))
    <3>1. Len(call[h].items) = 1 /\ Item(h) = call[h].items[1]
      BY <2>4, ItemFacts DEF Item
    <3>2. FoldLeft(Upsert, rows, call[h].items) = Upsert(rows, call[h].items[1])
      BY <2>3, <3>1, Upserts!FoldWhole, SameFold
    <3> QED
      BY <2>4, <3>1, <3>2
  <2>5. CASE pc[h] = "exec" /\ idx[h] > Len(call[h].items) /\ rows' = Written(h)
    <3>1. idx[h] - 1 = Len(call[h].items)
      BY <2>3, <2>5, CallFacts DEF Serves
    <3>2. FoldLeft(Upsert, rows, call[h].items)
            = Upserts!After(rows, call[h].items, Len(call[h].items))
      BY <2>3, Upserts!FoldWhole, SameFold
    <3> QED
      BY <2>5, <3>1, <3>2, WrittenIsAfter
  <2> QED
    BY <2>2, <2>4, <2>5
<1> QED
  BY <1>1, InvariantHolds, PTL DEF Spec, ChangesAreWhole
================================================================================
