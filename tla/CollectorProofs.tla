---------------------------- MODULE CollectorProofs ----------------------------
(***************************************************************************)
(* Proofs about Collector.                                                 *)
(***************************************************************************)
EXTENDS Collector, FiniteSetTheorems, TLAPS

--------------------------------------------------------------------------------
(* The inductive invariant. *)

Own     == Names \ System
Base(n) == IF n = 0 THEN Absent ELSE n
Single  == Cardinality(Storers) <= 1

(* The mutex is held by the goroutine that is in Collect or in GetMetrics, *)
(* and by no other.                                                        *)
Fills(g) == g \in Pollers \cup Storers /\ pc[g] \in {"fill", "put"}
Holds(g) == Fills(g) \/ pc[g] = "copy"
Mutex    == \A g \in Goroutines : Holds(g) <=> mu = g

(* A goroutine is where its function takes it; PollCount comes last.       *)
Roles(g) ==
  /\ g \in Pollers \cup SystemPollers => pc[g] \in {"idle", "fill", "put"}
  /\ g \in Reporters => pc[g] \in {"idle", "copy"}
  /\ g \in SystemPollers => todo[g] \subseteq System /\ (pc[g] = "put" => key[g] \in System)
  /\ Fills(g) /\ pc[g] = "fill" => todo[g] = {} \/ "PollCount" \in todo[g]
  /\ Fills(g) /\ pc[g] = "put" =>
       /\ key[g] \in Own \ todo[g]
       /\ IF key[g] = "PollCount" THEN todo[g] = {} ELSE "PollCount" \in todo[g]
  /\ Fills(g) => todo[g] \subseteq Own
  /\ Fills(g) => IF "PollCount" \in todo[g] THEN PollCount < MaxPolls ELSE PollCount >= 1
  /\ g \in Storers /\ pc[g] \in {"get", "copy", "store"} => PollCount >= 1
  /\ pc[g] \notin {"copy", "store"} => copy[g] = NoMetrics

(* Without a race nobody is in the map beside a writer.                    *)
Alone == ~raced => \A w \in Writers : Writers = {w} /\ Readers = {}

(* Without a race the map holds the last poll, but for the keys that the   *)
(* one in progress has written.                                            *)
Number(g)     == IF "PollCount" \in todo[g] THEN PollCount + 1 ELSE PollCount
Pending(g, k) == k \in todo[g] \/ (pc[g] = "put" /\ key[g] = k)

MapIsPoll ==
  ~raced =>
    /\ (\A g \in Goroutines : ~Fills(g)) => \A k \in Own : metrics[k] = Base(PollCount)
    /\ \A g \in Goroutines : Fills(g) =>
         \A k \in Own : metrics[k] = IF Pending(g, k) THEN Base(Number(g) - 1) ELSE Number(g)

(* What a reader has copied, and what it has yet to copy.                  *)
Copies(g) ==
  pc[g] = "copy" =>
    /\ copy[g]["PollCount"] \in {Absent, PollCount - lastPollCount}
    /\ ~raced => \A k \in Own :
         /\ k # "PollCount" => copy[g][k] \in {Absent, PollCount}
         /\ copy[g][k] # Absent => PollCount # 0
         /\ PollCount # 0 => k \in todo[g] \/ copy[g][k] # Absent

(* What a storer has stored of its copy, and what it has yet to store.     *)
NoStore == \A s \in Storers : pc[s] # "store"

StoresNoMore ==
  Single =>
    /\ NoStore => store["PollCount"] <= lastPollCount
    /\ \A s \in Storers : pc[s] = "store" =>
         IF "PollCount" \in todo[s]
         THEN /\ store["PollCount"] <= lastPollCount
              /\ copy[s]["PollCount"] + lastPollCount <= PollCount
         ELSE store["PollCount"] <= PollCount

StoresAll ==
  Single /\ ~raced /\ ~overtaken =>
    /\ NoStore => \A k \in Own : store[k] = Base(lastPollCount)
    /\ \A s \in Storers : pc[s] = "store" =>
         \A k \in Own :
           /\ copy[s][k] = IF k = "PollCount" THEN PollCount - lastPollCount ELSE PollCount
           /\ store[k] = IF k \in todo[s] THEN Base(lastPollCount) ELSE PollCount

GInv(g) == Roles(g) /\ Copies(g)

CInv ==
  /\ TypeOK /\ Mutex /\ Alone /\ MapIsPoll /\ StoresNoMore /\ StoresAll
  /\ \A g \in Goroutines : GInv(g)

--------------------------------------------------------------------------------
(* Constants *)

Places == {"idle", "fill", "put", "get", "copy", "store"}

LEMMA NameFacts ==
  /\ Own = Runtime \cup {"PollCount"} /\ Own \subseteq Names /\ System \subseteq Names
  /\ "PollCount" \in Own /\ "PollCount" \notin System /\ "PollCount" \notin Runtime
  /\ Runtime \subseteq Own /\ Runtime \cap System = {} /\ Own \cap System = {}
BY NamesAssumption DEF Own, Names

(* At most one goroutine calls CollectAndStore, if so is assumed. *)
LEMMA OneStorer ==
  ASSUME Single, NEW s \in Storers, NEW t \in Storers
  PROVE  s = t
<1>1. IsFiniteSet(Storers)
  BY FiniteAssumption, FS_Subset DEF Goroutines
<1>2. IsFiniteSet({s, t}) /\ Cardinality({s, t}) <= Cardinality(Storers)
  BY <1>1, FS_Subset
<1>3. ASSUME s # t PROVE FALSE
  <2>1. Cardinality({t}) = 1 /\ IsFiniteSet({t})
    BY FS_Singleton
  <2>2. {t} \cup {s} = {s, t} /\ s \notin {t}
    BY <1>3
  <2>3. Cardinality({s, t}) = 2
    BY <2>1, <2>2, FS_AddElement
  <2>4. Cardinality(Storers) \in Nat
    BY <1>1, FS_CardinalityType
  <2> QED
    BY <1>2, <2>3, <2>4 DEF Single
<1> QED
  BY <1>3

LEMMA GoesFacts ==
  ASSUME TypeOK, NEW g \in Goroutines, NEW place \in Places, NEW keys \in SUBSET Names,
         Goes(g, place, keys)
  PROVE  /\ pc' \in [Goroutines -> Places] /\ todo' \in [Goroutines -> SUBSET Names]
         /\ pc'[g] = place /\ todo'[g] = keys
         /\ \A x \in Goroutines \ {g} : pc'[x] = pc[x] /\ todo'[x] = todo[x]
<1>1. pc \in [Goroutines -> Places] /\ todo \in [Goroutines -> SUBSET Names]
  BY DEF TypeOK, Places
<1> QED
  BY <1>1 DEF Goes

--------------------------------------------------------------------------------
(* What a step leaves alone. *)

Stays(x) == pc'[x] = pc[x] /\ todo'[x] = todo[x] /\ key'[x] = key[x] /\ copy'[x] = copy[x]

Races == raced => raced'

(* The other goroutines. *)
LEMMA OthersStay ==
  ASSUME CInv, TypeOK', NEW x \in Goroutines, Stays(x), Races,
         \/ PollCount' = PollCount
         \/ PollCount' = PollCount + 1 /\ ~Holds(x),
         lastPollCount' = lastPollCount \/ pc[x] # "copy"
  PROVE  GInv(x)'
<1> USE DEF Stays
<1>1. GInv(x) /\ TypeOK /\ PollCount \in Nat /\ PollCount' \in Nat /\ lastPollCount \in Nat
  BY MaxPollsAssumption DEF CInv, TypeOK
<1>2. Fills(x)' <=> Fills(x)
  BY DEF Fills
<1>3. Roles(x)'
  BY <1>1, <1>2 DEF GInv, Roles, Holds
<1>4. ASSUME pc[x] = "copy" PROVE PollCount' = PollCount /\ lastPollCount' = lastPollCount
  BY <1>4 DEF Holds
<1>5. Copies(x)'
  BY <1>1, <1>4 DEF GInv, Copies, Races
<1> QED
  BY <1>3, <1>5 DEF GInv

(* The map, as far as Collect writes it. *)
LEMMA MapStays ==
  ASSUME CInv, Races, PollCount' = PollCount, \A k \in Own : metrics'[k] = metrics[k],
         \A x \in Goroutines : Fills(x)' <=> Fills(x),
         \A x \in Goroutines : Fills(x) => pc'[x] = pc[x] /\ todo'[x] = todo[x] /\ key'[x] = key[x]
  PROVE  MapIsPoll'
<1>1. MapIsPoll
  BY DEF CInv
<1>2. ASSUME ~raced' PROVE ~raced
  BY <1>2 DEF Races
<1>3. ASSUME ~raced', \A x \in Goroutines : ~Fills(x)', NEW k \in Own
      PROVE  metrics'[k] = Base(PollCount)
  BY <1>1, <1>2, <1>3 DEF MapIsPoll
<1>4. ASSUME ~raced', NEW x \in Goroutines, Fills(x)', NEW k \in Own
      PROVE  metrics'[k] = IF Pending(x, k)' THEN Base(Number(x)' - 1) ELSE Number(x)'
  <2>1. Number(x)' = Number(x) /\ (Pending(x, k)' <=> Pending(x, k)) /\ Fills(x)
    BY <1>4 DEF Number, Pending
  <2>2. metrics[k] = IF Pending(x, k) THEN Base(Number(x) - 1) ELSE Number(x)
    BY <1>1, <1>2, <1>4, <2>1 DEF MapIsPoll
  <2> QED
    BY <2>1, <2>2
<1> QED
  BY <1>3, <1>4 DEF MapIsPoll, Base

(* The storage. *)
LEMMA StoreStays ==
  ASSUME CInv, TypeOK', Races, overtaken => overtaken', UNCHANGED <<store, lastPollCount>>,
         PollCount' = PollCount
           \/ (PollCount' = PollCount + 1 /\ (Single => NoStore \/ overtaken')),
         \A s \in Storers : pc'[s] = "store" <=> pc[s] = "store",
         \A s \in Storers : pc[s] = "store" => todo'[s] = todo[s] /\ copy'[s] = copy[s]
  PROVE  StoresNoMore' /\ StoresAll'
<1>1. /\ TypeOK /\ PollCount \in Nat /\ lastPollCount \in Nat /\ store["PollCount"] \in Int
      /\ StoresNoMore /\ StoresAll /\ (NoStore' <=> NoStore)
      /\ \A s \in Storers : copy[s]["PollCount"] \in Int
  BY NameFacts, MaxPollsAssumption DEF CInv, TypeOK, NoStore, Goroutines
<1>2. PollCount' >= PollCount
  BY <1>1
<1>3. StoresNoMore'
  <2> SUFFICES ASSUME Single
               PROVE  /\ NoStore' => store["PollCount"] <= lastPollCount
                      /\ \A s \in Storers : pc'[s] = "store" =>
                           IF "PollCount" \in todo'[s]
                           THEN /\ store["PollCount"] <= lastPollCount
                                /\ copy'[s]["PollCount"] + lastPollCount <= PollCount'
                           ELSE store["PollCount"] <= PollCount'
    BY DEF StoresNoMore
  <2>1. NoStore' => store["PollCount"] <= lastPollCount
    BY <1>1 DEF StoresNoMore
  <2>2. ASSUME NEW s \in Storers, pc'[s] = "store"
        PROVE  IF "PollCount" \in todo'[s]
               THEN /\ store["PollCount"] <= lastPollCount
                    /\ copy'[s]["PollCount"] + lastPollCount <= PollCount'
               ELSE store["PollCount"] <= PollCount'
    <3>1. pc[s] = "store" /\ todo'[s] = todo[s] /\ copy'[s] = copy[s]
      BY <2>2
    <3>2. IF "PollCount" \in todo[s]
          THEN /\ store["PollCount"] <= lastPollCount
               /\ copy[s]["PollCount"] + lastPollCount <= PollCount
          ELSE store["PollCount"] <= PollCount
      BY <1>1, <3>1 DEF StoresNoMore
    <3>3. PollCount' \in Nat
      BY <1>1
    <3> QED
      BY <1>1, <1>2, <3>1, <3>2, <3>3
  <2> QED
    BY <2>1, <2>2
<1>4. StoresAll'
  <2> SUFFICES ASSUME Single, ~raced', ~overtaken'
               PROVE  /\ NoStore' => \A k \in Own : store[k] = Base(lastPollCount)
                      /\ \A s \in Storers : pc'[s] = "store" =>
                           \A k \in Own :
                             /\ copy'[s][k] = IF k = "PollCount" THEN PollCount' - lastPollCount
                                                                 ELSE PollCount'
                             /\ store[k] = IF k \in todo'[s] THEN Base(lastPollCount)
                                                             ELSE PollCount'
    BY DEF StoresAll, Base
  <2>1. ~raced /\ ~overtaken
    BY DEF Races
  <2>2. ASSUME NEW s \in Storers, pc'[s] = "store" PROVE PollCount' = PollCount
    BY <2>2 DEF NoStore
  <2> QED
    BY <1>1, <2>1, <2>2 DEF StoresAll
<1> QED
  BY <1>3, <1>4

(* Who is in the map. *)
LEMMA AloneStays ==
  ASSUME CInv, Races, Writers' \subseteq Writers, Readers' \subseteq Readers
  PROVE  Alone'
<1>1. Alone
  BY DEF CInv
<1> QED
  BY <1>1 DEF Alone, Races

LEMMA InitCollector == Init => CInv
<1> SUFFICES ASSUME Init PROVE CInv
  OBVIOUS
<1> USE DEF Init
<1>1. TypeOK
  <2>1. NoMetrics \in [Names -> Int]
    BY DEF NoMetrics, Absent
  <2>2. PollCount \in 0 .. MaxPolls /\ lastPollCount \in 0 .. PollCount
    BY MaxPollsAssumption
  <2>3. {crashed, raced, overtaken} \subseteq BOOLEAN /\ mu \in Goroutines \cup {Free}
    OBVIOUS
  <2> QED
    BY <2>1, <2>2, <2>3, NameFacts DEF TypeOK
<1>2. Mutex
  BY RolesAssumption DEF Mutex, Holds, Fills
<1>3. Alone /\ MapIsPoll
  BY NameFacts DEF Alone, Writers, MapIsPoll, Fills, NoMetrics, Base
<1>4. StoresNoMore /\ StoresAll
  <2>1. \A k \in Own : store[k] = Absent
    BY NameFacts DEF NoMetrics
  <2>2. \A s \in Storers : pc[s] # "store"
    BY DEF Goroutines
  <2> QED
    BY <2>1, <2>2, NameFacts DEF StoresNoMore, StoresAll, Base, Absent
<1>5. ASSUME NEW g \in Goroutines PROVE GInv(g)
  BY DEF GInv, Roles, Copies, Fills
<1> QED
  BY <1>1, <1>2, <1>3, <1>4, <1>5 DEF CInv

--------------------------------------------------------------------------------
(* Collect and CollectSystemMetrics *)

LEMMA LockCollectKeeps ==
  ASSUME CInv, NEW g \in Goroutines, LockCollect(g)
  PROVE  CInv'
<1> USE DEF LockCollect
<1>1. TypeOK /\ Mutex /\ GInv(g)
  BY DEF CInv
<1>2. /\ pc' \in [Goroutines -> Places] /\ todo' \in [Goroutines -> SUBSET Names]
      /\ pc'[g] = "fill" /\ todo'[g] = Own
      /\ \A x \in Goroutines \ {g} : pc'[x] = pc[x] /\ todo'[x] = todo[x]
  <2>1. Own \in SUBSET Names /\ "fill" \in Places /\ Own = Runtime \cup {"PollCount"}
    BY NameFacts DEF Places
  <2> QED
    BY <1>1, <2>1, GoesFacts
<1>3. TypeOK'
  BY <1>1, <1>2 DEF TypeOK, Places
<1>4. \A x \in Goroutines : ~Holds(x)
  BY <1>1, RolesAssumption DEF Mutex
<1>5. Fills(g)' /\ \A x \in Goroutines \ {g} : ~Fills(x)' /\ ~Holds(x)'
  BY <1>2, <1>4 DEF Fills, Holds
<1>6. Mutex'
  BY <1>5 DEF Mutex, Holds
<1>7. Writers' \subseteq Writers /\ Readers' \subseteq Readers
  BY <1>2 DEF Writers, Readers
<1>8. MapIsPoll'
  <2>1. ASSUME ~raced, NEW k \in Own
        PROVE  metrics[k] = IF Pending(g, k)' THEN Base(Number(g)' - 1) ELSE Number(g)'
    <3>1. metrics[k] = Base(PollCount)
      BY <1>4, <2>1 DEF CInv, MapIsPoll, Holds
    <3>2. Pending(g, k)' /\ Number(g)' - 1 = PollCount
      BY <1>1, <1>2, NameFacts, MaxPollsAssumption DEF Pending, Number, TypeOK
    <3> QED
      BY <3>1, <3>2
  <2> QED
    BY <1>5, <2>1 DEF MapIsPoll
<1>9. GInv(g)'
  <2>1. copy[g] = NoMetrics /\ g \notin SystemPollers /\ g \notin Reporters
    BY <1>1, RolesAssumption DEF GInv, Roles
  <2> QED
    BY <1>2, <1>5, <2>1, NameFacts DEF GInv, Roles, Copies
<1>10. ASSUME NEW x \in Goroutines, x # g PROVE GInv(x)'
  BY <1>2, <1>3, <1>10, OthersStay DEF Stays, Races
<1>11. StoresNoMore' /\ StoresAll'
  <2>1. \A s \in Storers : /\ pc'[s] = "store" <=> pc[s] = "store"
                           /\ pc[s] = "store" => todo'[s] = todo[s] /\ copy'[s] = copy[s]
    BY <1>2 DEF Goroutines
  <2> QED
    BY <1>3, <2>1, StoreStays DEF Races
<1> QED
  BY <1>3, <1>6, <1>7, <1>8, <1>9, <1>10, <1>11, AloneStays DEF CInv, Races

LEMMA MeasureSystemKeeps ==
  ASSUME CInv, NEW g \in Goroutines, MeasureSystem(g)
  PROVE  CInv'
<1> USE DEF MeasureSystem
<1>1. TypeOK /\ Mutex /\ GInv(g)
  BY DEF CInv
<1>2. /\ pc' \in [Goroutines -> Places] /\ todo' \in [Goroutines -> SUBSET Names]
      /\ pc'[g] = "fill" /\ todo'[g] = System
      /\ \A x \in Goroutines \ {g} : pc'[x] = pc[x] /\ todo'[x] = todo[x]
  <2>1. System \in SUBSET Names /\ "fill" \in Places
    BY NameFacts DEF Places
  <2> QED
    BY <1>1, <2>1, GoesFacts
<1>3. TypeOK'
  BY <1>1, <1>2 DEF TypeOK, Places
<1>4. g \notin Pollers \cup Storers /\ g \notin Reporters
  BY RolesAssumption
<1>5. \A x \in Goroutines : (Fills(x)' <=> Fills(x)) /\ (Holds(x)' <=> Holds(x))
  BY <1>2, <1>4 DEF Fills, Holds
<1>6. Mutex'
  BY <1>1, <1>5 DEF Mutex
<1>7. Writers' \subseteq Writers /\ Readers' \subseteq Readers
  BY <1>2 DEF Writers, Readers
<1>8. MapIsPoll'
  BY <1>2, <1>4, <1>5, MapStays DEF Races, Fills
<1>9. GInv(g)'
  <2>1. copy[g] = NoMetrics
    BY <1>1 DEF GInv, Roles
  <2> QED
    BY <1>2, <1>4, <2>1 DEF GInv, Roles, Copies, Fills
<1>10. ASSUME NEW x \in Goroutines, x # g PROVE GInv(x)'
  BY <1>2, <1>3, <1>10, OthersStay DEF Stays, Races
<1>11. StoresNoMore' /\ StoresAll'
  <2>1. \A s \in Storers : /\ pc'[s] = "store" <=> pc[s] = "store"
                           /\ pc[s] = "store" => todo'[s] = todo[s] /\ copy'[s] = copy[s]
    BY <1>2 DEF Goroutines
  <2> QED
    BY <1>3, <2>1, StoreStays DEF Races
<1> QED
  BY <1>3, <1>6, <1>7, <1>8, <1>9, <1>10, <1>11, AloneStays DEF CInv, Races

LEMMA StartPutKeeps ==
  ASSUME CInv, NEW g \in Goroutines, StartPut(g)
  PROVE  CInv'
<1> USE DEF StartPut
<1>1. TypeOK /\ Mutex /\ GInv(g)
  BY DEF CInv
<1>2. PICK k \in todo[g] :
        /\ k = "PollCount" => todo[g] = {k}
        /\ key' = [key EXCEPT ![g] = k]
        /\ Goes(g, "put", todo[g] \ {k})
        /\ PollCount' = IF k = "PollCount" THEN PollCount + 1 ELSE PollCount
        /\ overtaken' = (overtaken \/ (k = "PollCount" /\ \E s \in Storers \ {g} : pc[s] = "store"))
  OBVIOUS
<1>3. /\ pc' \in [Goroutines -> Places] /\ todo' \in [Goroutines -> SUBSET Names]
      /\ pc'[g] = "put" /\ todo'[g] = todo[g] \ {k} /\ key'[g] = k /\ k \in Names
      /\ key' \in [Goroutines -> Names]
      /\ \A x \in Goroutines \ {g} : pc'[x] = pc[x] /\ todo'[x] = todo[x] /\ key'[x] = key[x]
  <2>1. todo[g] \in SUBSET Names /\ k \in Names /\ "put" \in Places
    BY <1>1 DEF Places, TypeOK
  <2>2. todo[g] \ {k} \in SUBSET Names
    BY <2>1
  <2>3. /\ key' \in [Goroutines -> Names] /\ key'[g] = k
        /\ \A x \in Goroutines \ {g} : key'[x] = key[x]
    BY <1>1, <1>2, <2>1 DEF TypeOK
  <2> QED
    BY <1>1, <1>2, <2>1, <2>2, <2>3, GoesFacts
<1>4. pc[g] = "fill" /\ (g \in SystemPollers \/ Fills(g)) /\ ~(g \in SystemPollers /\ Fills(g))
  BY <1>1, RolesAssumption DEF GInv, Roles, Fills, Goroutines
<1>5. k = "PollCount" => Fills(g) /\ PollCount < MaxPolls
  BY <1>1, <1>4, NameFacts DEF GInv, Roles
<1>6. PollCount \in Nat /\ PollCount' \in Nat /\ lastPollCount \in Nat
      /\ PollCount' \in 0 .. MaxPolls /\ lastPollCount \in 0 .. PollCount'
  BY <1>1, <1>2, <1>5, MaxPollsAssumption DEF TypeOK
<1>7. TypeOK'
  <2>1. {crashed', raced', overtaken'} \subseteq BOOLEAN
    BY <1>1, <1>2 DEF TypeOK
  <2> QED
    BY <1>1, <1>3, <1>6, <2>1 DEF TypeOK, Places
<1>8. \A x \in Goroutines : (Fills(x)' <=> Fills(x)) /\ (Holds(x)' <=> Holds(x))
  BY <1>3, <1>4 DEF Fills, Holds
<1>9. Mutex'
  BY <1>1, <1>8 DEF Mutex
<1>10. ~raced' => ~raced /\ Writers = {} /\ Readers = {}
  BY <1>1 DEF TypeOK
<1>11. Alone'
  BY <1>3, <1>10 DEF Alone, Writers, Readers
<1>12. MapIsPoll'
  <2>1. CASE g \in SystemPollers
    BY <1>2, <1>3, <1>4, <1>5, <1>8, <1>10, <2>1, MapStays DEF Races
  <2>2. CASE Fills(g)
    <3>1. \A x \in Goroutines : Fills(x) => x = g
      BY <1>1, <2>2 DEF Mutex, Holds
    <3>2. Number(g)' = Number(g)
      BY <1>2, <1>3, <1>6 DEF Number
    <3>3. \A n \in Own : Pending(g, n)' <=> Pending(g, n)
      BY <1>3, <1>4 DEF Pending
    <3>4. ASSUME ~raced', NEW n \in Own
          PROVE  metrics[n] = IF Pending(g, n)' THEN Base(Number(g)' - 1) ELSE Number(g)'
      <4>1. metrics[n] = IF Pending(g, n) THEN Base(Number(g) - 1) ELSE Number(g)
        BY <1>10, <2>2, <3>4 DEF CInv, MapIsPoll
      <4> QED
        BY <3>2, <3>3, <4>1
    <3>5. Fills(g)' /\ \A x \in Goroutines : Fills(x)' => x = g
      BY <1>8, <2>2, <3>1
    <3> QED
      BY <3>4, <3>5 DEF MapIsPoll
  <2> QED
    BY <1>4, <2>1, <2>2
<1>13. GInv(g)'
  <2>1. copy'[g] = copy[g] /\ copy[g] = NoMetrics /\ g \notin Reporters
    BY <1>1, <1>4 DEF GInv, Roles
  <2>2. CASE g \in SystemPollers
    <3>1. g \notin Pollers \cup Storers /\ k \in System /\ todo[g] \subseteq System
      BY <1>1, <2>2, RolesAssumption DEF GInv, Roles
    <3> QED
      BY <1>3, <2>1, <2>2, <3>1 DEF GInv, Roles, Copies, Fills
  <2>3. CASE Fills(g)
    <3>1. /\ g \notin SystemPollers /\ todo[g] \subseteq Own /\ "PollCount" \in todo[g]
          /\ PollCount < MaxPolls
      BY <1>1, <1>4, <2>3 DEF GInv, Roles
    <3>2. CASE k = "PollCount"
      BY <1>2, <1>3, <1>6, <2>1, <3>1, <3>2, NameFacts DEF GInv, Roles, Copies
    <3>3. CASE k # "PollCount"
      BY <1>2, <1>3, <1>6, <2>1, <3>1, <3>3, NameFacts DEF GInv, Roles, Copies
    <3> QED
      BY <3>2, <3>3
  <2> QED
    BY <1>4, <2>2, <2>3
<1>14. ASSUME NEW x \in Goroutines, x # g PROVE GInv(x)'
  <2>1. k = "PollCount" => ~Holds(x)
    BY <1>1, <1>5, <1>14 DEF Mutex, Holds
  <2>2. Stays(x) /\ Races
    BY <1>3, <1>10, <1>14 DEF Stays, Races
  <2> QED
    BY <1>2, <1>7, <2>1, <2>2, OthersStay
<1>15. StoresNoMore' /\ StoresAll'
  <2>1. \A s \in Storers : /\ pc'[s] = "store" <=> pc[s] = "store"
                           /\ pc[s] = "store" => todo'[s] = todo[s] /\ copy'[s] = copy[s]
    BY <1>3, <1>4 DEF Goroutines
  <2>2. (overtaken => overtaken') /\ Races
    BY <1>2, <1>10 DEF Races
  <2>3. k = "PollCount" => NoStore \/ overtaken'
    BY <1>2, <1>4 DEF NoStore
  <2> QED
    BY <1>2, <1>7, <2>1, <2>2, <2>3, StoreStays
<1> QED
  BY <1>7, <1>9, <1>11, <1>12, <1>13, <1>14, <1>15 DEF CInv

LEMMA EndPutKeeps ==
  ASSUME CInv, NEW g \in Goroutines, EndPut(g)
  PROVE  CInv'
<1> USE DEF EndPut
<1>1. TypeOK /\ Mutex /\ GInv(g) /\ Alone
  BY DEF CInv
<1>2. /\ pc' \in [Goroutines -> Places] /\ todo' \in [Goroutines -> SUBSET Names]
      /\ pc'[g] = "fill" /\ todo'[g] = todo[g] /\ key' \in [Goroutines -> Names]
      /\ \A x \in Goroutines \ {g} : pc'[x] = pc[x] /\ todo'[x] = todo[x] /\ key'[x] = key[x]
  <2>1. todo[g] \in SUBSET Names /\ "fill" \in Places
    BY <1>1 DEF Places, TypeOK
  <2>2. /\ key' \in [Goroutines -> Names]
        /\ \A x \in Goroutines \ {g} : key'[x] = key[x]
    BY <1>1, NameFacts DEF TypeOK
  <2> QED
    BY <1>1, <2>1, <2>2, GoesFacts
<1>3. pc[g] = "put" /\ (g \in SystemPollers \/ Fills(g)) /\ ~(g \in SystemPollers /\ Fills(g))
  BY <1>1, RolesAssumption DEF GInv, Roles, Fills, Goroutines
<1>4. /\ key[g] \in Names /\ Value(g) \in Int /\ PollCount \in Nat
      /\ metrics \in [Names -> Int] /\ metrics' \in [Names -> Int]
  <2>1. key[g] \in Names /\ PollCount \in Nat
    BY <1>1, MaxPollsAssumption DEF TypeOK
  <2>2. Value(g) \in Int
    <3>1. CASE key[g] \in Runtime
      BY <2>1, <3>1, NameFacts DEF Value
    <3>2. CASE key[g] = "PollCount"
      BY <2>1, <3>2, NameFacts DEF Value
    <3>3. CASE key[g] \notin Runtime /\ key[g] # "PollCount"
      BY <3>3 DEF Value, Measured
    <3> QED
      BY <3>1, <3>2, <3>3
  <2> HIDE DEF Value
  <2> QED
    BY <1>1, <2>1, <2>2 DEF TypeOK
<1>5. TypeOK'
  BY <1>1, <1>2, <1>4 DEF TypeOK, Places
<1>6. \A x \in Goroutines : (Fills(x)' <=> Fills(x)) /\ (Holds(x)' <=> Holds(x))
  BY <1>2, <1>3 DEF Fills, Holds
<1>7. Mutex'
  BY <1>1, <1>6 DEF Mutex
<1>8. Writers' \subseteq Writers /\ Readers' \subseteq Readers
  BY <1>2 DEF Writers, Readers
<1>9. ~raced => Writers = {g}
  BY <1>1, <1>3 DEF Alone, Writers
<1>10. MapIsPoll'
  <2>1. CASE g \in SystemPollers
    <3>1. key[g] \in System
      BY <1>1, <1>3, <2>1 DEF GInv, Roles
    <3>2. \A k \in Own : metrics'[k] = metrics[k]
      BY <1>4, <3>1, NameFacts
    <3> QED
      BY <1>2, <1>3, <1>6, <2>1, <3>2, MapStays DEF Races
  <2>2. CASE Fills(g)
    <3>1. \A x \in Goroutines : Fills(x) => x = g
      BY <1>1, <2>2 DEF Mutex, Holds
    <3>2. Number(g)' = Number(g) /\ key[g] \in Own /\ key[g] \notin todo[g]
      BY <1>1, <1>2, <1>3, <2>2 DEF Number, GInv, Roles
    <3>3. Value(g) = Number(g)
      <4>1. CASE key[g] = "PollCount"
        BY <1>1, <1>3, <2>2, <4>1, NameFacts DEF Value, Number, GInv, Roles
      <4>2. CASE key[g] # "PollCount"
        BY <1>1, <1>3, <2>2, <3>2, <4>2, NameFacts DEF Value, Number, GInv, Roles
      <4> QED
        BY <4>1, <4>2
    <3>4. ASSUME ~raced, NEW n \in Own
          PROVE  metrics'[n] = IF Pending(g, n)' THEN Base(Number(g)' - 1) ELSE Number(g)'
      <4>1. metrics[n] = IF Pending(g, n) THEN Base(Number(g) - 1) ELSE Number(g)
        BY <2>2, <3>4 DEF CInv, MapIsPoll
      <4>2. metrics' = [metrics EXCEPT ![key[g]] = Value(g)]
        BY <1>9, <3>4
      <4>3. metrics'[n] = IF n = key[g] THEN Number(g) ELSE metrics[n]
        BY <1>4, <3>3, <4>2, NameFacts
      <4>4. Pending(g, n)' <=> n \in todo[g]
        BY <1>2 DEF Pending
      <4>5. Pending(g, n) <=> n \in todo[g] \/ n = key[g]
        BY <1>3 DEF Pending
      <4> QED
        BY <3>2, <4>1, <4>3, <4>4, <4>5
    <3>5. Fills(g)' /\ \A x \in Goroutines : Fills(x)' => x = g
      BY <1>6, <2>2, <3>1
    <3> QED
      BY <3>4, <3>5 DEF MapIsPoll
  <2> QED
    BY <1>3, <2>1, <2>2
<1>11. GInv(g)'
  <2>1. copy'[g] = copy[g] /\ copy[g] = NoMetrics /\ g \notin Reporters
    BY <1>1, <1>3 DEF GInv, Roles
  <2>2. Fills(g) => IF key[g] = "PollCount" THEN todo[g] = {} ELSE "PollCount" \in todo[g]
    BY <1>1, <1>3 DEF GInv, Roles
  <2> QED
    BY <1>1, <1>2, <1>3, <1>6, <2>1, <2>2 DEF GInv, Roles, Copies
<1>12. ASSUME NEW x \in Goroutines, x # g PROVE GInv(x)'
  BY <1>2, <1>5, <1>12, OthersStay DEF Stays, Races
<1>13. StoresNoMore' /\ StoresAll'
  <2>1. \A s \in Storers : /\ pc'[s] = "store" <=> pc[s] = "store"
                           /\ pc[s] = "store" => todo'[s] = todo[s] /\ copy'[s] = copy[s]
    BY <1>2, <1>3 DEF Goroutines
  <2> QED
    BY <1>5, <2>1, StoreStays DEF Races
<1> QED
  BY <1>5, <1>7, <1>8, <1>10, <1>11, <1>12, <1>13, AloneStays DEF CInv, Races

LEMMA FinishFillKeeps ==
  ASSUME CInv, NEW g \in Goroutines, FinishFill(g)
  PROVE  CInv'
<1> USE DEF FinishFill
<1> DEFINE place == IF g \in Storers THEN "get" ELSE "idle"
<1>1. TypeOK /\ Mutex /\ GInv(g)
  BY DEF CInv
<1>2. /\ pc' \in [Goroutines -> Places] /\ todo' \in [Goroutines -> SUBSET Names]
      /\ pc'[g] = place /\ todo'[g] = {} /\ place \in {"get", "idle"}
      /\ \A x \in Goroutines \ {g} : pc'[x] = pc[x] /\ todo'[x] = todo[x]
  <2>1. place \in Places /\ place \in {"get", "idle"} /\ {} \in SUBSET Names
    BY DEF Places
  <2>2. Goes(g, place, {})
    OBVIOUS
  <2> HIDE DEF place
  <2> QED
    BY <1>1, <2>1, <2>2, GoesFacts
<1>3. TypeOK'
  BY <1>1, <1>2 DEF TypeOK, Places
<1>4. pc[g] = "fill" /\ (g \in SystemPollers \/ Fills(g)) /\ ~(g \in SystemPollers /\ Fills(g))
  BY <1>1, RolesAssumption DEF GInv, Roles, Fills, Goroutines
<1>5. \A x \in Goroutines \ {g} : (Fills(x)' <=> Fills(x)) /\ (Holds(x)' <=> Holds(x))
  BY <1>2 DEF Fills, Holds
<1>6. ~Fills(g)' /\ ~Holds(g)'
  BY <1>2 DEF Fills, Holds
<1>7. Mutex'
  <2>1. CASE g \in SystemPollers
    BY <1>1, <1>4, <1>5, <1>6, <2>1 DEF Mutex, Holds
  <2>2. CASE Fills(g)
    <3>1. mu = g /\ mu' = Free /\ Free \notin Goroutines
      BY <1>1, <1>4, <2>2, RolesAssumption DEF Mutex, Holds
    <3> QED
      BY <1>1, <1>5, <1>6, <3>1 DEF Mutex
  <2> QED
    BY <1>4, <2>1, <2>2
<1>8. Writers' \subseteq Writers /\ Readers' \subseteq Readers
  BY <1>2 DEF Writers, Readers
<1>9. MapIsPoll'
  <2>1. CASE g \in SystemPollers
    BY <1>2, <1>4, <1>5, <1>6, <2>1, MapStays DEF Races
  <2>2. CASE Fills(g)
    <3>1. \A x \in Goroutines : ~Fills(x)'
      BY <1>1, <1>5, <1>6, <2>2 DEF Mutex, Holds
    <3>2. ASSUME ~raced, NEW n \in Own PROVE metrics[n] = Base(PollCount)
      <4>1. metrics[n] = IF Pending(g, n) THEN Base(Number(g) - 1) ELSE Number(g)
        BY <2>2, <3>2 DEF CInv, MapIsPoll
      <4>2. ~Pending(g, n) /\ Number(g) = PollCount
        BY <1>4 DEF Pending, Number
      <4>3. PollCount # 0
        BY <1>1, <2>2 DEF GInv, Roles
      <4> QED
        BY <4>1, <4>2, <4>3 DEF Base
    <3> QED
      BY <3>1, <3>2 DEF MapIsPoll, Base
  <2> QED
    BY <1>4, <2>1, <2>2
<1>10. GInv(g)'
  <2>1. copy'[g] = copy[g] /\ copy[g] = NoMetrics /\ g \notin Reporters
    BY <1>1, <1>4 DEF GInv, Roles
  <2>2. g \in Storers => PollCount >= 1 /\ g \notin Pollers \cup SystemPollers
    <3>1. ASSUME g \in Storers PROVE Fills(g)
      BY <1>4, <3>1 DEF Fills
    <3> QED
      BY <1>1, <1>4, <3>1, RolesAssumption DEF GInv, Roles
  <2> QED
    BY <1>2, <1>6, <2>1, <2>2 DEF GInv, Roles, Copies
<1>11. ASSUME NEW x \in Goroutines, x # g PROVE GInv(x)'
  BY <1>2, <1>3, <1>11, OthersStay DEF Stays, Races
<1>12. StoresNoMore' /\ StoresAll'
  <2>1. \A s \in Storers : /\ pc'[s] = "store" <=> pc[s] = "store"
                           /\ pc[s] = "store" => todo'[s] = todo[s] /\ copy'[s] = copy[s]
    BY <1>2, <1>4 DEF Goroutines
  <2> QED
    BY <1>3, <2>1, StoreStays DEF Races
<1> QED
  BY <1>3, <1>7, <1>8, <1>9, <1>10, <1>11, <1>12, AloneStays DEF CInv, Races

(* The runtime stops the process, or nothing happens. *)
LEMMA StopKeeps ==
  ASSUME CInv, crashed' \in BOOLEAN,
         UNCHANGED <<PollCount, lastPollCount, mu, metrics, pc, todo, key, copy, store, raced,
                     overtaken>>
  PROVE  CInv'
<1>1. TypeOK'
  BY DEF CInv, TypeOK
<1>2. Mutex' /\ MapIsPoll' /\ Alone'
  BY DEF CInv, Mutex, Holds, Fills, MapIsPoll, Pending, Number, Alone, Writers, Readers
<1>3. StoresNoMore' /\ StoresAll'
  BY <1>1, StoreStays DEF Races
<1>4. ASSUME NEW x \in Goroutines PROVE GInv(x)'
  BY <1>1, OthersStay DEF Stays, Races
<1> QED
  BY <1>1, <1>2, <1>3, <1>4 DEF CInv

--------------------------------------------------------------------------------
(* GetMetrics *)

LEMMA LockGetKeeps ==
  ASSUME CInv, NEW g \in Goroutines, LockGet(g)
  PROVE  CInv'
<1> USE DEF LockGet
<1>1. TypeOK /\ Mutex /\ GInv(g)
  BY DEF CInv
<1>2. /\ pc' \in [Goroutines -> Places] /\ todo' \in [Goroutines -> SUBSET Names]
      /\ pc'[g] = "copy" /\ todo'[g] = Present(metrics)
      /\ \A x \in Goroutines \ {g} : pc'[x] = pc[x] /\ todo'[x] = todo[x]
  <2>1. Present(metrics) \in SUBSET Names /\ "copy" \in Places
    BY DEF Places, Present
  <2> QED
    BY <1>1, <2>1, GoesFacts
<1>3. TypeOK'
  <2>1. {crashed', raced', overtaken'} \subseteq BOOLEAN
    BY <1>1 DEF TypeOK
  <2> QED
    BY <1>1, <1>2, <2>1 DEF TypeOK, Places
<1>4. \A x \in Goroutines : ~Holds(x)
  BY <1>1, RolesAssumption DEF Mutex
<1>5. /\ Holds(g)' /\ \A x \in Goroutines \ {g} : ~Holds(x)'
      /\ \A x \in Goroutines : ~Fills(x) /\ ~Fills(x)'
  BY <1>2, <1>4 DEF Fills, Holds
<1>6. Mutex'
  BY <1>5 DEF Mutex
<1>7. Races /\ (~raced' => Writers = {} /\ Writers' = {})
  BY <1>1, <1>2 DEF TypeOK, Races, Writers
<1>8. Alone'
  BY <1>7 DEF Alone
<1>9. MapIsPoll'
  BY <1>5, <1>7, MapStays
<1>10. GInv(g)'
  <2>1. g \in Reporters \/ (g \in Storers /\ pc[g] = "get")
    BY DEF CallsGet
  <2>2. copy'[g] = copy[g] /\ copy[g] = NoMetrics
    BY <1>1 DEF GInv, Roles, CallsGet
  <2>3. Roles(g)'
    BY <1>1, <1>2, <1>5, <2>1, RolesAssumption DEF GInv, Roles
  <2>4. ASSUME ~raced', NEW k \in Own, PollCount # 0 PROVE k \in Present(metrics)
    <3>1. metrics[k] = PollCount
      BY <1>5, <1>7, <2>4 DEF CInv, MapIsPoll, Races, Base
    <3>2. PollCount # Absent
      BY <1>1, MaxPollsAssumption DEF TypeOK, Absent
    <3> QED
      BY <3>1, <3>2, NameFacts DEF Present
  <2>5. \A k \in Own : copy'[g][k] = Absent
    BY <2>2, NameFacts DEF NoMetrics
  <2>6. Copies(g)'
    BY <1>2, <2>4, <2>5, NameFacts DEF Copies
  <2> QED
    BY <2>3, <2>6 DEF GInv
<1>11. ASSUME NEW x \in Goroutines, x # g PROVE GInv(x)'
  BY <1>2, <1>3, <1>7, <1>11, OthersStay DEF Stays
<1>12. StoresNoMore' /\ StoresAll'
  <2>1. \A s \in Storers : /\ pc'[s] = "store" <=> pc[s] = "store"
                           /\ pc[s] = "store" => todo'[s] = todo[s] /\ copy'[s] = copy[s]
    BY <1>2 DEF Goroutines, CallsGet
  <2> QED
    BY <1>3, <1>7, <2>1, StoreStays
<1> QED
  BY <1>3, <1>6, <1>8, <1>9, <1>10, <1>11, <1>12 DEF CInv

LEMMA CopyKeyKeeps ==
  ASSUME CInv, NEW g \in Goroutines, CopyKey(g)
  PROVE  CInv'
<1> USE DEF CopyKey
<1>1. TypeOK /\ Mutex /\ GInv(g)
  BY DEF CInv
<1> DEFINE v(n) == IF n = "PollCount" THEN PollCount - lastPollCount ELSE metrics[n]
<1>2. PICK n \in Present(metrics) \ Present(copy[g]) :
        /\ copy' = [copy EXCEPT ![g][n] = v(n)]
        /\ todo' = [todo EXCEPT ![g] = @ \ {n}]
  OBVIOUS
<1>3. n \in Names /\ metrics[n] # Absent /\ v(n) \in Int /\ PollCount \in Nat
      /\ lastPollCount \in Nat /\ lastPollCount <= PollCount
  BY <1>1, MaxPollsAssumption DEF TypeOK, Present
<1>4. /\ copy' \in [Goroutines -> [Names -> Int]]
      /\ \A k \in Names : copy'[g][k] = IF k = n THEN v(n) ELSE copy[g][k]
      /\ \A x \in Goroutines \ {g} : copy'[x] = copy[x]
  <2> DEFINE c == [copy[g] EXCEPT ![n] = v(n)]
  <2>1. copy \in [Goroutines -> [Names -> Int]] /\ copy[g] \in [Names -> Int]
    BY <1>1 DEF TypeOK
  <2>2. c \in [Names -> Int] /\ \A k \in Names : c[k] = IF k = n THEN v(n) ELSE copy[g][k]
    BY <1>3, <2>1
  <2>3. copy' = [copy EXCEPT ![g] = c]
    BY <1>2
  <2> HIDE DEF c, v
  <2> QED
    BY <2>1, <2>2, <2>3
<1>5. /\ todo' \in [Goroutines -> SUBSET Names] /\ todo'[g] = todo[g] \ {n}
      /\ \A x \in Goroutines \ {g} : todo'[x] = todo[x]
  BY <1>1, <1>2 DEF TypeOK
<1>6. TypeOK'
  BY <1>1, <1>4, <1>5 DEF TypeOK
<1>7. pc[g] = "copy" /\ \A x \in Goroutines : ~Fills(x) /\ (Fills(x)' <=> Fills(x))
                                              /\ (Holds(x)' <=> Holds(x))
  BY <1>1 DEF Fills, Holds, Mutex
<1>8. Mutex'
  BY <1>1, <1>7 DEF Mutex
<1>9. Writers' \subseteq Writers /\ Readers' \subseteq Readers
  BY DEF Writers, Readers
<1>10. MapIsPoll'
  BY <1>7, MapStays DEF Races
<1>11. GInv(g)'
  <2>1. Roles(g)'
    BY <1>1, <1>7, RolesAssumption DEF GInv, Roles
  <2>2. copy'[g]["PollCount"] \in {Absent, PollCount - lastPollCount}
    BY <1>1, <1>4, <1>7, NameFacts DEF GInv, Copies
  <2>3. ASSUME ~raced, NEW k \in Own
        PROVE  /\ k # "PollCount" => copy'[g][k] \in {Absent, PollCount}
               /\ copy'[g][k] # Absent => PollCount # 0
               /\ PollCount # 0 => k \in todo'[g] \/ copy'[g][k] # Absent
    <3>1. /\ k # "PollCount" => copy[g][k] \in {Absent, PollCount}
          /\ copy[g][k] # Absent => PollCount # 0
          /\ PollCount # 0 => k \in todo[g] \/ copy[g][k] # Absent
      BY <1>1, <1>7, <2>3 DEF GInv, Copies
    <3>2. CASE k = n
      <4>1. metrics[k] = Base(PollCount)
        BY <1>7, <2>3 DEF CInv, MapIsPoll
      <4>2. PollCount # 0 /\ metrics[k] = PollCount
        BY <1>3, <3>2, <4>1 DEF Base
      <4>3. copy'[g][k] = v(k) /\ v(k) # Absent
        BY <1>3, <1>4, <3>2, <4>2 DEF Absent
      <4> QED
        BY <4>2, <4>3
    <3>3. CASE k # n
      BY <1>4, <1>5, <3>1, <3>3, NameFacts
    <3> QED
      BY <3>2, <3>3
  <2>4. Copies(g)'
    BY <2>2, <2>3 DEF Copies
  <2> QED
    BY <2>1, <2>4 DEF GInv
<1>12. ASSUME NEW x \in Goroutines, x # g PROVE GInv(x)'
  BY <1>4, <1>5, <1>6, <1>12, OthersStay DEF Stays, Races
<1>13. StoresNoMore' /\ StoresAll'
  <2>1. \A s \in Storers : pc[s] = "store" => todo'[s] = todo[s] /\ copy'[s] = copy[s]
    BY <1>4, <1>5, <1>7 DEF Goroutines
  <2> QED
    BY <1>6, <2>1, StoreStays DEF Races
<1> QED
  BY <1>6, <1>8, <1>9, <1>10, <1>11, <1>12, <1>13, AloneStays DEF CInv, Races

LEMMA FinishCopyKeeps ==
  ASSUME CInv, NEW g \in Goroutines, FinishCopy(g)
  PROVE  CInv'
<1> USE DEF FinishCopy
<1>1. TypeOK /\ Mutex /\ GInv(g)
  BY DEF CInv
<1>2. /\ pc' \in [Goroutines -> Places] /\ todo' \in [Goroutines -> SUBSET Names]
      /\ \A x \in Goroutines \ {g} : pc'[x] = pc[x] /\ todo'[x] = todo[x] /\ copy'[x] = copy[x]
      /\ copy' \in [Goroutines -> [Names -> Int]]
      /\ g \in Storers => /\ pc'[g] = "store" /\ todo'[g] = Present(copy[g])
                          /\ copy'[g] = copy[g]
      /\ g \notin Storers => pc'[g] = "idle" /\ todo'[g] = {} /\ copy'[g] = NoMetrics
  <2>1. CASE g \in Storers
    <3>1. Present(copy[g]) \in SUBSET Names /\ "store" \in Places
      BY DEF Places, Present
    <3>2. Goes(g, "store", Present(copy[g])) /\ copy' = copy
      BY <2>1
    <3> QED
      BY <1>1, <2>1, <3>1, <3>2, GoesFacts DEF TypeOK
  <2>2. CASE g \notin Storers
    <3>1. {} \in SUBSET Names /\ "idle" \in Places /\ NoMetrics \in [Names -> Int]
      BY DEF Places, NoMetrics, Absent
    <3>2. Goes(g, "idle", {}) /\ copy' = [copy EXCEPT ![g] = NoMetrics]
      BY <2>2
    <3>3. copy' \in [Goroutines -> [Names -> Int]] /\ copy'[g] = NoMetrics
          /\ \A x \in Goroutines \ {g} : copy'[x] = copy[x]
      BY <1>1, <3>1, <3>2 DEF TypeOK
    <3> QED
      BY <1>1, <2>2, <3>1, <3>2, <3>3, GoesFacts
  <2> QED
    BY <2>1, <2>2
<1>3. TypeOK'
  BY <1>1, <1>2 DEF TypeOK, Places
<1>4. pc[g] = "copy" /\ todo[g] = {} /\ mu = g /\ mu' = Free /\ Free \notin Goroutines
      /\ \A x \in Goroutines : ~Fills(x) /\ ~Fills(x)' /\ ~Holds(x)'
  <2>1. pc[g] = "copy" /\ todo[g] = {} /\ mu = g /\ mu' = Free /\ Free \notin Goroutines
    BY <1>1, RolesAssumption DEF Mutex, Holds
  <2>2. ASSUME NEW x \in Goroutines PROVE ~Fills(x) /\ ~Fills(x)' /\ ~Holds(x)'
    <3>1. CASE x = g
      BY <1>2, <2>1, <3>1 DEF Fills, Holds
    <3>2. CASE x # g
      BY <1>1, <1>2, <2>1, <3>2 DEF Fills, Holds, Mutex
    <3> QED
      BY <3>1, <3>2
  <2> QED
    BY <2>1, <2>2
<1>5. Mutex'
  BY <1>4 DEF Mutex
<1>6. Writers' \subseteq Writers /\ Readers' \subseteq Readers
  BY <1>2 DEF Writers, Readers
<1>7. MapIsPoll'
  BY <1>4, MapStays DEF Races
<1>8. GInv(g)'
  <2>1. CASE g \in Storers
    BY <1>1, <1>2, <1>4, <2>1, RolesAssumption DEF GInv, Roles, Copies
  <2>2. CASE g \notin Storers
    BY <1>1, <1>2, <1>4, <2>2, RolesAssumption DEF GInv, Roles, Copies
  <2> QED
    BY <2>1, <2>2
<1>9. ASSUME NEW x \in Goroutines, x # g PROVE GInv(x)'
  BY <1>2, <1>3, <1>9, OthersStay DEF Stays, Races
<1>10. StoresNoMore' /\ StoresAll'
  <2>1. CASE g \notin Storers
    <3>1. \A s \in Storers : /\ pc'[s] = "store" <=> pc[s] = "store"
                             /\ pc[s] = "store" => todo'[s] = todo[s] /\ copy'[s] = copy[s]
      BY <1>2, <2>1 DEF Goroutines
    <3> QED
      BY <1>3, <3>1, StoreStays DEF Races
  <2>2. CASE g \in Storers
    <3>1. Single => NoStore /\ (\A s \in Storers : s = g)
      BY <1>4, <2>2, OneStorer DEF NoStore
    <3>2. /\ PollCount \in Nat /\ lastPollCount \in Nat /\ lastPollCount <= PollCount
          /\ store["PollCount"] \in Int /\ PollCount >= 1
      BY <1>1, <1>4, <2>2, NameFacts, MaxPollsAssumption DEF TypeOK, GInv, Roles
    <3>3. StoresNoMore'
      <4>1. ASSUME Single PROVE store["PollCount"] <= lastPollCount
        BY <3>1, <4>1 DEF CInv, StoresNoMore
      <4>2. ASSUME "PollCount" \in todo'[g] PROVE copy'[g]["PollCount"] = PollCount - lastPollCount
        BY <1>1, <1>2, <1>4, <2>2, <4>2 DEF GInv, Copies, Present
      <4>3. ~NoStore'
        BY <1>2, <2>2 DEF NoStore
      <4> QED
        BY <3>1, <3>2, <4>1, <4>2, <4>3 DEF StoresNoMore
    <3>4. StoresAll'
      <4> SUFFICES ASSUME Single, ~raced, ~overtaken, NEW k \in Own
                   PROVE  /\ copy'[g][k] = IF k = "PollCount" THEN PollCount - lastPollCount
                                                              ELSE PollCount
                          /\ store[k] = IF k \in todo'[g] THEN Base(lastPollCount) ELSE PollCount
        <5>1. ~NoStore'
          BY <1>2, <2>2 DEF NoStore
        <5> QED
          BY <3>1, <5>1 DEF StoresAll, Base
      <4>1. store[k] = Base(lastPollCount)
        BY <3>1 DEF CInv, StoresAll
      <4>2. copy[g][k] # Absent
        BY <1>1, <1>4, <3>2 DEF GInv, Copies
      <4>3. copy[g][k] = IF k = "PollCount" THEN PollCount - lastPollCount ELSE PollCount
        BY <1>1, <1>4, <4>2 DEF GInv, Copies
      <4>4. k \in todo'[g]
        BY <1>2, <2>2, <4>2, NameFacts DEF Present
      <4> QED
        BY <1>2, <2>2, <4>1, <4>3, <4>4
    <3> QED
      BY <3>3, <3>4
  <2> QED
    BY <2>1, <2>2
<1> QED
  BY <1>3, <1>5, <1>6, <1>7, <1>8, <1>9, <1>10, AloneStays DEF CInv, Races

--------------------------------------------------------------------------------
(* The rest of CollectAndStore *)

LEMMA StoreKeyKeeps ==
  ASSUME CInv, NEW g \in Goroutines, StoreKey(g)
  PROVE  CInv'
<1> USE DEF StoreKey
<1>1. TypeOK /\ Mutex /\ GInv(g)
  BY DEF CInv
<1>2. PICK n \in todo[g] :
        /\ store' = [store EXCEPT ![n] = StoredValue(g, n)]
        /\ todo' = [todo EXCEPT ![g] = @ \ {n}]
  OBVIOUS
<1>3. /\ n \in Names /\ PollCount \in Nat /\ lastPollCount \in Nat /\ lastPollCount <= PollCount
      /\ store \in [Names -> Int] /\ \A k \in Names : store[k] \in Int /\ copy[g][k] \in Int
  BY <1>1, MaxPollsAssumption DEF TypeOK
<1>4. StoredValue(g, n) \in Int
  BY <1>3 DEF StoredValue, Sum
<1>5. /\ store' \in [Names -> Int]
      /\ \A k \in Names : store'[k] = IF k = n THEN StoredValue(g, n) ELSE store[k]
  <2> HIDE DEF StoredValue
  <2> QED
    BY <1>2, <1>3, <1>4
<1>6. /\ todo' \in [Goroutines -> SUBSET Names] /\ todo'[g] = todo[g] \ {n}
      /\ \A x \in Goroutines \ {g} : todo'[x] = todo[x]
  BY <1>1, <1>2 DEF TypeOK
<1>7. TypeOK'
  BY <1>1, <1>5, <1>6 DEF TypeOK
<1>8. pc[g] = "store" /\ g \in Storers /\ g \notin Pollers \cup SystemPollers \cup Reporters
  BY <1>1, RolesAssumption DEF GInv, Roles, Goroutines
<1>9. \A x \in Goroutines : (Fills(x)' <=> Fills(x)) /\ (Holds(x)' <=> Holds(x))
  BY DEF Fills, Holds
<1>10. Mutex'
  BY <1>1, <1>9 DEF Mutex
<1>11. Writers' \subseteq Writers /\ Readers' \subseteq Readers
  BY DEF Writers, Readers
<1>12. MapIsPoll'
  BY <1>6, <1>8, <1>9, MapStays DEF Races, Fills
<1>13. GInv(g)'
  BY <1>1, <1>8, <1>9 DEF GInv, Roles, Copies, Fills
<1>14. ASSUME NEW x \in Goroutines, x # g PROVE GInv(x)'
  BY <1>6, <1>7, <1>14, OthersStay DEF Stays, Races
<1>15. Single => \A s \in Storers : s = g
  BY <1>8, OneStorer
<1>16. ~NoStore' /\ pc'[g] = "store"
  BY <1>8 DEF NoStore
<1>17. StoresNoMore'
  <2> SUFFICES ASSUME Single
               PROVE  IF "PollCount" \in todo'[g]
                      THEN /\ store'["PollCount"] <= lastPollCount
                           /\ copy[g]["PollCount"] + lastPollCount <= PollCount
                      ELSE store'["PollCount"] <= PollCount
    BY <1>15, <1>16 DEF StoresNoMore
  <2>1. IF "PollCount" \in todo[g]
        THEN /\ store["PollCount"] <= lastPollCount
             /\ copy[g]["PollCount"] + lastPollCount <= PollCount
        ELSE store["PollCount"] <= PollCount
    BY <1>8 DEF CInv, StoresNoMore
  <2>2. CASE n = "PollCount"
    <3>1. store'["PollCount"] = Sum(store[n], copy[g][n]) /\ "PollCount" \notin todo'[g]
      BY <1>3, <1>5, <1>6, <2>2 DEF StoredValue
    <3>2. store[n] <= lastPollCount /\ copy[g][n] + lastPollCount <= PollCount
      BY <2>1, <2>2
    <3>3. Sum(store[n], copy[g][n]) <= PollCount
      BY <1>3, <3>2 DEF Sum
    <3> QED
      BY <3>1, <3>3
  <2>3. CASE n # "PollCount"
    BY <1>5, <1>6, <2>1, <2>3, NameFacts
  <2> QED
    BY <2>2, <2>3
<1>18. StoresAll'
  <2> SUFFICES ASSUME Single, ~raced, ~overtaken, NEW k \in Own
               PROVE  /\ copy[g][k] = IF k = "PollCount" THEN PollCount - lastPollCount
                                                         ELSE PollCount
                      /\ store'[k] = IF k \in todo'[g] THEN Base(lastPollCount) ELSE PollCount
    BY <1>15, <1>16 DEF StoresAll, Base
  <2>1. /\ copy[g][k] = IF k = "PollCount" THEN PollCount - lastPollCount ELSE PollCount
        /\ store[k] = IF k \in todo[g] THEN Base(lastPollCount) ELSE PollCount
    BY <1>8 DEF CInv, StoresAll
  <2>2. CASE k = n
    <3>1. StoredValue(g, n) = PollCount
      BY <1>3, <2>1, <2>2 DEF StoredValue, Sum, Base, Absent
    <3> QED
      BY <1>3, <1>5, <1>6, <2>1, <2>2, <3>1
  <2>3. CASE k # n
    BY <1>5, <1>6, <2>1, <2>3, NameFacts
  <2> QED
    BY <2>2, <2>3
<1> QED
  BY <1>7, <1>10, <1>11, <1>12, <1>13, <1>14, <1>17, <1>18, AloneStays DEF CInv, Races

LEMMA MarkKeeps ==
  ASSUME CInv, NEW g \in Goroutines, Mark(g)
  PROVE  CInv'
<1> USE DEF Mark
<1>1. TypeOK /\ Mutex /\ GInv(g)
  BY DEF CInv
<1>2. /\ pc' \in [Goroutines -> Places] /\ todo' \in [Goroutines -> SUBSET Names]
      /\ pc'[g] = "idle" /\ todo'[g] = {}
      /\ \A x \in Goroutines \ {g} : pc'[x] = pc[x] /\ todo'[x] = todo[x]
  <2>1. {} \in SUBSET Names /\ "idle" \in Places
    BY DEF Places
  <2> QED
    BY <1>1, <2>1, GoesFacts
<1>3. /\ copy' \in [Goroutines -> [Names -> Int]] /\ copy'[g] = NoMetrics
      /\ \A x \in Goroutines \ {g} : copy'[x] = copy[x]
  <2>1. NoMetrics \in [Names -> Int]
    BY DEF NoMetrics, Absent
  <2> QED
    BY <1>1, <2>1 DEF TypeOK
<1>4. PollCount \in Nat /\ lastPollCount' = PollCount
  BY <1>1, MaxPollsAssumption DEF TypeOK
<1>5. TypeOK'
  <2>1. lastPollCount' \in 0 .. PollCount
    BY <1>4
  <2> QED
    BY <1>1, <1>2, <1>3, <2>1 DEF TypeOK, Places
<1>6. pc[g] = "store" /\ todo[g] = {} /\ g \in Storers
      /\ g \notin Pollers \cup SystemPollers \cup Reporters /\ PollCount >= 1
  BY <1>1, RolesAssumption DEF GInv, Roles, Goroutines
<1>7. \A x \in Goroutines : ~Holds(x) /\ ~Holds(x)' /\ ~Fills(x) /\ ~Fills(x)'
  <2>1. \A x \in Goroutines : ~Holds(x)
    BY <1>1, RolesAssumption DEF Mutex
  <2>2. ASSUME NEW x \in Goroutines PROVE ~Holds(x)'
    <3>1. CASE x = g
      BY <1>2, <3>1 DEF Holds, Fills
    <3>2. CASE x # g
      BY <1>2, <2>1, <3>2 DEF Holds, Fills
    <3> QED
      BY <3>1, <3>2
  <2> QED
    BY <2>1, <2>2 DEF Holds
<1>8. Mutex'
  BY <1>7, RolesAssumption DEF Mutex
<1>9. Writers' \subseteq Writers /\ Readers' \subseteq Readers
  BY <1>2 DEF Writers, Readers
<1>10. MapIsPoll'
  BY <1>7, MapStays DEF Races
<1>11. GInv(g)'
  BY <1>2, <1>3, <1>6, <1>7 DEF GInv, Roles, Copies
<1>12. ASSUME NEW x \in Goroutines, x # g PROVE GInv(x)'
  <2>1. pc[x] # "copy"
    BY <1>7 DEF Holds
  <2> QED
    BY <1>2, <1>3, <1>5, <1>12, <2>1, OthersStay DEF Stays, Races
<1>13. Single => NoStore' /\ \A s \in Storers : pc'[s] # "store"
  BY <1>2, <1>6, OneStorer DEF NoStore
<1>14. StoresNoMore'
  <2>1. ASSUME Single PROVE store["PollCount"] <= PollCount
    BY <1>6, <2>1 DEF CInv, StoresNoMore
  <2> QED
    BY <1>4, <1>13, <2>1 DEF StoresNoMore
<1>15. StoresAll'
  <2>1. ASSUME Single, ~raced, ~overtaken, NEW k \in Own PROVE store[k] = Base(PollCount)
    <3>1. store[k] = PollCount
      BY <1>6, <2>1 DEF CInv, StoresAll
    <3> QED
      BY <1>6, <3>1 DEF Base
  <2> QED
    BY <1>4, <1>13, <2>1 DEF StoresAll, Base
<1> QED
  BY <1>5, <1>8, <1>9, <1>10, <1>11, <1>12, <1>14, <1>15, AloneStays DEF CInv, Races

--------------------------------------------------------------------------------
(* The invariant, and what follows from it. *)

LEMMA NextKeeps == CInv /\ [Next]_vars => CInv'
<1> SUFFICES ASSUME CInv, [Next]_vars PROVE CInv'
  OBVIOUS
<1>1. CASE UNCHANGED vars \/ Dead
  <2>1. crashed' \in BOOLEAN
    BY <1>1 DEF Dead, vars, CInv, TypeOK
  <2> QED
    BY <1>1, <2>1, StopKeeps DEF Dead, vars
<1>2. CASE Throw
  BY <1>2, StopKeeps DEF Throw
<1>3. ASSUME NEW g \in Goroutines,
             \/ LockCollect(g) \/ MeasureSystem(g) \/ StartPut(g) \/ EndPut(g) \/ FinishFill(g)
             \/ LockGet(g) \/ CopyKey(g) \/ FinishCopy(g) \/ StoreKey(g) \/ Mark(g)
      PROVE  CInv'
  BY <1>3, LockCollectKeeps, MeasureSystemKeeps, StartPutKeeps, EndPutKeeps, FinishFillKeeps,
     LockGetKeeps, CopyKeyKeeps, FinishCopyKeeps, StoreKeyKeeps, MarkKeeps
<1> QED
  BY <1>1, <1>2, <1>3 DEF Next

LEMMA InvariantHolds == Spec => []CInv
BY InitCollector, NextKeeps, PTL DEF Spec

(* The counters of the collector stay within what has been polled: what is *)
(* marked as stored is never ahead of PollCount.                           *)
THEOREM TypeCorrect == Spec => []TypeOK
<1>1. CInv => TypeOK
  BY DEF CInv
<1> QED
  BY <1>1, InvariantHolds, PTL

(* What GetMetrics returns is of one poll, the last, if no goroutine wrote *)
(* to the map without the mutex meanwhile: Collect and GetMetrics          *)
(* (collector.go:60 and 128) exclude each other however many call them.    *)
THEOREM ReportIsOnePollCorrect == Spec => []ReportIsOnePoll
<1>1. CInv => ReportIsOnePoll
  <2> SUFFICES ASSUME CInv, ~raced, NEW g \in Readers
               PROVE  LET seen == Present(copy[g]) \ System
                      IN /\ \A k \in seen : copy[g][k] = IF k = "PollCount"
                                                         THEN PollCount - lastPollCount
                                                         ELSE PollCount
                         /\ todo[g] = {} => seen = IF PollCount = 0 THEN {} ELSE Names \ System
    BY DEF ReportIsOnePoll
  <2>1. pc[g] = "copy" /\ Copies(g)
    BY DEF Readers, CInv, GInv
  <2>2. \A k \in Own : copy[g][k] # Absent =>
          copy[g][k] = IF k = "PollCount" THEN PollCount - lastPollCount ELSE PollCount
    BY <2>1 DEF Copies
  <2>3. todo[g] = {} => \A k \in Own : copy[g][k] # Absent <=> PollCount # 0
    BY <2>1 DEF Copies
  <2> QED
    BY <2>2, <2>3, NameFacts DEF Present, Own
<1> QED
  BY <1>1, InvariantHolds, PTL

(* CollectAndStore never stores a poll twice, races or not, as long as one *)
(* goroutine calls it (collector.go:102 to 126).                           *)
THEOREM StoredAtMostPolledCorrect == Spec => []StoredAtMostPolled
<1>1. CInv => StoredAtMostPolled
  <2> SUFFICES ASSUME CInv, Single PROVE store["PollCount"] <= PollCount
    BY DEF StoredAtMostPolled, Single
  <2>1. /\ PollCount \in Nat /\ lastPollCount \in Nat /\ lastPollCount <= PollCount
        /\ store["PollCount"] \in Int
    BY NameFacts, MaxPollsAssumption DEF CInv, TypeOK
  <2>2. CASE NoStore
    BY <2>1, <2>2 DEF CInv, StoresNoMore
  <2>3. CASE ~NoStore
    <3>1. PICK s \in Storers : pc[s] = "store"
      BY <2>3 DEF NoStore
    <3>2. store["PollCount"] <= lastPollCount \/ store["PollCount"] <= PollCount
      BY <3>1 DEF CInv, StoresNoMore
    <3> QED
      BY <2>1, <3>2
  <2> QED
    BY <2>2, <2>3
<1> QED
  BY <1>1, InvariantHolds, PTL

(* ... and it loses none, if no poll fell between its GetMetrics and its   *)
(* end: the storage then holds the last poll it knows of.                  *)
THEOREM StoredExactlyCorrect == Spec => []StoredExactly
<1>1. CInv => StoredExactly
  <2> SUFFICES ASSUME CInv, ~raced, ~overtaken, lastPollCount > 0, Single, NoStore,
                      NEW k \in Own
               PROVE  store[k] = lastPollCount
    BY DEF StoredExactly, Single, NoStore, Own
  <2>1. store[k] = Base(lastPollCount) /\ lastPollCount \in Nat
    BY MaxPollsAssumption DEF CInv, StoresAll, TypeOK
  <2> QED
    BY <2>1 DEF Base
<1> QED
  BY <1>1, InvariantHolds, PTL
================================================================================
