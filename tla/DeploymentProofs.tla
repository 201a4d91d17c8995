--------------------------- MODULE DeploymentProofs ---------------------------
(***************************************************************************)
(* What holds of an agent and a server however they were configured, for   *)
(* every set of sources, keys, metrics and requests of other clients.      *)
(*                                                                         *)
(* The inductive invariant DInv follows the agent's request through the    *)
(* layers of the server.                                                   *)
(***************************************************************************)
EXTENDS Deployment, SequenceTheorems, TLAPS

Fields == {"route", "items", "gzip", "encrypted", "hash", "body"}

Given(p) == [n \in Names |-> IF p = "agent" THEN AgentSetting(given[p], n)
                                            ELSE ServerSetting(given[p], n)]

Shapes ==
  /\ given \in Inputs
  /\ DOMAIN conf = Programs /\ \A p \in Programs : DOMAIN conf[p] = Names
  /\ pc \in [Programs -> {"new", "fatal", "report", "batch", "send", "ping", "migrate",
                          "router", "listen", "exited"}]
  /\ pc["agent"] \in {"new", "fatal", "report", "batch", "send"}
  /\ pc["server"] \in {"new", "fatal", "ping", "migrate", "router", "listen", "exited"}
  /\ tries \in 1 .. maxRetries
  /\ migrated \in BOOLEAN
  /\ DOMAIN request = Clients /\ \A c \in Clients : DOMAIN request[c] = Fields
  /\ \A c \in Clients : request[c] = NoRequest <=> at[c] = "idle"
  /\ \A c \in Clients : at[c] # "idle" => request[c].route \in Routes
  /\ at \in [Clients -> Layers \cup {"idle", "200", "400"}]
  /\ left \in SUBSET Metrics /\ stored \in SUBSET Metrics
  /\ told \in {"nothing", "batchSent", "sent", "error"}

(* A program keeps the settings it has made of its sources.                *)
Loaded == \A p \in Programs : pc[p] # "new" => conf[p] = Given(p)

(* The router is only made of a handler with its storage.                  *)
Opened == pc["server"] \in {"router", "listen"} => conf.server.dsn = None \/ migrated

(* Before the server listens nothing is under way or stored.               *)
Unreached ==
  pc["server"] # "listen" =>
    /\ \A c \in Clients : at[c] = "idle"
    /\ stored = {}
    /\ pc["agent"] = "send" => left = Metrics
    /\ pc["agent"] = "report" /\ told \in {"batchSent", "sent"} => stored = Metrics

(* The same of an agent that has not started its worker.                   *)
Fresh ==
  pc["agent"] \in {"new", "fatal"} => stored = {} /\ left = {} /\ told = "nothing"

(* The agent has a request open exactly while a worker awaits it.          *)
Awaiting ==
  /\ pc["agent"] = "batch" => at["agent"] # "idle"
  /\ pc["agent"] \notin {"batch", "send"} => at["agent"] = "idle"

(* The body of the agent's request: before gzip, as it is sent, and after  *)
(* the first layer of the server.                                          *)
Document  == IF pc["agent"] = "batch" THEN JSON ELSE Empty
OnTheWire == IF PublicKey = None THEN Gzip(Document) ELSE Encrypted(PublicKey, Gzip(Document))
Unzipped  == IF PublicKey = None THEN Document ELSE OnTheWire
Signature == IF pc["agent"] = "batch" \/ conf.agent.key = None THEN NoHash
             ELSE Hash(conf.agent.key, OnTheWire)

Asked(q) ==
  /\ q.route = IF pc["agent"] = "batch" THEN "updates" ELSE "update"
  /\ IF pc["agent"] = "batch" THEN q.items = Metrics ELSE q.items \subseteq left
  /\ q.gzip <=> PublicKey = None
  /\ q.encrypted <=> PublicKey # None
  /\ q.hash = Signature

(* A report that gets as far as the decryption of a checking server.       *)
Signed == pc["agent"] = "send" /\ conf.agent.key = conf.server.key /\ PublicKey # None

InFlight ==
  at["agent"] # "idle" =>
    /\ Asked(request["agent"])
    /\ at["agent"] = "gunzip" => request["agent"].body = OnTheWire
    /\ at["agent"] = "hash" => request["agent"].body = Unzipped
    /\ at["agent"] = "decrypt" =>
         IF Checks(conf.server.key) THEN Signed ELSE request["agent"].body = Unzipped
    /\ at["agent"] = "handler" => Compatible
    /\ at["agent"] = "200" => Compatible /\ request["agent"].items \subseteq stored
    /\ at["agent"] = "400" => pc["agent"] = "batch" \/ ~Compatible

Delivered ==
  /\ stored # {} => Compatible
  /\ pc["agent"] = "send" /\ Compatible => Metrics \subseteq stored \cup left
  /\ pc["agent"] = "report" /\ told \in {"batchSent", "sent"} /\ Compatible => stored = Metrics

(* What has got past the check of a server with a key is signed with it,   *)
(* and has lost its body.                                                  *)
SignedWith(q, key) == q.hash # NoHash /\ Head(q.hash) = key

Checked ==
  \A c \in Clients : Checks(conf.server.key) =>
    /\ at[c] \in {"decrypt", "handler", "200"} => SignedWith(request[c], conf.server.key)
    /\ at[c] \in {"decrypt", "handler"} => request[c].body = Empty

DInv ==
  /\ Shapes /\ Loaded /\ Opened /\ Unreached /\ Fresh /\ Awaiting
  /\ Checked /\ InFlight /\ Delivered

--------------------------------------------------------------------------------
(* What the transformations of a body do.                                  *)

LEMMA PrefixProperties ==
  ASSUME NEW x, NEW S, NEW s \in Seq(S)
  PROVE  <<x>> \o s # << >> /\ Head(<<x>> \o s) = x /\ Tail(<<x>> \o s) = s
<1>1. s \in Seq(S \cup {x}) /\ <<x>> \in Seq(S \cup {x})
  OBVIOUS
<1> QED  BY <1>1, ConcatProperties

(* Gzip is undone by the first layer, whatever was compressed.             *)
LEMMA GzipProperties ==
  ASSUME NEW s \in {JSON, Empty}
  PROVE  /\ Outermost(Gzip(s), "gzip") /\ Tail(Gzip(s)) = s
         /\ Gzip(s) \in Seq({"gzip", "json"}) /\ Gzip(s) # Empty
<1>1. s \in Seq({"gzip", "json"})
  <2>1. CASE s = JSON
    BY <2>1 DEF JSON
  <2>2. CASE s = Empty
    BY <2>2 DEF Empty
  <2> QED  BY <2>1, <2>2
<1>2. <<"gzip">> \in Seq({"gzip", "json"})
  OBVIOUS
<1> QED  BY <1>1, <1>2, PrefixProperties, ConcatProperties DEF Gzip, Outermost, Empty

(* An encrypted body opens for its own key pair and for no other.          *)
LEMMA EncryptedProperties ==
  ASSUME NEW s \in {JSON, Empty}, NEW k, NEW x
  PROVE  Outermost(Encrypted(k, Gzip(s)), x) <=> k = x
BY GzipProperties, PrefixProperties DEF Encrypted, Outermost, Empty

(* Two hashes are equal when keys and bodies are.                          *)
LEMMA HashProperties ==
  ASSUME NEW k, NEW b, NEW k2, NEW b2
  PROVE  /\ Hash(k, b) # NoHash /\ Head(Hash(k, b)) = k
         /\ Hash(k, b) = Hash(k2, b2) => k = k2 /\ b = b2
BY DEF Hash, NoHash

--------------------------------------------------------------------------------
(* The invariant holds of the start, and every action keeps it.            *)

LEMMA FieldsOfRequests ==
  /\ DOMAIN NoRequest = Fields
  /\ \A q \in Others : DOMAIN q = Fields /\ q.route \in Routes
  /\ \A items, pair : DOMAIN BatchRequest(items, pair) = Fields
  /\ \A item, key, pair : DOMAIN MetricRequest(item, key, pair) = Fields
<1>1. \A items, pair : DOMAIN BatchRequest(items, pair) = Fields
  BY DEF BatchRequest, Fields
<1>2. \A item, key, pair : DOMAIN MetricRequest(item, key, pair) = Fields
  BY DEF MetricRequest, Fields
<1>3. DOMAIN NoRequest = Fields
  BY DEF NoRequest, Fields
<1> QED  BY <1>1, <1>2, <1>3, OthersAssumption

LEMMA InitCorrect ==
  ASSUME Init PROVE DInv
<1> USE DEF Init
<1>1. /\ \A p \in Programs : conf[p] = Default /\ pc[p] = "new"
      /\ \A c \in Clients : request[c] = NoRequest /\ at[c] = "idle"
  OBVIOUS
<1>2. "agent" \in Programs /\ "server" \in Programs /\ "agent" \in Clients
  BY DEF Programs, Clients
<1>3. Shapes
  <2>1. tries \in 1 .. maxRetries
    BY RetriesAssumption
  <2>2. \A c \in Clients : DOMAIN request[c] = Fields
    BY <1>1, FieldsOfRequests
  <2> QED  BY <1>1, <1>2, <2>1, <2>2, DefaultAssumption DEF Shapes
<1>4. Loaded /\ Opened /\ Unreached /\ Fresh /\ Awaiting
  BY <1>1, <1>2 DEF Loaded, Opened, Unreached, Fresh, Awaiting
<1>5. Checked /\ InFlight /\ Delivered
  BY <1>1, <1>2 DEF Checked, InFlight, Delivered
<1> QED  BY <1>3, <1>4, <1>5 DEF DInv

LEMMA Members ==
  /\ "agent" \in Programs /\ "server" \in Programs
  /\ "agent" \in Clients /\ "other" \in Clients
  /\ \A p \in Programs : p = "agent" \/ p = "server"
  /\ \A c \in Clients : c = "agent" \/ c = "other"
BY DEF Programs, Clients

(* What the settings decide stays as long as they do.                      *)
LEMMA KeysStay ==
  ASSUME conf' = conf
  PROVE  PublicKey' = PublicKey /\ PrivateKey' = PrivateKey /\ (Compatible' <=> Compatible)
BY DEF PublicKey, PrivateKey, Compatible

LEMMA LoadedStays ==
  ASSUME Loaded, given' = given, conf' = conf,
         \A p \in Programs : pc[p] = "new" => pc'[p] = "new"
  PROVE  Loaded'
BY DEF Loaded, Given

LEMMA InFlightStays ==
  ASSUME InFlight, conf' = conf, pc'["agent"] = pc["agent"], at'["agent"] = at["agent"],
         request'["agent"] = request["agent"], left' = left, stored' = stored
  PROVE  InFlight'
<1>1. PublicKey' = PublicKey /\ (Compatible' <=> Compatible)
  BY KeysStay
<1>2. Document' = Document
  BY DEF Document
<1>3. OnTheWire' = OnTheWire
  BY <1>1, <1>2 DEF OnTheWire
<1>4. Unzipped' = Unzipped /\ Signature' = Signature /\ (Signed' <=> Signed)
  BY <1>1, <1>2, <1>3 DEF Unzipped, Signature, Signed
<1>5. Asked(request["agent"])' <=> Asked(request["agent"])
  BY <1>1, <1>4 DEF Asked
<1> QED  BY <1>1, <1>3, <1>4, <1>5 DEF InFlight

LEMMA AgentMainKeeps ==
  ASSUME DInv, AgentMain PROVE DInv'
<1> USE Members
<1>1. pc["agent"] = "new" /\ at["agent"] = "idle" /\ stored = {} /\ told = "nothing"
  BY DEF DInv, Fresh, Awaiting, AgentMain
<1>2. /\ pc'["agent"] \in {"fatal", "report"} /\ pc'["server"] = pc["server"]
      /\ pc' \in [Programs -> {"new", "fatal", "report", "batch", "send", "ping", "migrate",
                          "router", "listen", "exited"}]
  BY DEF AgentMain, DInv, Shapes
<1>3. /\ conf'["server"] = conf["server"] /\ DOMAIN conf' = Programs
      /\ conf'["agent"] = [n \in Names |-> AgentSetting(given["agent"], n)]
  BY DEF AgentMain, DInv, Shapes
<1>4. UNCHANGED <<given, serverVars, connVars, agentVars>>
  BY DEF AgentMain
<1> USE <1>4 DEF serverVars, connVars, agentVars
<1>5. Shapes'
  <2>1. \A p \in Programs : DOMAIN conf'[p] = Names
    BY <1>3 DEF DInv, Shapes
  <2> QED  BY <1>2, <1>3, <2>1 DEF DInv, Shapes
<1>6. Loaded'
  <2>1. conf'["agent"] = Given("agent")'
    BY <1>3 DEF Given
  <2>2. pc'["server"] # "new" => conf'["server"] = Given("server")'
    BY <1>2, <1>3 DEF DInv, Loaded, Given
  <2> QED  BY <2>1, <2>2 DEF Loaded
<1>7. Opened' /\ Unreached' /\ Fresh' /\ Awaiting'
  BY <1>1, <1>2, <1>3 DEF DInv, Opened, Unreached, Fresh, Awaiting
<1>8. Checked' /\ InFlight' /\ Delivered'
  BY <1>1, <1>2, <1>3 DEF DInv, Checked, InFlight, Delivered
<1> QED  BY <1>5, <1>6, <1>7, <1>8 DEF DInv

LEMMA InitializeAppKeeps ==
  ASSUME DInv, InitializeApp PROVE DInv'
<1> USE Members
<1>1. /\ pc["server"] = "new" /\ stored = {} /\ \A c \in Clients : at[c] = "idle"
      /\ pc["agent"] = "send" => left = Metrics
      /\ pc["agent"] = "report" /\ told \in {"batchSent", "sent"} => stored = Metrics
  BY DEF DInv, Unreached, InitializeApp
<1>2. /\ pc'["server"] \in {"fatal", "router", "ping"} /\ pc'["agent"] = pc["agent"]
      /\ pc'["server"] = "router" => conf'["server"].dsn = None
      /\ pc' \in [Programs -> {"new", "fatal", "report", "batch", "send", "ping", "migrate",
                          "router", "listen", "exited"}]
  BY DEF InitializeApp, DInv, Shapes, Names
<1>3. /\ conf'["agent"] = conf["agent"] /\ DOMAIN conf' = Programs
      /\ conf'["server"] = [n \in Names |-> ServerSetting(given["server"], n)]
  BY DEF InitializeApp, DInv, Shapes
<1>4. UNCHANGED <<given, serverVars, connVars, agentVars>>
  BY DEF InitializeApp
<1> USE <1>4 DEF serverVars, connVars, agentVars
<1>5. Shapes'
  <2>1. \A p \in Programs : DOMAIN conf'[p] = Names
    BY <1>3 DEF DInv, Shapes
  <2> QED  BY <1>2, <1>3, <2>1 DEF DInv, Shapes
<1>6. Loaded'
  <2>1. conf'["server"] = Given("server")'
    BY <1>3 DEF Given
  <2>2. pc'["agent"] # "new" => conf'["agent"] = Given("agent")'
    BY <1>2, <1>3 DEF DInv, Loaded, Given
  <2> QED  BY <2>1, <2>2 DEF Loaded
<1>7. Opened' /\ Unreached' /\ Fresh' /\ Awaiting'
  BY <1>1, <1>2, <1>3 DEF DInv, Opened, Unreached, Fresh, Awaiting
<1>8. Checked' /\ InFlight'
  BY <1>1, <1>2, <1>3 DEF DInv, Checked, InFlight
<1>9. Delivered'
  BY <1>1, <1>2, <1>3 DEF Delivered
<1> QED  BY <1>5, <1>6, <1>7, <1>8, <1>9 DEF DInv

(* The rest of the start moves the server alone.                           *)
LEMMA StartKeeps ==
  ASSUME DInv, Connected \/ Migrated \/ AttemptFails \/ ListenAndServe PROVE DInv'
<1> USE Members
<1>1. UNCHANGED <<given, conf, connVars, agentVars>>
  BY DEF Connected, Migrated, AttemptFails, ListenAndServe
<1> USE <1>1 DEF connVars, agentVars
<1>2. /\ pc'["agent"] = pc["agent"]
      /\ pc["server"] \notin {"new", "listen"}
      /\ pc'["server"] \in {"fatal", "ping", "migrate", "router", "listen", "exited"}
      /\ pc' \in [Programs -> {"new", "fatal", "report", "batch", "send", "ping", "migrate",
                          "router", "listen", "exited"}]
  BY DEF Connected, Migrated, AttemptFails, ListenAndServe, DInv, Shapes
<1>3. tries' \in 1 .. maxRetries /\ migrated' \in BOOLEAN
  <2>1. tries \in 1 .. maxRetries /\ migrated \in BOOLEAN
    BY DEF DInv, Shapes
  <2>2. migrated' \in {migrated, TRUE}
    BY DEF Connected, Migrated, AttemptFails, ListenAndServe, serverVars
  <2>3. tries' = 1 \/ tries' = tries \/ (tries < maxRetries /\ tries' = tries + 1)
    BY DEF Connected, Migrated, AttemptFails, ListenAndServe, serverVars
  <2>4. tries' \in 1 .. maxRetries
    BY <2>1, <2>3, RetriesAssumption
  <2> QED  BY <2>1, <2>2, <2>4
<1>4. Shapes'
  BY <1>2, <1>3 DEF DInv, Shapes
<1>5. Loaded'
  BY <1>2, LoadedStays DEF DInv
<1>6. Opened'
  BY <1>2 DEF Connected, Migrated, AttemptFails, ListenAndServe, DInv, Shapes, Opened, serverVars
<1>7. /\ stored = {} /\ \A c \in Clients : at[c] = "idle"
      /\ pc["agent"] = "send" => left = Metrics
      /\ pc["agent"] = "report" /\ told \in {"batchSent", "sent"} => stored = Metrics
  BY <1>2 DEF DInv, Unreached
<1>8. Unreached' /\ Fresh' /\ Awaiting'
  BY <1>2, <1>7 DEF DInv, Unreached, Fresh, Awaiting
<1>9. Checked' /\ InFlight' /\ Delivered'
  BY <1>2, <1>7 DEF DInv, Checked, InFlight, Delivered
<1> QED  BY <1>4, <1>5, <1>6, <1>8, <1>9 DEF DInv

LEMMA OtherKeeps ==
  ASSUME DInv, OtherRequest \/ OtherResponse PROVE DInv'
<1> USE Members
<1>1. UNCHANGED <<given, conf, pc, serverVars, agentVars>>
  BY DEF OtherRequest, OtherResponse
<1> USE <1>1 DEF serverVars, agentVars
<1>2. pc["server"] = "listen"
  BY DEF OtherRequest, OtherResponse, DInv, Unreached
<1>3. /\ at'["agent"] = at["agent"] /\ request'["agent"] = request["agent"]
      /\ at'["other"] \in {"idle", "gunzip"}
      /\ at' \in [Clients -> Layers \cup {"idle", "200", "400"}]
      /\ DOMAIN request' = Clients
  BY DEF OtherRequest, OtherResponse, Connect, Hangup, DInv, Shapes, Layers
<1>4. /\ DOMAIN request'["other"] = Fields
      /\ request'["other"] = NoRequest <=> at'["other"] = "idle"
      /\ at'["other"] # "idle" => request'["other"].route \in Routes
  <2>1. CASE OtherRequest
    <3>1. PICK q \in Others : Connect("other", q)
      BY <2>1 DEF OtherRequest
    <3>2. request'["other"] = q /\ at'["other"] = "gunzip"
      BY <3>1 DEF Connect, DInv, Shapes
    <3>3. DOMAIN q = Fields /\ q # NoRequest /\ q.route \in Routes
      BY FieldsOfRequests DEF Routes, NoRequest
    <3> QED  BY <3>2, <3>3
  <2>2. CASE OtherResponse
    BY <2>2, FieldsOfRequests DEF OtherResponse, Hangup, DInv, Shapes
  <2> QED  BY <2>1, <2>2
<1>5. Shapes'
  BY <1>3, <1>4 DEF DInv, Shapes
<1>6. Loaded' /\ Opened' /\ Unreached' /\ Fresh' /\ Awaiting'
  BY <1>2, <1>3 DEF DInv, Loaded, Given, Opened, Unreached, Fresh, Awaiting
<1>7. Checked'
  BY <1>3 DEF DInv, Checked
<1>8. InFlight'
  BY <1>3, InFlightStays DEF DInv
<1>9. Delivered'
  BY KeysStay DEF DInv, Delivered
<1> QED  BY <1>5, <1>6, <1>7, <1>8, <1>9 DEF DInv

(* A single metric as the agent sends it.                                  *)
LEMMA MetricIsAsked ==
  ASSUME pc["agent"] = "send", NEW m \in left,
         NEW q, q = MetricRequest(m, conf.agent.key, PublicKey)
  PROVE  Asked(q) /\ q.body = OnTheWire /\ q # NoRequest
<1>1. q.body = OnTheWire
  BY DEF MetricRequest, OnTheWire, Document
<1>2. q.route = "update" /\ q.items = {m}
  BY DEF MetricRequest
<1>3. (q.gzip <=> PublicKey = None) /\ (q.encrypted <=> PublicKey # None)
  BY DEF MetricRequest
<1>4. q.hash = Signature
  BY DEF MetricRequest, Signature, OnTheWire, Document
<1>5. Asked(q)
  BY <1>2, <1>3, <1>4 DEF Asked
<1>6. q # NoRequest
  BY <1>2 DEF NoRequest
<1> QED  BY <1>1, <1>5, <1>6

(* Nothing that the agent does touches what is said of another client.     *)
LEMMA BodiesStay ==
  ASSUME Checked, conf' = conf, at'["agent"] \in {"idle", "gunzip"},
         at'["other"] = at["other"], request'["other"] = request["other"]
  PROVE  Checked'
BY Members DEF Checked

LEMMA SendBatchKeeps ==
  ASSUME DInv, SendBatch PROVE DInv'
<1> USE Members
<1>1. UNCHANGED <<given, conf, serverVars, told>>
  BY DEF SendBatch
<1> USE <1>1 DEF serverVars
<1>2. pc["agent"] = "report" /\ at["agent"] = "idle" /\ stored' = {}
  BY DEF SendBatch, AgentAt
<1>3. CASE /\ Reachable
           /\ Connect("agent", BatchRequest(Metrics, PublicKey))
           /\ pc' = [pc EXCEPT !["agent"] = "batch"]
           /\ UNCHANGED left
  <2>1. /\ at'["agent"] = "gunzip" /\ request'["agent"] = BatchRequest(Metrics, PublicKey)
        /\ at'["other"] = at["other"] /\ request'["other"] = request["other"]
        /\ at' \in [Clients -> Layers \cup {"idle", "200", "400"}]
        /\ DOMAIN request' = Clients
    BY <1>3 DEF Connect, DInv, Shapes, Layers
  <2>2. /\ pc'["agent"] = "batch" /\ pc'["server"] = pc["server"] /\ pc["server"] = "listen"
        /\ pc' \in [Programs -> {"new", "fatal", "report", "batch", "send", "ping", "migrate",
                          "router", "listen", "exited"}]
    BY <1>3 DEF DInv, Shapes, Reachable
  <2>3. PublicKey' = PublicKey
    BY KeysStay
  <2>4. /\ Asked(request["agent"])' /\ request'["agent"].body = OnTheWire'
        /\ request'["agent"] # NoRequest /\ request'["agent"].route \in Routes
    <3> DEFINE q == BatchRequest(Metrics, PublicKey)
    <3>1. q.body = OnTheWire'
      BY <2>2, <2>3 DEF BatchRequest, OnTheWire, Document
    <3>2. q.route = "updates" /\ q.items = Metrics /\ q.hash = Signature'
      BY <2>2 DEF BatchRequest, Signature
    <3>3. (q.gzip <=> PublicKey = None) /\ (q.encrypted <=> PublicKey # None)
      BY DEF BatchRequest
    <3>4. q # NoRequest /\ q.route \in Routes
      BY <3>2 DEF NoRequest, Routes
    <3> QED  BY <3>1, <3>2, <3>3, <3>4, <2>1, <2>2, <2>3 DEF Asked
  <2>5. Shapes'
    BY <2>1, <2>2, <2>4, <1>2, <1>3, FieldsOfRequests DEF DInv, Shapes
  <2>6. Loaded' /\ Opened' /\ Unreached' /\ Fresh' /\ Awaiting'
    BY <1>2, <2>1, <2>2 DEF DInv, Loaded, Given, Opened, Unreached, Fresh, Awaiting
  <2>7. Checked'
    BY <2>1, BodiesStay DEF DInv
  <2>8. InFlight'
    BY <2>1, <2>4 DEF InFlight
  <2>9. Delivered'
    BY <1>2, <2>2 DEF Delivered
  <2> QED  BY <2>5, <2>6, <2>7, <2>8, <2>9 DEF DInv
<1>4. CASE /\ left' = Metrics /\ pc' = [pc EXCEPT !["agent"] = "send"]
           /\ UNCHANGED connVars
  <2> USE <1>4 DEF connVars
  <2>1. /\ pc'["agent"] = "send" /\ pc'["server"] = pc["server"]
        /\ pc' \in [Programs -> {"new", "fatal", "report", "batch", "send", "ping", "migrate",
                          "router", "listen", "exited"}]
    BY DEF DInv, Shapes
  <2>2. Shapes'
    BY <2>1, <1>2 DEF DInv, Shapes
  <2>3. Loaded' /\ Opened' /\ Unreached' /\ Fresh' /\ Awaiting'
    BY <1>2, <2>1 DEF DInv, Loaded, Given, Opened, Unreached, Fresh, Awaiting
  <2>4. Checked' /\ InFlight' /\ Delivered'
    BY <1>2, <2>1 DEF DInv, Checked, InFlight, Delivered
  <2> QED  BY <2>2, <2>3, <2>4 DEF DInv
<1> QED  BY <1>3, <1>4 DEF SendBatch

LEMMA BatchResponseKeeps ==
  ASSUME DInv, BatchResponse PROVE DInv'
<1> USE Members
<1>1. UNCHANGED <<given, conf, serverVars, stored>>
  BY DEF BatchResponse
<1> USE <1>1 DEF serverVars
<1>2. pc["agent"] = "batch" /\ at["agent"] \in {"200", "400"} /\ pc["server"] = "listen"
  BY DEF BatchResponse, DInv, Unreached
<1>3. /\ at'["agent"] = "idle" /\ request'["agent"] = NoRequest
      /\ at'["other"] = at["other"] /\ request'["other"] = request["other"]
      /\ at' \in [Clients -> Layers \cup {"idle", "200", "400"}]
      /\ DOMAIN request' = Clients
  BY DEF BatchResponse, Hangup, DInv, Shapes
<1>4. /\ pc'["agent"] = (IF at["agent"] = "200" THEN "report" ELSE "send")
      /\ pc'["server"] = pc["server"]
      /\ pc' \in [Programs -> {"new", "fatal", "report", "batch", "send", "ping", "migrate",
                          "router", "listen", "exited"}]
  BY DEF BatchResponse, DInv, Shapes
<1>5. at["agent"] = "200" => stored = Metrics
  <2>1. at["agent"] = "200" => Metrics \subseteq stored
    BY <1>2 DEF DInv, InFlight, Asked
  <2> QED  BY <2>1 DEF DInv, Shapes
<1>6. /\ at["agent"] # "200" => left' = Metrics
      /\ at["agent"] = "200" => left' = left
      /\ told' \in {told, "batchSent"}
  BY DEF BatchResponse
<1>7. Shapes'
  BY <1>2, <1>3, <1>4, <1>6, FieldsOfRequests DEF DInv, Shapes
<1>8. Loaded' /\ Opened' /\ Unreached' /\ Fresh' /\ Awaiting'
  BY <1>2, <1>3, <1>4 DEF DInv, Loaded, Given, Opened, Unreached, Fresh, Awaiting
<1>9. Checked'
  BY <1>3, BodiesStay DEF DInv
<1>10. InFlight'
  BY <1>3 DEF InFlight
<1>11. Delivered'
  BY <1>4, <1>5, <1>6, KeysStay DEF DInv, Delivered
<1> QED  BY <1>7, <1>8, <1>9, <1>10, <1>11 DEF DInv

LEMMA SendKeeps ==
  ASSUME DInv, Send PROVE DInv'
<1> USE Members
<1>1. UNCHANGED <<given, conf, pc, serverVars, agentVars>>
  BY DEF Send
<1> USE <1>1 DEF serverVars, agentVars
<1>2. pc["agent"] = "send" /\ at["agent"] = "idle" /\ pc["server"] = "listen"
  BY DEF Send, AgentAt, Reachable
<1>3. PICK m \in left : Connect("agent", MetricRequest(m, conf.agent.key, PublicKey))
  BY DEF Send
<1>4. /\ at'["agent"] = "gunzip"
      /\ request'["agent"] = MetricRequest(m, conf.agent.key, PublicKey)
      /\ at'["other"] = at["other"] /\ request'["other"] = request["other"]
      /\ at' \in [Clients -> Layers \cup {"idle", "200", "400"}]
      /\ DOMAIN request' = Clients
  BY <1>3 DEF Connect, DInv, Shapes, Layers
<1>5. /\ Asked(request'["agent"]) /\ request'["agent"].body = OnTheWire
      /\ request'["agent"] # NoRequest /\ request'["agent"].route \in Routes
  <2>1. Asked(request'["agent"]) /\ request'["agent"].body = OnTheWire
    BY <1>2, <1>4, MetricIsAsked
  <2>2. request'["agent"] # NoRequest /\ request'["agent"].route \in Routes
    BY <1>2, <1>4, <2>1, MetricIsAsked DEF Asked, Routes
  <2> QED  BY <2>1, <2>2
<1>6. Shapes'
  BY <1>4, <1>5, FieldsOfRequests DEF DInv, Shapes
<1>7. Loaded' /\ Opened' /\ Unreached' /\ Fresh' /\ Awaiting'
  BY <1>2, <1>4 DEF DInv, Loaded, Given, Opened, Unreached, Fresh, Awaiting
<1>8. Checked'
  BY <1>4, BodiesStay DEF DInv
<1>9. InFlight'
  <2>1. OnTheWire' = OnTheWire /\ Signature' = Signature /\ PublicKey' = PublicKey
    BY KeysStay DEF OnTheWire, Signature, Document
  <2>2. Asked(request["agent"])'
    BY <1>5, <2>1 DEF Asked
  <2> QED  BY <1>4, <1>5, <2>1, <2>2 DEF InFlight
<1>10. Delivered'
  BY KeysStay DEF DInv, Delivered
<1> QED  BY <1>6, <1>7, <1>8, <1>9, <1>10 DEF DInv

LEMMA SendResponseKeeps ==
  ASSUME DInv, SendResponse PROVE DInv'
<1> USE Members
<1>1. UNCHANGED <<given, conf, pc, serverVars, stored, told>>
  BY DEF SendResponse
<1> USE <1>1 DEF serverVars
<1>2. pc["agent"] = "send" /\ at["agent"] \in {"200", "400"} /\ pc["server"] = "listen"
  BY DEF SendResponse, DInv, Unreached
<1>3. /\ at'["agent"] = "idle" /\ request'["agent"] = NoRequest
      /\ at'["other"] = at["other"] /\ request'["other"] = request["other"]
      /\ at' \in [Clients -> Layers \cup {"idle", "200", "400"}]
      /\ DOMAIN request' = Clients
      /\ left' = left \ request["agent"].items
  BY DEF SendResponse, Hangup, DInv, Shapes
<1>4. Compatible => request["agent"].items \subseteq stored
  BY <1>2 DEF DInv, InFlight
<1>5. Shapes'
  BY <1>3, FieldsOfRequests DEF DInv, Shapes
<1>6. Loaded' /\ Opened' /\ Unreached' /\ Fresh' /\ Awaiting'
  BY <1>2, <1>3 DEF DInv, Loaded, Given, Opened, Unreached, Fresh, Awaiting
<1>7. Checked'
  BY <1>3, BodiesStay DEF DInv
<1>8. InFlight'
  BY <1>3 DEF InFlight
<1>9. Delivered'
  BY <1>2, <1>3, <1>4, KeysStay DEF DInv, Delivered
<1> QED  BY <1>5, <1>6, <1>7, <1>8, <1>9 DEF DInv

LEMMA SendReturnsKeeps ==
  ASSUME DInv, SendReturns PROVE DInv'
<1> USE Members
<1>1. UNCHANGED <<given, conf, serverVars, connVars, stored>>
  BY DEF SendReturns
<1> USE <1>1 DEF serverVars, connVars
<1>2. pc["agent"] = "send" /\ at["agent"] = "idle"
  BY DEF SendReturns, AgentAt
<1>3. /\ pc'["agent"] = "report" /\ pc'["server"] = pc["server"] /\ left' = {}
      /\ told' \in {"sent", "error"} /\ (told' = "sent" => left = {})
      /\ pc' \in [Programs -> {"new", "fatal", "report", "batch", "send", "ping", "migrate",
                          "router", "listen", "exited"}]
  BY DEF SendReturns, DInv, Shapes
<1>4. Shapes'
  BY <1>2, <1>3 DEF DInv, Shapes
<1>5. Loaded' /\ Opened' /\ Fresh' /\ Awaiting'
  BY <1>2, <1>3 DEF DInv, Loaded, Given, Opened, Fresh, Awaiting
<1>6. Unreached'
  BY <1>2, <1>3 DEF DInv, Unreached
<1>7. Checked' /\ InFlight'
  BY <1>2 DEF DInv, Checked, InFlight
<1>8. Delivered'
  BY <1>2, <1>3, KeysStay DEF DInv, Delivered, Shapes
<1> QED  BY <1>4, <1>5, <1>6, <1>7, <1>8 DEF DInv

(* What a layer does to the request it serves, and leaves alone.           *)
LEMMA PassProperties ==
  ASSUME NEW c \in Clients, NEW layer \in {"gunzip", "hash", "decrypt"},
         NEW next \in {"hash", "decrypt", "handler"}, NEW refused, NEW q,
         DInv, Pass(c, layer, next, refused, q), DOMAIN q = Fields, q.route \in Routes
  PROVE  /\ UNCHANGED <<given, conf, pc, serverVars, agentVars>>
         /\ at[c] = layer /\ at'[c] = (IF refused THEN "400" ELSE next)
         /\ request'[c] = (IF refused THEN request[c] ELSE q)
         /\ \A d \in Clients \ {c} : at'[d] = at[d] /\ request'[d] = request[d]
         /\ pc["server"] = "listen" /\ (c = "agent" => pc["agent"] \in {"batch", "send"})
         /\ Shapes' /\ Loaded' /\ Opened' /\ Unreached' /\ Fresh' /\ Awaiting' /\ Delivered'
<1> USE Members
<1>1. UNCHANGED <<given, conf, pc, serverVars, agentVars>>
  BY DEF Pass
<1> USE <1>1 DEF serverVars, agentVars
<1>2. at[c] = layer /\ at'[c] = (IF refused THEN "400" ELSE next)
  BY DEF Pass, DInv, Shapes
<1>3. request'[c] = (IF refused THEN request[c] ELSE q) /\ DOMAIN request' = Clients
  BY DEF Pass, DInv, Shapes
<1>4. \A d \in Clients \ {c} : at'[d] = at[d] /\ request'[d] = request[d]
  BY DEF Pass, DInv, Shapes
<1>5. pc["server"] = "listen" /\ (c = "agent" => pc["agent"] \in {"batch", "send"})
  BY <1>2 DEF DInv, Unreached, Awaiting
<1>6. at' \in [Clients -> Layers \cup {"idle", "200", "400"}]
  BY DEF Pass, DInv, Shapes, Layers
<1>7. q # NoRequest
  BY DEF NoRequest, Routes
<1>8. Shapes'
  BY <1>2, <1>3, <1>4, <1>6, <1>7 DEF DInv, Shapes
<1>9. Loaded' /\ Opened' /\ Fresh' /\ Unreached'
  BY <1>5 DEF DInv, Loaded, Given, Opened, Fresh, Unreached
<1>10. Awaiting'
  BY <1>2, <1>4 DEF DInv, Awaiting
<1>11. Delivered'
  BY KeysStay DEF DInv, Delivered
<1> QED  BY <1>1, <1>2, <1>3, <1>4, <1>5, <1>8, <1>9, <1>10, <1>11

LEMMA GunzipKeeps ==
  ASSUME DInv, NEW c \in Clients, Gunzip(c) PROVE DInv'
<1> USE Members
<1> DEFINE q == request[c]
<1>1. DOMAIN Gunzipped(q) = Fields /\ Gunzipped(q).route \in Routes
  BY DEF Gunzip, Pass, Gunzipped, DInv, Shapes, Fields
<1>2. /\ UNCHANGED <<given, conf, pc, serverVars, agentVars>>
      /\ at[c] = "gunzip" /\ at'[c] = (IF GunzipRefuses(q) THEN "400" ELSE "hash")
      /\ request'[c] = (IF GunzipRefuses(q) THEN q ELSE Gunzipped(q))
      /\ \A d \in Clients \ {c} : at'[d] = at[d] /\ request'[d] = request[d]
      /\ pc["server"] = "listen" /\ (c = "agent" => pc["agent"] \in {"batch", "send"})
      /\ Shapes' /\ Loaded' /\ Opened' /\ Unreached' /\ Fresh' /\ Awaiting' /\ Delivered'
  <2>1. Pass(c, "gunzip", "hash", GunzipRefuses(q), Gunzipped(q))
    BY DEF Gunzip
  <2> QED  BY Zenon, <1>1, <2>1, PassProperties
<1>3. Checked'
  BY <1>2 DEF DInv, Checked
<1>4. InFlight'
  <2>1. CASE c # "agent"
    BY <1>2, <2>1, InFlightStays DEF DInv, agentVars
  <2>2. CASE c = "agent"
    <3>1. Asked(q) /\ q.body = OnTheWire
      BY <1>2, <2>2 DEF DInv, InFlight
    <3>2. ~GunzipRefuses(q) /\ Gunzipped(q).body = Unzipped
      <4>1. CASE PublicKey = None
        <5>1. q.gzip /\ q.body = Gzip(Document) /\ Document \in {JSON, Empty}
          BY <3>1, <4>1 DEF Asked, OnTheWire, Document
        <5>2. Outermost(q.body, "gzip") /\ Tail(q.body) = Document
          BY <5>1, GzipProperties
        <5>3. Gunzipped(q).body = Tail(q.body)
          BY <5>1 DEF Gunzipped, DInv, Shapes, Fields
        <5> QED  BY <4>1, <5>2, <5>3 DEF GunzipRefuses, Unzipped
      <4>2. CASE PublicKey # None
        BY <3>1, <4>2 DEF GunzipRefuses, Gunzipped, Asked, Unzipped
      <4> QED  BY <4>1, <4>2
    <3>3. /\ Gunzipped(q).route = q.route /\ Gunzipped(q).items = q.items
          /\ Gunzipped(q).gzip = q.gzip /\ Gunzipped(q).encrypted = q.encrypted
          /\ Gunzipped(q).hash = q.hash
      BY DEF Gunzipped, DInv, Shapes, Fields
    <3>4. Asked(Gunzipped(q))
      BY <3>1, <3>3 DEF Asked
    <3>5. request'["agent"] = Gunzipped(q) /\ at'["agent"] = "hash"
      BY <1>2, <2>2, <3>2
    <3>6. /\ PublicKey' = PublicKey /\ Unzipped' = Unzipped /\ Signature' = Signature
          /\ pc' = pc /\ left' = left
      BY <1>2, KeysStay DEF Unzipped, OnTheWire, Signature, Document, agentVars
    <3>7. Asked(request["agent"])'
      BY <3>4, <3>5, <3>6 DEF Asked
    <3> QED  BY <3>2, <3>5, <3>6, <3>7 DEF InFlight
  <2> QED  BY <2>1, <2>2
<1> QED  BY <1>2, <1>3, <1>4 DEF DInv

LEMMA CheckHashKeeps ==
  ASSUME DInv, NEW c \in Clients, CheckHash(c) PROVE DInv'
<1> USE Members
<1> DEFINE q == request[c]
           key == conf.server.key
<1>1. DOMAIN Hashed(q, key) = Fields /\ Hashed(q, key).route \in Routes
  BY DEF CheckHash, Pass, Hashed, DInv, Shapes, Fields
<1>2. /\ UNCHANGED <<given, conf, pc, serverVars, agentVars>>
      /\ at[c] = "hash" /\ at'[c] = (IF HashRefuses(q, key) THEN "400" ELSE "decrypt")
      /\ request'[c] = (IF HashRefuses(q, key) THEN q ELSE Hashed(q, key))
      /\ \A d \in Clients \ {c} : at'[d] = at[d] /\ request'[d] = request[d]
      /\ pc["server"] = "listen" /\ (c = "agent" => pc["agent"] \in {"batch", "send"})
      /\ Shapes' /\ Loaded' /\ Opened' /\ Unreached' /\ Fresh' /\ Awaiting' /\ Delivered'
  <2>1. Pass(c, "hash", "decrypt", HashRefuses(q, key), Hashed(q, key))
    BY DEF CheckHash
  <2> QED  BY Zenon, <1>1, <2>1, PassProperties
<1>3. Checked'
  <2>1. Checks(key) => Hashed(q, key).body = Empty
    BY DEF Hashed, DInv, Shapes, Fields
  <2>2. Checks(key) /\ ~HashRefuses(q, key) => SignedWith(Hashed(q, key), key)
    <3>1. Hashed(q, key).hash = q.hash
      BY DEF Hashed, DInv, Shapes, Fields
    <3>2. Checks(key) /\ ~HashRefuses(q, key) => q.hash = Hash(key, q.body)
      BY DEF HashRefuses
    <3> HIDE DEF q, key
    <3> QED  BY <3>1, <3>2, HashProperties DEF SignedWith
  <2> QED  BY <1>2, <2>1, <2>2 DEF DInv, Checked
<1>4. InFlight'
  <2>1. CASE c # "agent"
    BY <1>2, <2>1, InFlightStays DEF DInv, agentVars
  <2>2. CASE c = "agent"
    <3>1. Asked(q) /\ q.body = Unzipped
      BY <1>2, <2>2 DEF DInv, InFlight
    <3>2. /\ Hashed(q, key).route = q.route /\ Hashed(q, key).items = q.items
          /\ Hashed(q, key).gzip = q.gzip /\ Hashed(q, key).encrypted = q.encrypted
          /\ Hashed(q, key).hash = q.hash
      BY DEF Hashed, DInv, Shapes, Fields
    <3>3. Asked(Hashed(q, key))
      BY <3>1, <3>2 DEF Asked
    <3>4. /\ PublicKey' = PublicKey /\ Unzipped' = Unzipped /\ Signature' = Signature
          /\ pc' = pc /\ left' = left /\ conf' = conf /\ (Signed' <=> Signed)
          /\ (Compatible' <=> Compatible)
      BY <1>2, KeysStay DEF Unzipped, OnTheWire, Signature, Document, Signed, agentVars
    <3>5. Asked(request["agent"])'
      BY <1>2, <2>2, <3>1, <3>3, <3>4 DEF Asked
    <3>6. Checks(key) /\ ~HashRefuses(q, key) => Signed
      <4> SUFFICES ASSUME Checks(key), ~HashRefuses(q, key) PROVE Signed
        OBVIOUS
      <4>1. Signature = Hash(key, Unzipped)
        BY <3>1 DEF Asked, HashRefuses
      <4>2. /\ pc["agent"] # "batch" /\ conf.agent.key # None
            /\ Signature = Hash(conf.agent.key, OnTheWire)
        BY <4>1, HashProperties DEF Signature
      <4>3. conf.agent.key = key /\ OnTheWire = Unzipped
        <5>1. Hash(conf.agent.key, OnTheWire) = Hash(key, Unzipped)
          BY <4>1, <4>2
        <5> QED  BY <5>1, HashProperties
      <4>4. PublicKey # None
        BY <4>2, <4>3, GzipProperties DEF OnTheWire, Unzipped, Document
      <4> QED  BY <1>2, <2>2, <4>2, <4>3, <4>4 DEF Signed
    <3>7. HashRefuses(q, key) => pc["agent"] = "batch" \/ ~Compatible
      <4> SUFFICES ASSUME HashRefuses(q, key), pc["agent"] # "batch", Compatible PROVE FALSE
        OBVIOUS
      <4>1. Checks(key) /\ q.hash # Hash(key, q.body)
        BY DEF HashRefuses
      <4>2. conf.agent.key = key /\ PublicKey # None /\ key # None
        BY <4>1, KeysAssumption DEF Compatible, Checks
      <4>3. q.hash = Hash(key, OnTheWire) /\ q.body = OnTheWire
        BY <3>1, <4>2 DEF Asked, Signature, Unzipped
      <4> QED  BY <4>1, <4>3
    <3>8. CASE HashRefuses(q, key)
      BY <1>2, <2>2, <3>4, <3>5, <3>7, <3>8 DEF InFlight
    <3>9. CASE ~HashRefuses(q, key)
      <4>1. at'["agent"] = "decrypt" /\ request'["agent"] = Hashed(q, key)
        BY <1>2, <2>2, <3>9
      <4>2. ~Checks(key) => Hashed(q, key).body = Unzipped
        BY <3>1 DEF Hashed
      <4>3. Checks(conf'.server.key) <=> Checks(key)
        BY <3>4 DEF Checks
      <4> QED  BY <3>4, <3>5, <3>6, <3>9, <4>1, <4>2, <4>3 DEF InFlight
    <3> QED  BY <3>8, <3>9
  <2> QED  BY <2>1, <2>2
<1> QED  BY <1>2, <1>3, <1>4 DEF DInv

LEMMA DecryptKeeps ==
  ASSUME DInv, NEW c \in Clients, Decrypt(c) PROVE DInv'
<1> USE Members
<1> DEFINE q == request[c]
           k == PrivateKey
<1>1. DOMAIN Decrypted(q, k) = Fields /\ Decrypted(q, k).route \in Routes
  BY DEF Decrypt, Pass, Decrypted, DInv, Shapes, Fields
<1>2. /\ UNCHANGED <<given, conf, pc, serverVars, agentVars>>
      /\ at[c] = "decrypt" /\ at'[c] = (IF DecryptRefuses(q, k) THEN "400" ELSE "handler")
      /\ request'[c] = (IF DecryptRefuses(q, k) THEN q ELSE Decrypted(q, k))
      /\ \A d \in Clients \ {c} : at'[d] = at[d] /\ request'[d] = request[d]
      /\ pc["server"] = "listen" /\ (c = "agent" => pc["agent"] \in {"batch", "send"})
      /\ Shapes' /\ Loaded' /\ Opened' /\ Unreached' /\ Fresh' /\ Awaiting' /\ Delivered'
  <2>1. Pass(c, "decrypt", "handler", DecryptRefuses(q, k), Decrypted(q, k))
    BY DEF Decrypt
  <2> QED  BY Zenon, <1>1, <2>1, PassProperties
<1>3. Checked'
  <2>1. Checks(conf.server.key) => q.body = Empty
    BY <1>2 DEF DInv, Checked
  <2>2. Checks(conf.server.key) /\ ~DecryptRefuses(q, k) => Decrypted(q, k).body = Empty
    BY <2>1 DEF DecryptRefuses, Decrypted, Outermost
  <2>3. Decrypted(q, k).hash = q.hash
    BY DEF Decrypted, DInv, Shapes, Fields
  <2> QED  BY <1>2, <2>2, <2>3 DEF DInv, Checked, SignedWith
<1>4. InFlight'
  <2>1. CASE c # "agent"
    BY <1>2, <2>1, InFlightStays DEF DInv, agentVars
  <2>2. CASE c = "agent"
    <3>1. /\ Asked(q)
          /\ Checks(conf.server.key) => Signed
          /\ ~Checks(conf.server.key) => q.body = Unzipped
      BY <1>2, <2>2 DEF DInv, InFlight
    <3>2. /\ Decrypted(q, k).route = q.route /\ Decrypted(q, k).items = q.items
          /\ Decrypted(q, k).gzip = q.gzip /\ Decrypted(q, k).encrypted = q.encrypted
          /\ Decrypted(q, k).hash = q.hash
      BY DEF Decrypted, DInv, Shapes, Fields
    <3>3. Asked(Decrypted(q, k))
      BY <3>1, <3>2 DEF Asked
    <3>4. /\ PublicKey' = PublicKey /\ Signature' = Signature
          /\ pc' = pc /\ left' = left /\ conf' = conf
          /\ (Compatible' <=> Compatible)
      BY <1>2, KeysStay DEF OnTheWire, Signature, Document, agentVars
    <3>5. Asked(request["agent"])'
      BY <1>2, <2>2, <3>1, <3>3, <3>4 DEF Asked
    <3>6. DecryptRefuses(q, k) <=> ~Compatible
      <4>1. CASE Checks(conf.server.key)
        <5>1. q.body = Empty /\ Signed /\ (q.encrypted <=> PublicKey # None)
          BY <1>2, <3>1, <4>1 DEF DInv, Checked, Asked
        <5> QED  BY <4>1, <5>1 DEF DecryptRefuses, Outermost, Compatible, Signed
      <4>2. CASE ~Checks(conf.server.key)
        <5>1. q.body = Unzipped /\ (q.encrypted <=> PublicKey # None)
          BY <3>1, <4>2 DEF Asked
        <5>2. PublicKey # None =>
                (Outermost(q.body, k) <=> PublicKey = k)
          BY <5>1, EncryptedProperties DEF Unzipped, OnTheWire, Document
        <5> QED  BY <4>2, <5>1, <5>2 DEF DecryptRefuses, Compatible
      <4> QED  BY <4>1, <4>2
    <3> QED  BY <1>2, <2>2, <3>4, <3>5, <3>6 DEF InFlight
  <2> QED  BY <2>1, <2>2
<1> QED  BY <1>2, <1>3, <1>4 DEF DInv

LEMMA HandleKeeps ==
  ASSUME DInv, NEW c \in Clients, Handle(c) PROVE DInv'
<1> USE Members
<1> DEFINE q == request[c]
<1>1. UNCHANGED <<given, conf, pc, serverVars, request, left, told>>
  BY DEF Handle
<1> USE <1>1 DEF serverVars
<1>2. PICK fails \in BOOLEAN :
         /\ fails => MustFail(q) \/ MayFail(q)
         /\ at' = [at EXCEPT ![c] = IF fails THEN "400" ELSE "200"]
         /\ stored' = IF c = "agent" /\ ~fails THEN stored \cup q.items ELSE stored
  BY DEF Handle
<1>10. /\ at[c] = "handler" /\ at'[c] = (IF fails THEN "400" ELSE "200")
       /\ at' \in [Clients -> Layers \cup {"idle", "200", "400"}]
       /\ \A d \in Clients \ {c} : at'[d] = at[d]
  BY <1>2 DEF Handle, DInv, Shapes
<1>3. pc["server"] = "listen" /\ (c = "agent" => pc["agent"] \in {"batch", "send"})
  BY <1>10 DEF DInv, Unreached, Awaiting
<1>4. /\ c = "agent" => Compatible /\ Asked(q)
      /\ stored \subseteq stored' /\ stored' \subseteq Metrics
      /\ c = "agent" /\ ~fails => q.items \subseteq stored'
      /\ c # "agent" => stored' = stored
  <2>1. c = "agent" => Compatible /\ Asked(q) /\ q.items \subseteq Metrics
    BY <1>10 DEF DInv, InFlight, Asked, Shapes
  <2> QED  BY <1>2, <2>1 DEF DInv, Shapes
<1>5. Shapes'
  BY <1>10, <1>4 DEF DInv, Shapes
<1>6. Loaded' /\ Opened' /\ Unreached' /\ Fresh' /\ Awaiting'
  <2>1. Loaded' /\ Opened' /\ Unreached' /\ Awaiting'
    BY <1>10, <1>3 DEF DInv, Loaded, Given, Opened, Unreached, Awaiting
  <2>2. Fresh'
    BY <1>3, <1>4 DEF DInv, Fresh
  <2> QED  BY <2>1, <2>2
<1>7. Checked'
  BY <1>10 DEF DInv, Checked
<1>8. InFlight'
  <2>1. CASE c # "agent"
    BY <1>10, <1>4, <2>1, InFlightStays DEF DInv
  <2>2. CASE c = "agent"
    <3>1. Asked(request["agent"])' /\ (Compatible' <=> Compatible)
      BY <1>4, <2>2, KeysStay DEF Asked, Signature, OnTheWire, Document
    <3>2. fails => pc["agent"] = "batch"
      BY <1>2, <1>4, <2>2 DEF Asked, MustFail, MayFail, HandlerRefuses, BodyRoutes
    <3> QED  BY <1>10, <1>4, <2>2, <3>1, <3>2 DEF InFlight
  <2> QED  BY <2>1, <2>2
<1>9. Delivered'
  BY <1>3, <1>4, KeysStay DEF DInv, Delivered
<1> QED  BY <1>5, <1>6, <1>7, <1>8, <1>9 DEF DInv

LEMMA StepCorrect ==
  ASSUME DInv, [Next]_vars PROVE DInv'
<1>1. CASE AgentNext
  BY <1>1, AgentMainKeeps, SendBatchKeeps, BatchResponseKeeps, SendKeeps, SendResponseKeeps,
     SendReturnsKeeps DEF AgentNext
<1>2. CASE StartServer
  BY <1>2, InitializeAppKeeps, StartKeeps DEF StartServer
<1>3. CASE OtherRequest \/ OtherResponse
  BY <1>3, OtherKeeps
<1>4. CASE \E c \in Clients : Serve(c)
  BY <1>4, GunzipKeeps, CheckHashKeeps, DecryptKeeps, HandleKeeps DEF Serve
<1>5. CASE UNCHANGED vars
  <2> USE <1>5 DEF vars
  <2>1. Shapes' /\ Loaded' /\ Opened' /\ Unreached' /\ Fresh' /\ Awaiting'
    BY DEF DInv, Shapes, Loaded, Given, Opened, Unreached, Fresh, Awaiting
  <2>2. Checked' /\ Delivered'
    BY KeysStay DEF DInv, Checked, Delivered
  <2>3. InFlight'
    BY InFlightStays DEF DInv
  <2> QED  BY <2>1, <2>2, <2>3 DEF DInv
<1> QED  BY <1>1, <1>2, <1>3, <1>4, <1>5 DEF Next

LEMMA DInvCorrect == Spec => []DInv
BY InitCorrect, StepCorrect, PTL DEF Spec

--------------------------------------------------------------------------------
(* Settings, places and requests keep their shapes in every deployment     *)
(* (main of both programs, the router and the worker).                     *)
THEOREM TypeCorrect == Spec => []TypeOK
<1>1. DInv => TypeOK
  <2>1. \A i \in Inputs, p \in Programs : DOMAIN i[p] = {"env", "flag", "file"}
    BY InputsAssumption DEF Sources
  <2> QED  BY <2>1 DEF DInv, Shapes, TypeOK
<1> QED  BY <1>1, DInvCorrect, PTL

(* However often the connection and the migrations are tried, the server   *)
(* never serves from a database without tables (NewDBStorage before        *)
(* InitializeRouter and ListenAndServe).                                   *)
THEOREM ListensWithStorageCorrect == Spec => []ListensWithStorage
<1>1. DInv => ListensWithStorage
  BY DEF DInv, Opened, ListensWithStorage
<1> QED  BY <1>1, DInvCorrect, PTL

(* With a key of 64 hexadecimal digits the server answers nothing with 200,*)
(* on any of its routes and whoever sends it, that has not been signed with*)
(* that key (MiddlewareWithHash, app.go:26-61, in every chain of 276-295). *)
THEOREM AnsweredMeansSignedCorrect == Spec => []AnsweredMeansSigned
<1>1. ASSUME DInv, NEW c \in Clients, at[c] = "200", Checks(conf.server.key)
      PROVE  request[c].hash # NoHash /\ Head(request[c].hash) = conf.server.key
  BY <1>1 DEF DInv, Checked, SignedWith
<1>2. DInv => AnsweredMeansSigned
  BY <1>1, Zenon DEF AnsweredMeansSigned
<1> QED  BY <1>2, DInvCorrect, PTL

(* A report is stored whole when the keys of the two programs are          *)
(* compatible, and not at all when they are not, for all keys, key pairs   *)
(* and sizes of a report (HTTPSender against the order of layers in        *)
(* InitializeRouter).                                                      *)
THEOREM StoredIffCompatibleCorrect == Spec => []StoredIffCompatible
<1>1. DInv => StoredIffCompatible
  BY DEF DInv, Delivered, StoredIffCompatible
<1> QED  BY <1>1, DInvCorrect, PTL

(* The same sources give both programs the same address and hash key, from *)
(* whichever source these come, though each program reads them in its own  *)
(* order (main of the agent, InitializeApp).                               *)
THEOREM SameSourcesAgreeCorrect == Spec => []SameSourcesAgree
<1>1. ASSUME NEW g, NEW n \in {"address", "key"}
      PROVE  AgentSetting(g, n) = ServerSetting(g, n)
  BY DEF AgentSetting, ServerSetting, EnvOr, FlagOrFile, Flag
<1>2. ASSUME NEW g, g.file.crypto = None
      PROVE  AgentSetting(g, "crypto") = ServerSetting(g, "crypto")
  BY <1>2, DefaultAssumption DEF AgentSetting, ServerSetting, EnvOr, FlagOrFile, Flag
<1>3. DInv => SameSourcesAgree
  <2> SUFFICES ASSUME DInv, given.agent = given.server,
                      \A p \in Programs : pc[p] \notin {"new", "fatal"}
               PROVE  /\ \A n \in {"address", "key"} : conf.agent[n] = conf.server[n]
                      /\ given.server.file.crypto = None =>
                           conf.agent.crypto = conf.server.crypto
    BY DEF SameSourcesAgree
  <2>1. /\ conf.agent = [n \in Names |-> AgentSetting(given.server, n)]
        /\ conf.server = [n \in Names |-> ServerSetting(given.server, n)]
    BY Members DEF DInv, Loaded, Given
  <2> QED  BY <1>1, <1>2, <2>1 DEF Names
<1> QED  BY <1>3, DInvCorrect, PTL
================================================================================
