------------------------------- MODULE Deployment -------------------------------
(***************************************************************************)
(* An agent and a server that somebody configures and starts, each on its  *)
(* own: their settings, the start of the server up to the storage, the     *)
(* requests of the agent, and of others, through the layers of the server. *)
(* The network is faultless here (see Agent for losses).                   *)
(***************************************************************************)
EXTENDS Integers, Pipeline, Settings

CONSTANTS
  Metrics,        \* names in a report
  Texts,          \* values of settings
  Inputs,         \* what the two programs may be started with
  Others,         \* requests that other clients send
  Unreadable,     \* the path of a file that holds no key
  maxRetries      \* attempts that retryOperation makes: 4

Programs == {"agent", "server"}
Clients  == {"agent", "other"}

ASSUME RetriesAssumption == maxRetries \in Nat \ {0}
ASSUME KeysAssumption    == None \notin HexKeys
ASSUME OthersAssumption  ==
  \A q \in Others : q.route \in Routes /\ DOMAIN q = DOMAIN BatchRequest({}, None)

(* No key pair is named by default, in either program.                     *)
ASSUME DefaultAssumption == DOMAIN Default = Names /\ Default.crypto = None
ASSUME InputsAssumption  == Inputs \subseteq [Programs -> Sources(Texts)]

VARIABLES
  given,          \* the sources of both programs
  conf,           \* the settings a program has made of them
  pc,             \* where each program is
  tries,          \* the attempt of retryOperation the server is in
  migrated,       \* whether the tables of the database exist
  request, at,    \* per client: its request and the layer it has reached
  left,           \* metrics that Send has yet to send
  stored,         \* metrics of the agent's current report that the server has stored
  told            \* what the worker logged about the last report

vars == <<given, conf, pc, tries, migrated, request, at, left, stored, told>>

serverVars == <<tries, migrated>>
agentVars  == <<left, stored, told>>
connVars   == <<request, at>>

NoRequest  == [route |-> "none", items |-> {}, gzip |-> FALSE, encrypted |-> FALSE,
               hash |-> NoHash, body |-> Empty]

TypeOK ==
  /\ \A p \in Programs : DOMAIN given[p] = {"env", "flag", "file"} /\ DOMAIN conf[p] = Names
  /\ pc["agent"] \in {"new", "fatal", "report", "batch", "send"}
  /\ pc["server"] \in {"new", "fatal", "ping", "migrate", "router", "listen", "exited"}
  /\ tries \in 1 .. maxRetries
  /\ migrated \in BOOLEAN
  /\ \A c \in Clients : request[c] = NoRequest <=> at[c] = "idle"
  /\ at \in [Clients -> Layers \cup {"idle", "200", "400"}]
  /\ left \in SUBSET Metrics /\ stored \in SUBSET Metrics
  /\ told \in {"nothing", "batchSent", "sent", "error"}

Init ==
  /\ given \in Inputs
  /\ conf = [p \in Programs |-> Default]
  /\ pc = [p \in Programs |-> "new"]
  /\ tries = 1
  /\ migrated = FALSE
  /\ request = [c \in Clients |-> NoRequest]
  /\ at = [c \in Clients |-> "idle"]
  /\ left = {} /\ stored = {} /\ told = "nothing"

--------------------------------------------------------------------------------
(* main of the agent                                                       *)

(* A path without a public key ends the agent, as does time.NewTicker with *)
(* an interval of 0.                                                       *)
AgentMain ==
  /\ pc["agent"] = "new"
  /\ LET settings == [n \in Names |-> AgentSetting(given.agent, n)]
     IN  /\ conf' = [conf EXCEPT !.agent = settings]
         /\ pc' = [pc EXCEPT !["agent"] =
                     IF settings.crypto = Unreadable \/ settings.interval = Zero
                     THEN "fatal" ELSE "report"]
  /\ UNCHANGED <<given, serverVars, connVars, agentVars>>

--------------------------------------------------------------------------------
(* The server: InitializeApp, NewDBStorage, InitializeRouter, ListenAndServe*)

InitializeApp ==
  /\ pc["server"] = "new"
  /\ LET settings == [n \in Names |-> ServerSetting(given.server, n)]
     IN  /\ conf' = [conf EXCEPT !.server = settings]
         /\ pc' = [pc EXCEPT !["server"] = IF settings.interval = Junk THEN "fatal"
                                           ELSE IF settings.dsn = None THEN "router"
                                           ELSE "ping"]
  /\ UNCHANGED <<given, serverVars, connVars, agentVars>>

(* retryOperation under NewDBStorage.                                      *)
Connected ==
  /\ pc["server"] = "ping"
  /\ pc' = [pc EXCEPT !["server"] = "migrate"] /\ tries' = 1
  /\ UNCHANGED <<given, conf, migrated, connVars, agentVars>>

Migrated ==
  /\ pc["server"] = "migrate"
  /\ migrated' = TRUE
  /\ pc' = [pc EXCEPT !["server"] = "router"] /\ tries' = 1
  /\ UNCHANGED <<given, conf, connVars, agentVars>>

(* A bug: after the last attempt the start goes on. *)
TolerantAttemptFails ==
  /\ pc["server"] \in {"ping", "migrate"}
  /\ \/ tries < maxRetries /\ tries' = tries + 1 /\ UNCHANGED pc
     \/ /\ pc' = [pc EXCEPT !["server"] = IF tries = maxRetries THEN "router" ELSE "fatal"]
        /\ tries' = 1
  /\ UNCHANGED <<given, conf, migrated, connVars, agentVars>>

(* A bug: the attempts are not counted to an end. *)
EndlessAttemptFails ==
  /\ pc["server"] \in {"ping", "migrate"}
  /\ \/ tries' = (tries % maxRetries) + 1 /\ UNCHANGED pc
     \/ pc' = [pc EXCEPT !["server"] = "fatal"] /\ tries' = 1
  /\ UNCHANGED <<given, conf, migrated, connVars, agentVars>>

(* A bug: one attempt too many. *)
LateAttemptFails ==
  /\ pc["server"] \in {"ping", "migrate"}
  /\ \/ tries <= maxRetries /\ tries' = tries + 1 /\ UNCHANGED pc
     \/ pc' = [pc EXCEPT !["server"] = "fatal"] /\ tries' = 1
  /\ UNCHANGED <<given, conf, migrated, connVars, agentVars>>

(* With a temporary error, or with another one.                            *)
AttemptFails ==
  /\ pc["server"] \in {"ping", "migrate"}
  /\ \/ tries < maxRetries /\ tries' = tries + 1 /\ UNCHANGED pc
     \/ pc' = [pc EXCEPT !["server"] = "fatal"] /\ tries' = 1
  /\ UNCHANGED <<given, conf, migrated, connVars, agentVars>>

(* The address cannot be used: main gets a signal from itself and ends.    *)
ListenAndServe ==
  /\ pc["server"] = "router"
  /\ \E result \in {"listen", "exited"} : pc' = [pc EXCEPT !["server"] = result]
  /\ UNCHANGED <<given, conf, serverVars, connVars, agentVars>>

(* A path without a private key leaves the server without decryption.      *)
PublicKey  == conf.agent.crypto
PrivateKey == IF conf.server.crypto = Unreadable THEN None ELSE conf.server.crypto

Reachable == pc["server"] = "listen" /\ conf.agent.address = conf.server.address

--------------------------------------------------------------------------------
(* A worker of the agent with one report after the other                   *)

Connect(c, q) ==
  /\ request' = [request EXCEPT ![c] = q]
  /\ at' = [at EXCEPT ![c] = "gunzip"]

Hangup(c) ==
  /\ request' = [request EXCEPT ![c] = NoRequest]
  /\ at' = [at EXCEPT ![c] = "idle"]

AgentAt(place) == pc["agent"] = place /\ at["agent"] = "idle"

(* A batch of more than 100 compressed bytes is not encrypted: an error.   *)
SendBatch ==
  /\ AgentAt("report")
  /\ stored' = {}
  /\ \/ /\ Reachable
        /\ Connect("agent", BatchRequest(Metrics, PublicKey))
        /\ pc' = [pc EXCEPT !["agent"] = "batch"]
        /\ UNCHANGED left
     \/ /\ ~Reachable \/ PublicKey # None
        /\ left' = Metrics /\ pc' = [pc EXCEPT !["agent"] = "send"]
        /\ UNCHANGED connVars
  /\ UNCHANGED <<given, conf, serverVars, told>>

(* A bug: a refused batch is given up. *)
DroppingBatchResponse ==
  /\ pc["agent"] = "batch" /\ at["agent"] \in {"200", "400"}
  /\ told' = IF at["agent"] = "200" THEN "batchSent" ELSE "error"
  /\ pc' = [pc EXCEPT !["agent"] = "report"]
  /\ Hangup("agent")
  /\ UNCHANGED <<given, conf, serverVars, left, stored>>

BatchResponse ==
  /\ pc["agent"] = "batch" /\ at["agent"] \in {"200", "400"}
  /\ IF at["agent"] = "200"
     THEN told' = "batchSent" /\ pc' = [pc EXCEPT !["agent"] = "report"] /\ UNCHANGED left
     ELSE left' = Metrics /\ pc' = [pc EXCEPT !["agent"] = "send"] /\ UNCHANGED told
  /\ Hangup("agent")
  /\ UNCHANGED <<given, conf, serverVars, stored>>

Send ==
  /\ AgentAt("send") /\ left # {} /\ Reachable
  /\ \E m \in left : Connect("agent", MetricRequest(m, conf.agent.key, PublicKey))
  /\ UNCHANGED <<given, conf, pc, serverVars, agentVars>>

(* The status of the response is not looked at.                            *)
SendResponse ==
  /\ pc["agent"] = "send" /\ at["agent"] \in {"200", "400"}
  /\ left' = left \ request["agent"].items
  /\ Hangup("agent")
  /\ UNCHANGED <<given, conf, pc, serverVars, stored, told>>

(* Without a connection the rest of the report is dropped.                 *)
SendReturns ==
  /\ AgentAt("send") /\ (left = {} \/ ~Reachable)
  /\ told' = IF left = {} THEN "sent" ELSE "error"
  /\ left' = {}
  /\ pc' = [pc EXCEPT !["agent"] = "report"]
  /\ UNCHANGED <<given, conf, serverVars, connVars, stored>>

OtherRequest ==
  /\ pc["server"] = "listen" /\ at["other"] = "idle"
  /\ \E q \in Others : Connect("other", q)
  /\ UNCHANGED <<given, conf, pc, serverVars, agentVars>>

OtherResponse ==
  /\ at["other"] \in {"200", "400"}
  /\ Hangup("other")
  /\ UNCHANGED <<given, conf, pc, serverVars, agentVars>>

--------------------------------------------------------------------------------
(* The goroutine of the server that serves a client                        *)

Pass(c, layer, next, refused, q) ==
  /\ at[c] = layer
  /\ at' = [at EXCEPT ![c] = IF refused THEN "400" ELSE next]
  /\ request' = IF refused THEN request ELSE [request EXCEPT ![c] = q]
  /\ UNCHANGED <<given, conf, pc, serverVars, agentVars>>

Gunzip(c) == Pass(c, "gunzip", "hash", GunzipRefuses(request[c]), Gunzipped(request[c]))

CheckHash(c) ==
  LET key == conf.server.key
  IN  Pass(c, "hash", "decrypt", HashRefuses(request[c], key), Hashed(request[c], key))

Decrypt(c) ==
  Pass(c, "decrypt", "handler", DecryptRefuses(request[c], PrivateKey),
       Decrypted(request[c], PrivateKey))

(* A metric may be missing, a database may not answer, or there is none.   *)
MayFail(q)  == q.route \in {"value", "valueJSON", "ping"}
MustFail(q) == HandlerRefuses(q) \/ (q.route = "ping" /\ conf.server.dsn = None)

Handle(c) ==
  /\ at[c] = "handler"
  /\ \E fails \in BOOLEAN :
       /\ MustFail(request[c]) => fails
       /\ fails => MustFail(request[c]) \/ MayFail(request[c])
       /\ at' = [at EXCEPT ![c] = IF fails THEN "400" ELSE "200"]
       /\ stored' = IF c = "agent" /\ ~fails THEN stored \cup request[c].items ELSE stored
  /\ UNCHANGED <<given, conf, pc, serverVars, request, left, told>>

Serve(c) == Gunzip(c) \/ CheckHash(c) \/ Decrypt(c) \/ Handle(c)

--------------------------------------------------------------------------------
AgentNext ==
  \/ AgentMain \/ SendBatch \/ BatchResponse \/ Send \/ SendResponse \/ SendReturns

StartServer ==
  \/ InitializeApp \/ Connected \/ Migrated \/ AttemptFails \/ ListenAndServe

Next ==
  \/ AgentNext
  \/ StartServer
  \/ OtherRequest \/ OtherResponse
  \/ \E c \in Clients : Serve(c)

Spec == Init /\ [][Next]_vars

(* Report ticks come, and both programs go on; a database attempt answers  *)
(* or fails.                                                               *)
Fairness == WF_vars(AgentNext) /\ WF_vars(StartServer) /\ WF_vars(Serve("agent"))

FairSpec == Spec /\ Fairness

--------------------------------------------------------------------------------
(* Properties *)

(* The deployments that work.  With a key that the server checks only      *)
(* individual sends with an encrypted, undecrypted body carry the hash that*)
(* the server computes; without such a key whatever can be decrypted, or   *)
(* need not be.                                                            *)
Compatible ==
  IF Checks(conf.server.key)
  THEN conf.agent.key = conf.server.key /\ PublicKey # None /\ PrivateKey = None
  ELSE None \in {PublicKey, PrivateKey} \/ PublicKey = PrivateKey

(* What arrives depends on the keys of both sides in exactly this way: a   *)
(* report of compatible programs is stored whole when the agent has got its*)
(* answers, and nothing of a report of others is ever stored               *)
(* (InitializeRouter's order of layers against HTTPSender's).              *)
StoredIffCompatible ==
  /\ stored # {} => Compatible
  /\ pc["agent"] = "report" /\ told \in {"batchSent", "sent"} /\ Compatible => stored = Metrics

(* A server with a key gives nobody a 200 on any route, of anything, who   *)
(* has not signed with that key: no layer in front of the check, and none  *)
(* behind it, lets a request around it (InitializeRouter, app.go:276-295). *)
AnsweredMeansSigned ==
  \A c \in Clients : at[c] = "200" /\ Checks(conf.server.key) =>
    request[c].hash # NoHash /\ Head(request[c].hash) = conf.server.key

(* A server with a database takes requests only after the tables exist,    *)
(* however often the connection and the migrations had to be tried         *)
(* (NewDBStorage).                                                         *)
ListensWithStorage == pc["server"] = "listen" => conf.server.dsn = None \/ migrated

(* Programs started with the same environment, flags and file find each    *)
(* other and share the key; that the server decrypts what the agent        *)
(* encrypts is only certain when no file names the key pair.               *)
SameSourcesAgree ==
  /\ given.agent = given.server
  /\ \A p \in Programs : pc[p] \notin {"new", "fatal"}
  => /\ \A n \in {"address", "key"} : conf.agent[n] = conf.server[n]
     /\ given.server.file.crypto = None => conf.agent.crypto = conf.server.crypto

(* The start of a server ends, with a database that answers too late for   *)
(* ever as well (retryOperation).                                          *)
StartEnds == pc["server"] = "new" ~> pc["server"] \in {"listen", "exited", "fatal"}

(* A report of a compatible agent is stored in the end, whatever the server*)
(* refused of it first: the batch, which it cannot read once it is         *)
(* encrypted, is repeated metric by metric (worker, main.go:34-50).        *)
ReportsArrive ==
  (pc["agent"] = "report" /\ Reachable /\ Compatible) ~> stored = Metrics

(* "Metrics sent successfully" is only logged of a report whose metrics the*)
(* server has all stored (main.go:46).                                     *)
SentIsStored == told = "sent" /\ pc["agent"] = "report" => stored = Metrics

(* A hash signs the metrics that are sent to the server (hash.go:12), so a *)
(* handler gets the document whose signature has been accepted.            *)
SignedIsServed ==
  \A c \in Clients :
    at[c] = "handler" /\ Checks(conf.server.key) /\ request[c].hash = Hash(conf.server.key, JSON)
      => ~HandlerRefuses(request[c])

(* A flag that is given wins over the file (README.md:16-19).              *)
FlagsWin ==
  \A p \in Programs, n \in Names :
    /\ pc[p] \notin {"new", "fatal"}
    /\ given[p].env[n] = Unset /\ given[p].flag[n] # Unset
    => conf[p][n] = given[p].flag[n]

(* The path of the key can come from the file, for both programs           *)
(* (README.md:42).                                                         *)
KeyPathFromFile ==
  \A p \in Programs :
    /\ pc[p] \notin {"new", "fatal"}
    /\ given[p].env.crypto = Unset /\ given[p].flag.crypto = Unset
    => conf[p].crypto = given[p].file.crypto

(* All four are promised, so in every state at least one of them is kept.  *)
(* A state without any breaks main.go:46 of the agent, hash.go:12,         *)
(* README.md:16-19 and README.md:42 at once.                               *)
SomePromiseKept == SentIsStored \/ SignedIsServed \/ FlagsWin \/ KeyPathFromFile
================================================================================
