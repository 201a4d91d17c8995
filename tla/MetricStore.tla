------------------------------ MODULE MetricStore ------------------------------
(***************************************************************************)
(* What the storage promises to the clients of the server, without mutex,  *)
(* goroutines or file system: each update, a whole batch included, and each*)
(* read takes effect at one moment between its request and its response;   *)
(* the saved image is some state of the store, or nothing; a restart begins*)
(* with the image, as far as its numbers survive, or empty.                *)
(***************************************************************************)
EXTENDS Metrics, SequencesExt

CONSTANTS Clients, Calls, NoCall, NoImage

VARIABLES store, image, up, phase, call, ans

vars == <<store, image, up, phase, call, ans>>

Init ==
  /\ store = EmptyStore /\ image = NoImage /\ up = FALSE
  /\ phase = [c \in Clients |-> "idle"]
  /\ call = [c \in Clients |-> NoCall]
  /\ ans = [c \in Clients |-> NoAnswer]

Start ==
  /\ ~up /\ up' = TRUE
  /\ \/ image # NoImage /\ store' \in Loaded(image)
     \/ store' = EmptyStore
  /\ UNCHANGED <<image, phase, call, ans>>

Stop ==
  /\ up /\ up' = FALSE
  /\ store' = EmptyStore
  /\ phase' = [c \in Clients |-> "idle"]
  /\ call' = [c \in Clients |-> NoCall]
  /\ ans' = [c \in Clients |-> NoAnswer]
  /\ UNCHANGED image

Invoke(c) ==
  /\ up /\ phase[c] = "idle"
  /\ \E r \in Calls :
       /\ call' = [call EXCEPT ![c] = r]
       /\ phase' = [phase EXCEPT ![c] = IF r.op \in {"get", "getAll"} THEN "read" ELSE "update"]
  /\ UNCHANGED <<store, image, up, ans>>

Update(c) ==
  /\ phase[c] = "update"
  /\ store' = FoldLeft(Updated, store, call[c].items)
  /\ phase' = [phase EXCEPT ![c] = IF call[c].op = "save" THEN "reply" ELSE "read"]
  /\ UNCHANGED <<image, up, call, ans>>

Get(c) ==
  /\ phase[c] = "read"
  /\ ans' = [ans EXCEPT ![c] = IF call[c].op = "getAll"
                               THEN Overlaid(store.gauges, store.counters)
                               ELSE Lookup(store, call[c].items[1])]
  /\ phase' = [phase EXCEPT ![c] = "reply"]
  /\ UNCHANGED <<store, image, up, call>>

Respond(c) ==
  /\ phase[c] = "reply"
  /\ phase' = [phase EXCEPT ![c] = "idle"]
  /\ call' = [call EXCEPT ![c] = NoCall]
  /\ ans' = [ans EXCEPT ![c] = NoAnswer]
  /\ UNCHANGED <<store, image, up>>

(* The image is replaced by the present store, or destroyed.               *)
Persist == up /\ image' \in {store, NoImage} /\ UNCHANGED <<store, up, phase, call, ans>>

Next ==
  \/ Start \/ Stop \/ Persist
  \/ \E c \in Clients : Invoke(c) \/ Update(c) \/ Get(c) \/ Respond(c)

Spec == Init /\ [][Next]_vars
===============================================================================
