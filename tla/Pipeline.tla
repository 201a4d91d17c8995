-------------------------------- MODULE Pipeline --------------------------------
(***************************************************************************)
(* What the sender makes of a report, and what the layers around a handler *)
(* of the server make of a request: gunzip, log, hash check, decryption.   *)
(*                                                                         *)
(* A body is the sequence of what has been done to it, the last first: a   *)
(* JSON document is <<"json">>, compressed <<"gzip", "json">>, and then    *)
(* encrypted for the key pair k <<k, "gzip", "json">>.  Cryptography is    *)
(* ideal: a hash is the key and the body it was computed from.             *)
(***************************************************************************)
EXTENDS Sequences

CONSTANTS
  HexKeys,    \* hash keys of 64 hexadecimal digits
  None        \* no key, no header

Empty == << >>
JSON  == <<"json">>

Gzip(body)          == <<"gzip">> \o body
Encrypted(pair, b)  == <<pair>> \o b
Hash(key, body)     == <<key, body>>
NoHash              == << >>

Outermost(body, x)  == body # Empty /\ Head(body) = x

--------------------------------------------------------------------------------
(* HTTPSender: requests.  item is what the URL, or the document in the     *)
(* body, asks the server to store.                                         *)

(* A batch is not signed.                                                  *)
BatchRequest(items, pair) ==
  [route |-> "updates", items |-> items,
   gzip |-> pair = None, encrypted |-> pair # None, hash |-> NoHash,
   body |-> IF pair = None THEN Gzip(JSON) ELSE Encrypted(pair, Gzip(JSON))]

(* The metric is in the URL, the body is an empty text.                    *)
MetricRequest(item, key, pair) ==
  LET body == IF pair = None THEN Gzip(Empty) ELSE Encrypted(pair, Gzip(Empty))
  IN  [route |-> "update", items |-> {item},
       gzip |-> pair = None, encrypted |-> pair # None,
       hash |-> IF key = None THEN NoHash ELSE Hash(key, body), body |-> body]

--------------------------------------------------------------------------------
(* The layers.  Each one refuses a request or hands one on.                *)

Layers == {"gunzip", "hash", "decrypt", "handler"}

Routes     == {"update", "value", "list", "updateJSON", "valueJSON", "ping", "updates"}
BodyRoutes == {"updateJSON", "valueJSON", "updates"}

GunzipRefuses(q) == q.gzip /\ ~Outermost(q.body, "gzip")
Gunzipped(q)     == IF q.gzip THEN [q EXCEPT !.body = Tail(@)] ELSE q

(* Other keys switch the check off.                                        *)
Checks(key) == key \in HexKeys

(* A bug: a request without the header passes. *)
LenientHashRefuses(q, key) == Checks(key) /\ q.hash # NoHash /\ q.hash # Hash(key, q.body)

HashRefuses(q, key) == Checks(key) /\ q.hash # Hash(key, q.body)

(* The check has read the body, and nothing puts it back.                  *)
Hashed(q, key) == IF Checks(key) THEN [q EXCEPT !.body = Empty] ELSE q

DecryptRefuses(q, pair) == pair # None /\ q.encrypted /\ ~Outermost(q.body, pair)
Decrypted(q, pair) ==
  IF pair # None /\ q.encrypted THEN [q EXCEPT !.body = Tail(@)] ELSE q

(* The handlers that read a body need a JSON document.                     *)
HandlerRefuses(q) == q.route \in BodyRoutes /\ q.body # JSON
================================================================================
