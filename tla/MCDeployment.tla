----------------------------- MODULE MCDeployment -----------------------------
(***************************************************************************)
(* Instances of Deployment for TLC.                                        *)
(***************************************************************************)
EXTENDS Deployment

CONSTANTS
  a0, a1,         \* addresses
  n0,             \* the default interval
  db,             \* a data source name
  hex1, hex2,     \* keys of 64 hexadecimal digits
  word,           \* another key
  pair1, pair2    \* key pairs, named by the paths of their files

Defaults ==
  [address |-> a0, interval |-> n0, dsn |-> None, key |-> None, crypto |-> None]

AllTexts == {a0, a1, n0, Zero, Junk, db, hex1, hex2, word, pair1, pair2, Unreadable, None}

(* A setting from each source: environment, flag, file.                    *)
Plain(n) == <<Unset, Unset, Default[n]>>
FromEnv(n, v)  == <<v, Unset, Default[n]>>
FromFlag(n, v) == <<Unset, v, Default[n]>>
FromFile(n, v) == <<Unset, Unset, v>>

Source(s) == [env  |-> [n \in Names |-> s[n][1]],
              flag |-> [n \in Names |-> s[n][2]],
              file |-> [n \in Names |-> s[n][3]]]

Chosen(choices) == {Source(s) : s \in
  {f \in [Names -> UNION {choices[n] : n \in Names}] : \A n \in Names : f[n] \in choices[n]}}

(* Slices: the keys of both programs in all combinations; the rest of the  *)
(* settings; the same sources for both, which contradict one another.      *)
KeyChoices(n) ==
  CASE n = "key"    -> {Plain(n), FromEnv(n, hex1), FromFile(n, hex2), FromFlag(n, word)}
    [] n = "crypto" -> {Plain(n), FromFlag(n, pair1), FromEnv(n, pair2), FromFlag(n, Unreadable)}
    [] OTHER        -> {Plain(n)}

StartChoices(n) ==
  CASE n = "address"  -> {Plain(n), FromFile(n, a1)}
    [] n = "interval" -> {Plain(n), FromEnv(n, Zero), FromEnv(n, Junk)}
    [] n = "dsn"      -> {Plain(n), FromFile(n, db)}
    [] OTHER          -> {Plain(n)}

SharedChoices(n) ==
  CASE n = "address" -> {Plain(n), <<a1, a0, a0>>, <<a0, a1, a1>>, FromFile(n, a1)}
    [] n = "key"     -> {<<hex1, None, hex2>>, <<hex1, hex2, None>>, <<Unset, hex1, hex2>>}
    [] n = "crypto"  -> {Plain(n), FromFile(n, pair1), <<pair1, pair2, None>>}
    [] OTHER         -> {Plain(n)}

Both(A, B) == [agent: A, server: B]
Table(Choices(_)) == [n \in Names |-> Choices(n)]

AllInputs ==
  Both(Chosen(Table(KeyChoices)), Chosen(Table(KeyChoices)))
    \cup Both(Chosen(Table(StartChoices)), Chosen(Table(StartChoices)))
    \cup {[agent |-> s, server |-> s] : s \in Chosen(Table(SharedChoices))}

(* Two programs with the same key, a flag with its default value against  *)
(* the file, and for the server a key pair in the file.                    *)
PromiseChoices(n) ==
  CASE n = "key"     -> {FromFlag(n, hex1)}
    [] n = "address" -> {<<Unset, a0, a1>>}
    [] OTHER         -> {Plain(n)}

ServerChoices(n) == IF n = "crypto" THEN {FromFile(n, pair1)} ELSE PromiseChoices(n)

PromiseInputs == Both(Chosen(Table(PromiseChoices)), Chosen(Table(ServerChoices)))

Client(route, gzip, hash, body) ==
  [route |-> route, items |-> {}, gzip |-> gzip, encrypted |-> FALSE, hash |-> hash, body |-> body]

(* Signed documents, one of them compressed, one that claims to be, and    *)
(* requests without a body with and without a hash.                        *)
OtherRequests ==
  {Client("updateJSON", FALSE, Hash(hex1, JSON), JSON),
   Client("updates", TRUE, Hash(hex2, JSON), Gzip(JSON)),
   Client("updates", TRUE, NoHash, JSON),
   Client("valueJSON", FALSE, Hash(hex1, JSON), JSON),
   Client("value", FALSE, Hash(hex2, Empty), Empty),
   Client("ping", FALSE, Hash(hex1, Empty), Empty),
   Client("list", FALSE, NoHash, Empty),
   Client("list", FALSE, Hash(hex1, Empty), Empty)}
================================================================================
