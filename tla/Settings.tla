-------------------------------- MODULE Settings --------------------------------
(***************************************************************************)
(* Where the agent and the server take their settings from: environment,   *)
(* flags, configuration file, defaults.                                    *)
(***************************************************************************)
CONSTANTS
  Unset,          \* a flag that is not given, a variable that is not set, or empty
  Zero, Junk,     \* the number 0, a text that is no number
  Default         \* per setting: the default of its flag, and of the file

Names == {"address", "interval", "dsn", "key", "crypto"}

(* What a program is started with.  The file is what the program's own     *)
(* loader makes of it: a setting that it lacks has its default, and so has *)
(* every setting when there is no file or the loader rejects it.  The two  *)
(* loaders expect other fields, so they may disagree about one file.       *)
Sources(V) ==
  [env: [Names -> V \cup {Unset}], flag: [Names -> V \cup {Unset}], file: [Names -> V]]

Flag(g, n) == IF g.flag[n] = Unset THEN Default[n] ELSE g.flag[n]

(* A flag counts as given when it differs from its default.                *)
FlagOrFile(g, n) == IF Flag(g, n) = Default[n] THEN g.file[n] ELSE Flag(g, n)

EnvOr(g, n, other) == IF g.env[n] = Unset THEN other ELSE g.env[n]

(* The agent ignores a number that it cannot parse.                        *)
AgentSetting(g, n) ==
  IF n = "interval" /\ g.env[n] = Junk
  THEN FlagOrFile(g, n) ELSE EnvOr(g, n, FlagOrFile(g, n))

(* A bug: the file is read after the environment. *)
LateFileServerSetting(g, n) ==
  IF n = "crypto" \/ g.file[n] = Default[n] THEN EnvOr(g, n, Flag(g, n)) ELSE g.file[n]

(* The server takes the path of its private key from main, which does not  *)
(* read the file.                                                          *)
ServerSetting(g, n) == EnvOr(g, n, IF n = "crypto" THEN Flag(g, n) ELSE FlagOrFile(g, n))
================================================================================
