------------------------------ MODULE Settings ------------------------------
(***************************************************************************)
(* How settings travel: from the environment and the command line into a   *)
(* front end's config, from there back into its environment, through       *)
(* resolve_daemon_env into the environment and the name of a daemon, and   *)
(* there into the daemon's own config.  Both processes read the same       *)
(* variables with two parsers, init_config_from_env and _parse_value.      *)
(*                                                                         *)
(* A key stands for all settings of its kind; a text for all strings the   *)
(* parsers treat alike: its value and how it is spelled.                   *)
(***************************************************************************)
EXTENDS FiniteSets, Naturals

CONSTANTS
  FrontEnds,     \* processes of one version and user
  Environments,  \* what their variables may be set to
  CommandLines   \* the options they may be given

VARIABLES
  pc,      \* where each front end is in run_server
  raw,     \* the environment each was started with
  env,     \* its environment now
  config,  \* its settings
  daemons  \* the daemons launched: name and settings

vars == <<pc, raw, env, config, daemons>>

Ints == {"cache_ttl"}                    \* and the entry cap, limits, counts
Floats == {"fetch_timeout"}              \* and the other times
Bools == {"browser_pool"}                \* and the two disable_ switches
Choices == {"min_mode", "converter"}     \* and default_format, like min_mode
Paths == {"scraping_dir", "rules_config"}  \* and url_rewrite_config, like rules
Secrets == {"jina_api_key"}
Keys == Ints \cup Floats \cup Bools \cup Choices \cup Paths \cup Secrets

\* Times that float() accepts and that are no amount of time.
NotFinite == {"inf", "nan"}

\* Among the values "low" is a number out of range, "elsewhere" a relative path
\* as seen from /, and "blank" a key of nothing but blanks.
Unset == [val |-> "default", form |-> "unset"]
Plain(v) == [val |-> v, form |-> "plain"]

\* The strings a variable of each kind may hold.
Spellings(k) ==
  CASE k \in Ints -> [val : {"default", "good", "low", "junk"}, form : {"plain", "padded"}]
    [] k \in Floats -> [val : {"good", "low", "junk"} \cup NotFinite, form : {"plain", "padded"}]
    [] k \in Bools -> [val : {"default", "good", "junk"}, form : {"plain", "padded", "upper"}]
    [] k \in Choices -> [val : {"default", "good", "junk"}, form : {"plain", "padded", "upper"}]
    [] k \in Paths -> [val : {"good"}, form : {"plain", "relative"}]
    [] k \in Secrets -> [val : {"good"}, form : {"plain", "padded"}] \cup {Plain("blank")}

\* An empty variable is no variable; an option that is not given is "none".
\* A switch can only be turned on, a path only be given, and there is no option
\* for the API key.
ASSUME InputsAssumption ==
  /\ \A e \in Environments :
       /\ e \in [Keys -> UNION {Spellings(k) : k \in Keys} \cup {Unset}]
       /\ \A k \in Keys : e[k] \in Spellings(k) \cup {Unset}
  /\ \A o \in CommandLines :
       /\ o \in [Keys -> {"good", "default", "none"} \cup NotFinite]
       /\ \A k \in Keys \ Floats : o[k] \notin NotFinite
       /\ \A k \in Bools \cup Paths : o[k] # "default"
       /\ \A k \in Secrets : o[k] = "none"

----------------------------------------------------------------------------
\* A path as seen from a working directory.
Resolved(t, home) == IF t.form = "relative" /\ ~home THEN "elsewhere" ELSE t.val

\* init_config_from_env and the setters: what a process makes of a variable.
\* int() and float() ignore blanks around a number, the others do not.
Read(k, t, home) ==
  IF t = Unset THEN "default" ELSE
  CASE k \in Ints -> IF t.val = "good" THEN "good" ELSE "default"
    [] k \in Floats -> IF t.val \in {"good"} \cup NotFinite THEN t.val ELSE "default"
    [] k \in Bools \cup Choices ->
         IF t.val = "good" /\ t.form # "padded" THEN "good" ELSE "default"
    [] k \in Paths -> Resolved(t, home)
    [] k \in Secrets -> IF t.form = "padded" THEN "padded" ELSE t.val
    [] OTHER -> "default"

\* set_markdown_converter is the one setter whose error nobody catches.
Crashes(e) ==
  LET t == e["converter"] IN t # Unset /\ (t.val = "junk" \/ t.form = "padded")

\* Slip: the API key enters the name as it is spelled.
CanonicalUnstripped(k, t, home) ==
  IF t = Unset THEN "absent" ELSE
  CASE k \in Ints -> IF t.val = "junk" THEN "absent" ELSE t.val
    [] k \in Floats -> IF t.val \in {"junk"} \cup NotFinite THEN "absent" ELSE t.val
    [] k \in Bools -> IF t.val = "good" /\ t.form # "padded" THEN "good" ELSE "absent"
    [] k \in Choices -> t.val
    [] k \in Secrets -> t.form
    [] OTHER -> Resolved(t, home)

\* _parse_value: what a variable contributes to the name of the daemon.
Canonical(k, t, home) ==
  IF t = Unset THEN "absent" ELSE
  CASE k \in Ints -> IF t.val = "junk" THEN "absent" ELSE t.val
    [] k \in Floats -> IF t.val \in {"junk"} \cup NotFinite THEN "absent" ELSE t.val
    [] k \in Bools -> IF t.val = "good" /\ t.form # "padded" THEN "good" ELSE "absent"
    [] k \in Choices \cup Secrets -> t.val
    [] OTHER -> Resolved(t, home)

Name(e, home) == [k \in Keys |-> Canonical(k, e[k], home)]

\* spawn_env over os.environ: strings are passed on normalised, what _parse_value
\* dropped is inherited as it is, and an empty string is no value.
DaemonEnv(e) ==
  [k \in Keys |->
     LET v == Canonical(k, e[k], TRUE)
     IN IF v = "absent" \/ k \notin Paths \cup Choices \cup Secrets THEN e[k]
        ELSE IF v = "blank" THEN Unset ELSE Plain(v)]

\* _sync_daemon_env: every setting is written back as it took effect, but for
\* an optional path or key that is not set.
WrittenBack(e, c) ==
  [k \in Keys |->
     IF k \in {"rules_config"} \cup Secrets /\ c[k] = "default" THEN e[k]
     ELSE IF c[k] = "padded" THEN [val |-> "good", form |-> "padded"]
     ELSE Plain(c[k])]

----------------------------------------------------------------------------
Init ==
  /\ pc = [f \in FrontEnds |-> "off"]
  /\ raw = [f \in FrontEnds |-> [k \in Keys |-> Unset]]
  /\ env = raw
  /\ config = [f \in FrontEnds |-> [k \in Keys |-> "default"]]
  /\ daemons = {}

\* init_config_from_env of a front end.
Start(f) ==
  /\ pc[f] = "off"
  /\ \E e \in Environments :
       /\ raw' = [raw EXCEPT ![f] = e]
       /\ env' = [env EXCEPT ![f] = e]
       /\ pc' = [pc EXCEPT ![f] = IF Crashes(e) THEN "crashed" ELSE "read"]
       /\ config' = [config EXCEPT ![f] = [k \in Keys |-> Read(k, e[k], TRUE)]]
  /\ UNCHANGED daemons

\* The command line overrides; an option not given leaves the setting alone.
Override(f) ==
  /\ pc[f] = "read"
  /\ pc' = [pc EXCEPT ![f] = "set"]
  /\ \E o \in CommandLines :
       config' = [config EXCEPT ![f] =
                    [k \in Keys |-> IF o[k] = "none" THEN @[k] ELSE o[k]]]
  /\ UNCHANGED <<raw, env, daemons>>

Sync(f) ==
  /\ pc[f] = "set"
  /\ pc' = [pc EXCEPT ![f] = "synced"]
  /\ env' = [env EXCEPT ![f] = WrittenBack(@, config[f])]
  /\ UNCHANGED <<raw, config, daemons>>

\* Slip: the environment overrides what was normalised for the daemon.
JoinInheriting(f) ==
  /\ pc[f] = "synced"
  /\ pc' = [pc EXCEPT ![f] = "joined"]
  /\ daemons' =
       IF \E d \in daemons : d.name = Name(env[f], TRUE) THEN daemons
       ELSE daemons \cup {[name |-> Name(env[f], FALSE),
                           config |-> [k \in Keys |-> Read(k, env[f][k], FALSE)]]}
  /\ UNCHANGED <<raw, env, config>>

\* The first call: the daemon of that name, or a new one, which reads its
\* environment in / and binds the name it finds there.
Join(f) ==
  /\ pc[f] = "synced"
  /\ pc' = [pc EXCEPT ![f] = "joined"]
  /\ daemons' =
       IF \E d \in daemons : d.name = Name(env[f], TRUE) THEN daemons
       ELSE LET e == DaemonEnv(env[f])
            IN daemons \cup {[name |-> Name(e, FALSE),
                              config |-> [k \in Keys |-> Read(k, e[k], FALSE)]]}
  /\ UNCHANGED <<raw, env, config>>

Next == \E f \in FrontEnds : Start(f) \/ Override(f) \/ Sync(f) \/ Join(f)

Spec == Init /\ [][Next]_vars

----------------------------------------------------------------------------
\* What a daemon is to make of f's settings: blanks around a key are dropped.
Meant(f) ==
  [k \in Keys |-> IF config[f][k] = "padded" THEN "good" ELSE config[f][k]]

BlankKey(f) == \E k \in Secrets : config[f][k] = "blank"

(* config_env.py:163-164, mcp.py:283-287: whoever launched it and however  *)
(* its variables are spelled, the daemon a front end talks to has bound    *)
(* the name the front end looks for and runs with its settings.  Two       *)
(* provisos: not for a front end whose API key is nothing but blanks, and  *)
(* a time that is not finite is only sure to be one of those.              *)
OwnSettings ==
  \A f \in FrontEnds : pc[f] = "joined" /\ ~BlankKey(f) =>
    /\ \E d \in daemons : d.name = Name(env[f], TRUE)
    /\ \A d \in daemons : d.name = Name(env[f], TRUE) =>
         \A k \in Keys : IF Meant(f)[k] \in NotFinite THEN d.config[k] \in NotFinite
                                                     ELSE d.config[k] = Meant(f)[k]

(* Front ends with the same settings look for the same daemon, however     *)
(* they were given them: whatever they were started with, an API key of    *)
(* blanks and times that are not finite included.                          *)
SettingsShareDaemon ==
  \A f, g \in FrontEnds :
    pc[f] = "joined" /\ pc[g] = "joined" /\ Meant(f) = Meant(g)
      => Name(env[f], TRUE) = Name(env[g], TRUE)

(* config_env.py:163-164: the daemon reads the values that made the name   *)
(* from the environment it is handed, so it binds the name that the front  *)
(* end that started it looks for.                                          *)
DaemonFound ==
  \A f \in FrontEnds : pc[f] = "joined" =>
    \E d \in daemons : d.name = Name(env[f], TRUE)

(* README.md:98: daemon shutdown, run in the environment a front end was   *)
(* started with, stops the daemon of that configuration.                   *)
ShutdownFinds ==
  \A f \in FrontEnds : pc[f] = "joined" =>
    \E d \in daemons : d.name = Name(raw[f], TRUE)
=============================================================================
