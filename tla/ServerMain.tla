------------------------------ MODULE ServerMain ------------------------------
(***************************************************************************)
(* Start-up of the KMS server binary: main in server/src/main.rs and        *)
(* ServerParams::try_from in server/src/config/params/server_params.rs.    *)
(*                                                                         *)
(* main takes the configuration file from COSMIAN_KMS_CONF, bailing when   *)
(* that file does not exist, or else from /etc/cosmian_kms/server.toml;    *)
(* when the chosen file exists it is read and parsed as TOML and the       *)
(* command line is ignored, otherwise the command line (ClapConfig::parse) *)
(* is the configuration.  ServerParams::try_from refuses an authority      *)
(* certificate (client certificate verification) unless the server runs   *)
(* HTTPS, and fails when the certificate file cannot be loaded.  The       *)
(* server then runs; with the "timeout" feature a demo expiry future ends  *)
(* it.                                                                     *)
(*                                                                         *)
(* Each file-system access of main is a step of its own, and the           *)
(* configuration files may be created, replaced or removed by another      *)
(* process (a deployment tool) between them, at most MaxFsChanges times.   *)
(***************************************************************************)
EXTENDS Naturals

CONSTANTS
    EnvPath,        \* the path COSMIAN_KMS_CONF names
    DefaultPath,    \* KMS_SERVER_CONF, /etc/cosmian_kms/server.toml
    NoEnv,          \* COSMIAN_KMS_CONF is not set
    Absent,         \* a file that does not exist
    Unparsable,     \* a file that is not a valid TOML configuration
    CliConfig,      \* the configuration the command line gives
    TimeoutFeature, \* the binary is built with the "timeout" feature
    MaxFsChanges    \* bound on the changes other processes make to the files

Paths == {EnvPath, DefaultPath}

\* A configuration as far as start-up tells it apart: HTTPS or plain HTTP,
\* and whether it names an authority certificate file (loadable or not).
Configs == [https : BOOLEAN, authority : {"none", "loadable", "broken"}]

\* The values the constants are given: no proof is about this module.
ServerMainAssumption ==
    /\ EnvPath # DefaultPath
    /\ NoEnv \notin Paths
    /\ {Absent, Unparsable} \cap Configs = {}
    /\ CliConfig \in Configs
    /\ TimeoutFeature \in BOOLEAN
    /\ MaxFsChanges \in Nat

FileStates == Configs \cup {Absent, Unparsable}

VARIABLES
    env,        \* the value of COSMIAN_KMS_CONF
    fs,         \* fs[p]: the content of the file at path p
    pc,         \* where main is
    conf,       \* the configuration path main chose
    clap,       \* the ClapConfig main obtained
    source,     \* "file" or "cli": where clap came from
    params,     \* the ServerParams the server runs with
    changes     \* changes made to the files so far

vars == <<env, fs, pc, conf, clap, source, params, changes>>

NoValue == [none |-> TRUE]

Init ==
    /\ env \in {EnvPath, NoEnv}
    /\ fs \in [Paths -> FileStates]
    /\ pc = "env"
    /\ conf = NoValue
    /\ clap = NoValue
    /\ source = "none"
    /\ params = NoValue
    /\ changes = 0

\* main, lines 48-59: the configuration path; a COSMIAN_KMS_CONF naming a
\* missing file is an error.
choose_conf_path ==
    /\ pc = "env"
    /\ IF env # NoEnv
         THEN IF fs[env] = Absent
                THEN pc' = "error" /\ UNCHANGED conf
                ELSE pc' = "exists" /\ conf' = env
         ELSE pc' = "exists" /\ conf' = DefaultPath
    /\ UNCHANGED <<env, fs, clap, source, params, changes>>

\* main, lines 61-62 and 79-81: a missing file means the command line.
check_conf_exists ==
    /\ pc = "exists"
    /\ IF fs[conf] # Absent
         THEN pc' = "read" /\ UNCHANGED <<clap, source>>
         ELSE pc' = "try_from" /\ clap' = CliConfig /\ source' = "cli"
    /\ UNCHANGED <<env, fs, conf, params, changes>>

\* main, lines 69-78: read_to_string then toml::from_str, each failing with
\* a ServerError.
read_conf ==
    /\ pc = "read"
    /\ IF fs[conf] \in Configs
         THEN pc' = "try_from" /\ clap' = fs[conf] /\ source' = "file"
         ELSE pc' = "error" /\ UNCHANGED <<clap, source>>
    /\ UNCHANGED <<env, fs, conf, params, changes>>

\* ServerParams::try_from, lines 60-92: an authority certificate only over
\* HTTPS (kms_bail!), and only when load_cert can read and parse it.
try_from ==
    /\ pc = "try_from"
    /\ IF clap.authority = "none" \/ (clap.https /\ clap.authority = "loadable")
         THEN /\ params' = [https |-> clap.https,
                            client_cert |-> clap.authority = "loadable"]
              /\ pc' = "running"
         ELSE /\ pc' = "error"
              /\ UNCHANGED params
    /\ UNCHANGED <<env, fs, conf, clap, source, changes>>

\* main, lines 94-99: with the "timeout" feature the demo expiry future
\* ends the server.
demo_timeout ==
    /\ TimeoutFeature
    /\ pc = "running"
    /\ pc' = "stopped"
    /\ UNCHANGED <<env, fs, conf, clap, source, params, changes>>

\* Another process creates, rewrites or removes a configuration file.
ChangeFile ==
    /\ changes < MaxFsChanges
    /\ \E p \in Paths, c \in FileStates :
          /\ c # fs[p]
          /\ fs' = [fs EXCEPT ![p] = c]
    /\ changes' = changes + 1
    /\ UNCHANGED <<env, pc, conf, clap, source, params>>

Next ==
    \/ choose_conf_path
    \/ check_conf_exists
    \/ read_conf
    \/ try_from
    \/ demo_timeout
    \/ ChangeFile

MainStep ==
    choose_conf_path \/ check_conf_exists \/ read_conf \/ try_from \/ demo_timeout

\* main is one thread that never waits on anything but its own file reads.
Spec == Init /\ [][Next]_vars /\ WF_vars(MainStep)

-----------------------------------------------------------------------------

\* The error message of main, lines 50-54: with COSMIAN_KMS_CONF set the
\* server runs only on the configuration of that file, never on the
\* command line or the defaults.
EnvConfHonoured ==
    env # NoEnv /\ pc \in {"running", "stopped"} => source = "file"

=============================================================================
