------------------------------- MODULE Config -------------------------------
(***************************************************************************)
(* The configuration (config/config.go) and the two scales of log levels   *)
(* (internal/util/logger.go).  A Config is a function on its fields; a     *)
(* ConfigOverride is a function on the fields that it sets.  Only LogLvl's *)
(* values are told apart, other fields are "default" or what they are set  *)
(* to.                                                                     *)
(***************************************************************************)
EXTENDS Integers

(* util.LogLevel *)
TraceLevel == 0
DebugLevel == 1
InfoLevel  == 2
WarnLevel  == 3
ErrorLevel == 4

(* The verbosity scale of the command line and of ConfigOverride. *)
ErrorVerbose == 1
InfoVerbose  == 3
TraceVerbose == 5
LogLvls == <<ErrorLevel, WarnLevel, InfoLevel, DebugLevel, TraceLevel>>

Fields == {"ChunkSize", "CacheMaxSize", "MaxPrefetchAhead", "PrefetchBatchSize",
           "MaxFH", "MaxWrite", "AttrTimeout", "EntryTimeout", "DirectIO",
           "LogLvl", "FsName", "Name"}

(* merge: min(max(verbose, ErrorVerbose), TraceVerbose) into the table. *)
OverrideLevel(verbose) ==
    LogLvls[IF verbose < ErrorVerbose THEN ErrorVerbose
            ELSE IF verbose > TraceVerbose THEN TraceVerbose ELSE verbose]

(* Config.merge: what is set replaces what was there. *)
Merge(cfg, override) ==
    [f \in Fields |-> IF f \notin DOMAIN override THEN cfg[f]
                      ELSE IF f = "LogLvl" THEN OverrideLevel(override[f])
                      ELSE override[f]]

Defaults == [f \in Fields |-> IF f = "LogLvl" THEN InfoLevel ELSE "default"]

NewConfig(override) == Merge(Defaults, override)

(* LoadConfigOverrideFile: the extension decides on the parser; any other  *)
(* one, a missing file and a syntax error are errors.                      *)
LoadConfigOverrideFile(file) ==
    IF file.readable /\ file.ext \in {".yaml", ".yml", ".json"} /\ file.parses
      THEN {file.override}
      ELSE {}

(* NewConfigFromFile: the set of the configuration, empty on an error. *)
NewConfigFromFile(file) == {NewConfig(o) : o \in LoadConfigOverrideFile(file)}
=============================================================================
