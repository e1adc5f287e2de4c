CONSTANTS
    EnvPath = EnvPath
    DefaultPath = DefaultPath
    NoEnv = NoEnv
    Absent = Absent
    Unparsable = Unparsable
    CliConfig <- MC_CliConfig
    TimeoutFeature = TRUE
    MaxFsChanges = 1
SPECIFICATION Spec
INVARIANTS
    EnvConfHonoured
CHECK_DEADLOCK FALSE
