CONSTANTS
    EnvPorts = {5173, 3000, 5174}
    DefaultPorts <- MC_DefaultPorts
    SeqSpan = 2
    MaxPort = 65535
    NaN = NaN
    Args <- MC_Args
    InitEnvFiles <- MC_InitEnvFiles
    NoEnvFile = NoEnvFile
    MaxProcs = 2
    KillMayFail = TRUE
SPECIFICATION Spec
INVARIANT EnvKeepsOtherKeys
