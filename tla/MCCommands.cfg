SPECIFICATION Spec
CONSTANTS
  proc1 = proc1
  proc2 = proc2
  proc3 = proc3
  Processes = {proc1, proc2, proc3}
  Settings <- MCSettings
  MaxFaults = 1
  Configs <- MCConfigs
  Hats <- MCHats
  Vaults <- MCVaults
  EnvVarName <- MCEnvVarName
  ParseName <- MCParseName
  Modes = {"local", "k8s", "k8s unreachable"}
  MaxJobs = 6
INVARIANTS
  RunsKeepApart
  JobsAsConfigured
  PresetsAreLive
SYMMETRY Interchangeable
