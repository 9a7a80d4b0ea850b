SPECIFICATION InstallationSpec
CONSTANTS
  q1 = q1
  Passwords = {g1, g2}
  MaxRuns = 3
  MaxPanels = 3
  NoEnv = NoEnv
  Urls = {v1, v2}
  LocalUrl = v1
  GeneratedUrl = v2
  NoUrl = NoUrl  Redacted = Redacted  NoEntry = NoEntry
  MaxSuggested = 2
  MaxBoots = 2
  Machines <- MCMachines
  Tokens = {r1, r2}
  PanelKeys = {q1, q2}
  NoSecret = NoSecret
  MaxFlows = 1
  MaxChanges = 1
INVARIANTS
  InstallationTypeOK
  RerunKeepsPassword
  FinishedInstallWorks
  OpenedIsOnRecord
  ReportedOkIsTrue
CHECK_DEADLOCK FALSE
