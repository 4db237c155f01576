SPECIFICATION Spec
CONSTANTS
  mine = mine  ours = ours  bare = bare  linter = linter  broken = broken  odd = odd  prompt = prompt
  hook = hook  server = server
  Event = {prompt}
  LayaHook = {ours, bare}
  Runs <- MCRuns
  Found = {"exe", "laya-codex"}
  Junk = {broken, odd}
  Odd <- MCOdd
  Absent = Absent
  Unsafe = Unsafe
  None = None
  Malformed = Malformed
  Key = {mine}
  Program = {"exe", "laya-codex", "lint"}
  Contents <- MCContents
  Project <- MCProject
  User <- MCUser
  Ours <- MCOurs
  Exe = "exe"
  Bare = "laya-codex"
  Paths <- MCPaths
  Machine <- MCMachine
  MaxRuns = 2
  MaxEdits = 1
  MaxFaults = 2
  Writer = {hook, server}
  Once = {server}
  MarkerIsOn = TRUE
  EnvSet <- MCEnvSet
  MaxBytes = 1
  MaxInode = 4
  MaxLines = 3
  MaxCommands = 1
INVARIANTS NothingLost AllOrNothing ExitZeroServable WriterOrder
CHECK_DEADLOCK FALSE
