\* The doc comment of Reload on dropped calls, against the code.
SPECIFICATION Spec
CONSTANTS
  Nil = Nil
  NoAction = NoAction
  a = a
  b = b
  c1 = c1
  c2 = c2
  c3 = c3
  t1 = t1
  t2 = t2
  alice = alice
  Anonymous = anonymous
  merge = merge
  deploy = deploy
  push = push
  get = get
  ServerConfigs <- Entries
  DefaultMaxConcurrent = 2
  Agents = {alice, anonymous}
  Tools = {merge, deploy, push, get}
  MergeTool = merge
  DeployTools = {deploy}
  BranchTools = {push}
  StateChangingTools = {merge, deploy, push}
  MaxPending = 1
  Names = {a, b}
  ConfigFiles <- ReloadFiles
  MaxReloads = 1
  Calls = {c1}
  Requests <- PlainRequests
  Tokens = {}
  TTL = 1
  MaxTime = 0
INVARIANT NoDroppedCalls
CHECK_DEADLOCK FALSE
