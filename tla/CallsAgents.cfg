\* The list of agents in a server's configuration, against the handler.
SPECIFICATION Spec
CONSTANTS
  Nil = Nil
  NoAction = NoAction
  a = a
  b = b
  c1 = c1
  c2 = c2
  c3 = c3
  t1 = t1
  t2 = t2
  alice = alice
  Anonymous = anonymous
  merge = merge
  deploy = deploy
  push = push
  get = get
  ServerConfigs <- AliceEntries
  DefaultMaxConcurrent = 2
  Agents = {alice, anonymous}
  Tools = {merge, deploy, push, get}
  MergeTool = merge
  DeployTools = {deploy}
  BranchTools = {push}
  StateChangingTools = {merge, deploy, push}
  MaxPending = 1
  Names = {a}
  ConfigFiles <- AliceFiles
  MaxReloads = 0
  Calls = {c1}
  Requests <- ReadByAnother
  Tokens = {}
  TTL = 1
  MaxTime = 0
INVARIANT AgentsRestricted
CHECK_DEADLOCK FALSE
