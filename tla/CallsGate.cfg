\* Calls at the approval gate: three calls, two tokens, no reload.
SPECIFICATION FairSpec
CONSTANTS
  Nil = Nil
  NoAction = NoAction
  a = a
  b = b
  c1 = c1
  c2 = c2
  c3 = c3
  t1 = t1
  t2 = t2
  alice = alice
  Anonymous = anonymous
  merge = merge
  deploy = deploy
  push = push
  get = get
  ServerConfigs <- Entries
  DefaultMaxConcurrent = 2
  Agents = {alice, anonymous}
  Tools = {merge, deploy, push, get}
  MergeTool = merge
  DeployTools = {deploy}
  BranchTools = {push}
  StateChangingTools = {merge, deploy, push}
  MaxPending = 1
  Names = {a}
  ConfigFiles <- FixedFiles
  MaxReloads = 0
  Calls = {c1, c2, c3}
  Requests <- GatedRequests
  Tokens = {t1, t2}
  TTL = 1
  MaxTime = 1
INVARIANTS SlotsAccounted GatedApproved
PROPERTY CallsEnd
CHECK_DEADLOCK FALSE
