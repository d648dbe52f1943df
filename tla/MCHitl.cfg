\* Safety of the approval table: room for two actions, three tokens drawn, two
\* named agents and the anonymous one, tokens good for one tick of two.
SPECIFICATION HitlSpec
CONSTANTS
  t1 = t1
  t2 = t2
  t3 = t3
  Tokens = {t1, t2, t3}
  alice = alice
  bob = bob
  Anonymous = anonymous
  Agents = {alice, bob, anonymous}
  merge = merge
  deploy = deploy
  Tools = {merge, deploy}
  MaxPending = 2
  TTL = 1
  MaxTime = 2
  NoAction = NoAction
INVARIANTS HitlTypeOK PendingBounded ApprovalsSound
PROPERTIES DisplacedOldest TicketSpec
SYMMETRY TokenSymmetry
\* The model stops when its clock and its tokens run out.
CHECK_DEADLOCK FALSE
