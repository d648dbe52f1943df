\* What the handler tells an agent of its token, against the eviction.
SPECIFICATION HitlSpec
CONSTANTS
  t1 = t1
  t2 = t2
  t3 = t3
  Tokens = {t1, t2, t3}
  alice = alice
  bob = bob
  Anonymous = anonymous
  Agents = {alice, bob, anonymous}
  merge = merge
  deploy = deploy
  Tools = {merge, deploy}
  MaxPending = 2
  TTL = 1
  MaxTime = 2
  NoAction = NoAction
INVARIANT ValidForTTL
\* The model stops when its clock and its tokens run out.
CHECK_DEADLOCK FALSE
