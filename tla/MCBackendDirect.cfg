\* Statements issued by work an earlier call left behind.
CONSTANTS
  f = f
  g = g
  do = do
  s1 = s1
  p0 = p0
  p1 = p1
  t1 = t1
  t2 = t2
  None = None
  Oids <- MCTwo
  DoBlock = do
  Sources <- MCSources
  Grants <- MCGrants
  NoGrant = p0
  Slots <- MCOneSlot
SPECIFICATION Spec
INVARIANT OnlyTheDirectCallExecutesSql
